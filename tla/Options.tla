------------------------------ MODULE Options -------------------------------
(***************************************************************************)
(* The options of a run and what is sent of them: the normalize functions  *)
(* of tools.py, pure functions of what the caller passed.  An option that  *)
(* is not passed, or passed as None, is Absent; Wrong stands for a value   *)
(* of a type the option does not take (a boolean for an integer included), *)
(* or a string that is not one of an enumeration.  A result is the value   *)
(* that is sent, Absent if the option is left out, or Refused for a        *)
(* ValueError.                                                             *)
(***************************************************************************)
EXTENDS Integers, Sequences, FiniteSets

CONSTANTS
    Absent, Wrong, Refused,
    On, Off,               \* True and False
    Modes,                 \* the plan modes
    Level,                 \* a reasoning level by name
    Text,                  \* any string that is right for its place
    BadName, NewlineName,  \* a schema name the pattern does not match, and a
                           \* good one followed by a newline
    MaxEntries             \* _TOOL_BUDGETS_MAX_ENTRIES

\* None, True and False are told apart from what has the wrong type.
ASSUME OptionsAssumption ==
    /\ Wrong \notin {Absent, On, Off} \cup Modes
    /\ On \notin {Absent, Off}

ThresholdMax == 100
NameMax == 120
CallsMax == 1000
IntervalMax == 100
CharsMax == 50000
MsMax == 600000
SchemaMaxBytes == 32 * 1024

InRange(v, low, high) == v # Wrong /\ low <= v /\ v <= high
AbsentOr(v, low, high) == v = Absent \/ InRange(v, low, high)

\* Fields are taken in camelCase, and else in snake_case.
Field(camel, snake) == IF camel # Absent THEN camel ELSE snake

\* normalize_reasoning_level
ReasoningLevel(v) ==
    IF v \in {Absent, Level} \/ InRange(v, 0, 100) THEN v ELSE Refused

LaxCutoff(consecutive, hard) ==
    consecutive # Absent /\ hard # Absent => hard >= consecutive
CutoffAfterNudge(consecutive, hard) ==
    consecutive # Absent /\ hard # Absent => hard > consecutive

\* normalize_loop_detection
LoopDetection(v) ==
    CASE v \in {Absent, Off} -> v
      [] v \in {On, Wrong} -> Refused
      [] OTHER ->
           LET consecutive == Field(v.consecutiveThreshold, v.consecutive_threshold)
               hard == Field(v.hardCutoffThreshold, v.hard_cutoff_threshold)
           IN IF /\ AbsentOr(consecutive, 2, ThresholdMax)
                 /\ AbsentOr(hard, 3, ThresholdMax)
                 /\ CutoffAfterNudge(consecutive, hard)
              THEN [consecutiveThreshold |-> consecutive, hardCutoffThreshold |-> hard]
              ELSE Refused

\* normalize_tool_budgets.  A tool name is its length.
ToolBudgets(v) ==
    CASE v = Absent -> v
      [] v = Wrong -> Refused
      [] OTHER ->
           LET Calls(name) == Field(v[name].maxCalls, v[name].max_calls)
           IN IF /\ Cardinality(DOMAIN v) <= MaxEntries
                 /\ \A name \in DOMAIN v :
                       /\ InRange(name, 1, NameMax)
                       /\ v[name] # Wrong
                       /\ Calls(name) # Absent /\ InRange(Calls(name), 0, CallsMax)
              THEN [name \in DOMAIN v |-> Calls(name)]
              ELSE Refused

\* normalize_supervisor.  Its modelId is not copied.
Supervisor(v) ==
    CASE v \in {Absent, Off} -> v
      [] v \in {On, Wrong} -> Refused
      [] OTHER ->
           LET trigger == v.reasoningTrigger
           IN IF /\ AbsentOr(v.interval, 1, IntervalMax)
                 /\ trigger \notin {On, Wrong}
                 /\ trigger \notin {Absent, Off} =>
                       AbsentOr(trigger.chars, 1, CharsMax) /\ AbsentOr(trigger.ms, 1, MsMax)
              THEN [interval |-> v.interval, reasoningTrigger |-> trigger]
              ELSE Refused

\* normalize_plan
Plan(v) ==
    CASE v \in {Absent, On, Off} \cup Modes -> v
      [] v = Wrong -> Refused
      [] OTHER ->
           IF /\ v.mode \in {Absent} \cup Modes
              /\ v.planOnly \in {Absent, On, Off}
              /\ v.brief \in {Absent, Text}
              /\ v.steps # Wrong
              /\ v.steps # Absent => \A i \in DOMAIN v.steps : v.steps[i] = Text
           THEN v ELSE Refused

\* normalize_output_schema.  `bytes` is the length of json.dumps; Python's `$`
\* matches before a newline at the end too.
OutputSchema(v) ==
    CASE v = Absent -> v
      [] v = Wrong -> Refused
      [] OTHER ->
           IF /\ v.name \in {Absent, Text, NewlineName}
              /\ v.enforcement \in {Absent, Text}
              /\ v.schema = Text
              /\ v.bytes <= SchemaMaxBytes
           THEN v ELSE Refused

OptionNames == {"reasoningLevel", "loopDetection", "toolBudgets", "supervisor",
                "plan", "outputSchema"}

Normalize(option, v) ==
    CASE option = "reasoningLevel" -> ReasoningLevel(v)
      [] option = "loopDetection"  -> LoopDetection(v)
      [] option = "toolBudgets"    -> ToolBudgets(v)
      [] option = "supervisor"     -> Supervisor(v)
      [] option = "plan"           -> Plan(v)
      [] option = "outputSchema"   -> OutputSchema(v)
=============================================================================

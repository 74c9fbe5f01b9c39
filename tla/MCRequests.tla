----------------------------- MODULE MCRequests -----------------------------
(* Requests with values at, inside and outside every limit of the options, *)
(* a limit of two on the entries of a budget, and at most two local tools  *)
(* of any kinds, whose names share a part.                                 *)
EXTENDS Requests

CONSTANTS auto, required, r1, r2, a, b, bad

At(limits) == {Absent, Wrong} \cup limits
Thresholds == At({1, 2, 3, 4, 100, 101})
Budgets == {Wrong} \cup [maxCalls : At({-1, 0, 1000, 1001}), max_calls : {Absent, 5}]
NameLengths == {0, 1, 120, 121, Wrong}

MCInputs == [option \in OptionNames |->
    CASE option = "reasoningLevel" -> At({Level, -1, 0, 100, 101})
      [] option = "loopDetection" ->
            {Absent, Wrong, On, Off} \cup
            [consecutiveThreshold : Thresholds, consecutive_threshold : {Absent, 2, 5, Wrong},
             hardCutoffThreshold : Thresholds, hard_cutoff_threshold : {Absent, 3, 5, Wrong}]
      [] option = "toolBudgets" ->
            {Absent, Wrong} \cup
            UNION {[names -> Budgets] : names \in {s \in SUBSET NameLengths : Cardinality(s) < 4}}
      [] option = "supervisor" ->
            {Absent, Wrong, On, Off} \cup
            [interval : At({0, 1, 100, 101}), modelId : {Absent, Text},
             reasoningTrigger : {Absent, Wrong, On, Off} \cup
                 [chars : At({0, 1, 50000, 50001}), ms : At({0, 1, 600000, 600001})]]
      [] option = "plan" ->
            {Absent, Wrong, On, Off, auto, required} \cup
            [mode : {Absent, Wrong, auto, required}, planOnly : {Absent, Wrong, On, Off},
             brief : {Absent, Wrong, Text},
             steps : {Absent, Wrong, <<>>, <<Text>>, <<Text, Wrong>>}]
      [] option = "outputSchema" ->
            {Absent, Wrong} \cup
            [name : {Absent, Wrong, Text, BadName, NewlineName}, enforcement : {Absent, Wrong, Text},
             schema : {Absent, Wrong, Text}, bytes : {32768, 32769}]]

Names == {<<a>>, <<b>>, <<a, b>>}
MCBadToolName == <<bad>>
Listed == UNION {[1..n -> {a, b}] : n \in 1..2}
Catalogs == {list \in UNION {[1..n -> Listed] : n \in 1..2} : IsInjective(list)}

Tools ==
    [kind : {"local"}, name : Names \cup {MCBadToolName}, by : {{}}, lists : {<<>>}]
    \cup [kind : {"a2a_local", "a2a"}, name : Names, by : {{}, {"url"}}, lists : {<<>>}]
    \cup [kind : {"mcp"}, name : {<<a>>}, by : {{"url"}}, lists : {<<>>}]
    \cup [kind : {"mcp_local"}, name : Names, by : {{"url"}}, lists : Catalogs]
    \cup [kind : {"mcp_local"}, name : {<<a>>}, by : SUBSET {"url", "command"}, lists : {<<<<b>>>>}]

MCDeclarations == UNION {[1..n -> Tools] : n \in 1..2}

MCToolLists == UNION {[1..n -> {r1, r2, Dict}] : n \in 0..2}
=============================================================================

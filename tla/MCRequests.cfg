SPECIFICATION Spec
CONSTANTS
    Absent = Absent
    Wrong = Wrong
    Refused = Refused
    On = On
    Off = Off
    Level = Level
    Text = Text
    BadName = BadName
    NewlineName = NewlineName
    Dict = Dict
    a = a
    b = b
    bad = bad
    Parts = {a, b, bad}
    BadToolName <- MCBadToolName
    Declarations <- MCDeclarations
    auto = auto
    required = required
    r1 = r1
    r2 = r2
    Modes = {auto, required}
    Refs = {r1, r2}
    MaxEntries = 2
    MaxMessages = 2
    Inputs <- MCInputs
    ToolLists <- MCToolLists
INVARIANTS
    SentIsTaken
    BodyNamesTheAgent
    EveryToolDeclared
    DeclaredToolIsCalled

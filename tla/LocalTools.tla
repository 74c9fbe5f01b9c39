------------------------------ MODULE LocalTools ------------------------------
(***************************************************************************)
(* A tool of the caller from its declaration to its call: the define_* and *)
(* mantyx_* constructors, the entries under which tools are sent           *)
(* (serialize_tool_refs), the tables kept to find them again               *)
(* (collect_local_handlers), and the use of both when a local_tool_call    *)
(* comes in (_dispatch_local_tool).  Pure functions of a list of tools.    *)
(*                                                                         *)
(* A tool is a record of its kind, its name, what it is reached by and,    *)
(* for a local MCP server, the names its tools/list returned.  A name is   *)
(* the sequence of its parts between underscores.                          *)
(***************************************************************************)
EXTENDS Integers, Sequences, SequencesExt

CONSTANTS
    Parts,         \* the parts of names
    BadToolName    \* a name that is not made of 1 to 64 letters, digits and underscores

Local == {"local", "a2a_local", "mcp_local"}      \* _LocalHandlers
ToolKinds == Local \cup {"mantyx", "mantyx_plugin", "a2a", "mcp"}
NoTool == 0

Name == Seq(Parts) \ {<<>>}
Tool == [kind : ToolKinds, name : Name, by : SUBSET {"url", "command"}, lists : Seq(Name)]

\* The constructors refuse a name, an id or a plugin name of the wrong shape,
\* a peer without a URL, and an MCP server with both transports or none.
Definable(tool) ==
    /\ tool.name # BadToolName
    /\ tool.kind \in {"a2a", "mcp", "a2a_local"} => "url" \in tool.by
    /\ tool.kind = "mcp_local" => tool.by \in {{"url"}, {"command"}}

\* _prefixed_mcp_tool_name
WireName(server, name) == IF IsStrictPrefix(server, name) THEN name ELSE server \o name

\* serialize_tool_refs
Entry(tool) ==
    [kind |-> tool.kind, name |-> tool.name,
     tools |-> IF tool.kind = "mcp_local"
               THEN [i \in DOMAIN tool.lists |-> WireName(tool.name, tool.lists[i])]
               ELSE <<>>]

Entries(tools) == [i \in DOMAIN tools |-> Entry(tools[i])]

\* What the model sees of an entry, and the local_tool_call it causes.
Offers(entry) == IF entry.kind = "mcp_local" THEN entry.tools ELSE <<entry.name>>

CallOf(entry, n) ==
    [kind |-> entry.kind, name |-> Offers(entry)[n],
     mcpServer |-> entry.name, mcpToolName |-> Offers(entry)[n]]

\* collect_local_handlers: one table per kind, in which a later tool replaces
\* an earlier one of its name.
LastOf(positions) == IF positions = {} THEN NoTool ELSE Max(positions)

AnyKind(tools, kind, name) ==
    LastOf({i \in DOMAIN tools : tools[i].kind \in Local /\ tools[i].name = name})
Handler(tools, kind, name) ==
    LastOf({i \in DOMAIN tools : tools[i].kind = kind /\ tools[i].name = name})

\* What tools/call is asked for.
AsIs(server, name) == name
UpstreamName(server, name) ==
    IF IsStrictPrefix(server, name) THEN SubSeq(name, Len(server) + 1, Len(name)) ELSE name

\* _dispatch_local_tool: the position of the tool that is run, or NoTool for
\* an error result, and what it is asked for.
Dispatched(tools, ev) ==
    IF ev.kind = "mcp_local"
    THEN [tool |-> Handler(tools, ev.kind, ev.mcpServer),
          asked |-> UpstreamName(ev.mcpServer, ev.mcpToolName)]
    ELSE [tool |-> Handler(tools, ev.kind, ev.name), asked |-> ev.name]
=============================================================================

----------------------------- MODULE MCMcpRefs ------------------------------
EXTENDS McpPortal, TLC

CONSTANTS u1, u2, a, b, c

OwnTools == u1 :> <<a, b>> @@ u2 :> <<c>>
OneOfAll == u1 :> Calls @@ u2 :> {"run"}
=============================================================================

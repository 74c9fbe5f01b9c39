---------------------------- MODULE MCSseParser -----------------------------
EXTENDS SseParser

Written == <<"1", "2", "3">>
=============================================================================

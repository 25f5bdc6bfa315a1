--------------------------- MODULE MCPrefaultLive ---------------------------
EXTENDS PrefaultLive
=============================================================================

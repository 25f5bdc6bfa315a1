--------------------------- MODULE MCPrefaultRoll ---------------------------
EXTENDS PrefaultRoll
=============================================================================

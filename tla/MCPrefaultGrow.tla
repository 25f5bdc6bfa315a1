--------------------------- MODULE MCPrefaultGrow ---------------------------
EXTENDS PrefaultGrow
=============================================================================

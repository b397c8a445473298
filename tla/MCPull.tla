-------------------------------- MODULE MCPull --------------------------------
EXTENDS Pull, TLC

Symmetric == Permutations(Entries) \cup Permutations(Runners)
=============================================================================

----------------------------- MODULE MCPinCache -----------------------------
\* Small instances of the pin cache.
EXTENDS PinCache, TLC

Symmetry == Permutations(Proc) \cup Permutations(Name)
=============================================================================

---------------------------- MODULE MCLifecycle ----------------------------
\* Small instances of the daemons' lifecycle.
EXTENDS Lifecycle, TLC

Symmetry == Permutations(Daemon) \cup Permutations(Command)
=============================================================================

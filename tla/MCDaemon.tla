------------------------------ MODULE MCDaemon ------------------------------
\* Small instances of the daemon.
EXTENDS Daemon, TLC

Symmetry ==
    Permutations(Conn) \cup Permutations(Request) \cup Permutations(Prs) \cup Permutations(Addr)
=============================================================================

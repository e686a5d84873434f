---------------------------- MODULE MCDiscovery ----------------------------
\* Small instances of discovery.
EXTENDS Discovery

CONSTANTS w, n2

\* The IP address of w differs from LAN to LAN; other interfaces have the one of w
\* at home, wherever they are.
MCIp(a) == IF a = <<w, n2>> THEN 2 ELSE 1

\* Every address differs.
MCDistinctIp(a) == a
=============================================================================

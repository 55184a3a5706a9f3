---------------------------- MODULE MCDaemonPorts ----------------------------
EXTENDS DaemonPorts

CONSTANTS p1

\* Every workspace declares one port, the same for all.
OneShared == [w \in Ws |-> {p1}]
=============================================================================

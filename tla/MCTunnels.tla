------------------------------ MODULE MCTunnels ------------------------------
EXTENDS Tunnels, TLC

\* Every workspace declares every port.
AllShared == [w \in Ws |-> Port]

Symmetry == Permutations(Conn) \cup Permutations(Tun) \cup Permutations(Ws)
=============================================================================

--------------------------- MODULE MCWorkspaceBoot ---------------------------
EXTENDS WorkspaceBoot, TLC

CONSTANTS d1, d2, dot, guest, home1, home2, tail2

\* `.' names the directory a command is called from, home1 or home2; the path of
\* home2 has a colon in it.
Where == [d \in Cwd |-> [f \in Field |->
            IF f = dot THEN IF d = d1 THEN <<home1>> ELSE <<home2, tail2>>
            ELSE IF f = home1 THEN <<home1>> ELSE None]]

\* The default mount, and options that are refused: no CPU, too many, a port out
\* of range, a port twice, a mount without a guest path or of no directory.
Runs == {[cpus |-> MaxCPUs, ports |-> <<MaxPort>>, mount |-> <<dot, guest>>],
         [cpus |-> 0, ports |-> <<>>, mount |-> <<>>],
         [cpus |-> MaxCPUs + 1, ports |-> <<>>, mount |-> <<>>],
         [cpus |-> 1, ports |-> <<MaxPort + 1>>, mount |-> <<>>],
         [cpus |-> 1, ports |-> <<1, 1>>, mount |-> <<>>],
         [cpus |-> 1, ports |-> <<>>, mount |-> <<dot>>],
         [cpus |-> 1, ports |-> <<>>, mount |-> <<guest, guest>>]}

Inherit == [k \in {} |-> None]
NoMount == [k \in {"mount"} |-> <<>>]
Forks == {Inherit, NoMount}

Symmetry == Permutations(Ws)
=============================================================================

SPECIFICATION Spec
CONSTANTS
    Name = {1, 2}
    Cli = {c1, c2}
    Proc = {p1}
    Disk = {d1, d2, d3}
    SSHPort = {2222, 2223}
    Custom = {}
    Command = {"run", "fork", "rm"}
    None = None
SYMMETRY Symmetry
INVARIANTS TypeOK CloneOnlyLeftover RecordedFiles PublicationOwned PortsUnique

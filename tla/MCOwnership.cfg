SPECIFICATION Spec
CONSTANTS
    Name = {1}
    Cli = {c1, c2}
    Proc = {p1, p2, p3}
    Disk = {d1, d2}
    SSHPort = {2222, 2223}
    Custom = {}
    Command = {"run", "start", "stop", "rm", "rmf", "switch", "ps"}
    None = None
SYMMETRY Symmetry
INVARIANTS ExclusiveButLeftover RecordedOwnDisk RemoveOnlyLeftover RunningHasReceipt OneRoutingTarget
PROPERTIES NoFalseStop LiveReceiptKept WorkspaceStoreSpec

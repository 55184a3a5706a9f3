SPECIFICATION Spec
CONSTANTS
    Name = {1}
    Cli = {c1}
    Proc = {p1, p2}
    Disk = {d1, d2}
    SSHPort = {2222}
    Custom = {}
    Command = {"run", "rm"}
    None = None
INVARIANT ExclusiveDisk

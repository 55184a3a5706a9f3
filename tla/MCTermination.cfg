SPECIFICATION LiveSpec
CONSTANTS
    Name = {1, 2}
    Cli = {c1, c2}
    Proc = {p1}
    Disk = {d1, d2}
    SSHPort = {2222, 2223}
    Custom = {2}
    Command = {"run", "rmf"}
    None = None
PROPERTY CommandsTerminate

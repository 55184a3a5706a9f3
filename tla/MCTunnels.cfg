SPECIFICATION Spec
CONSTANTS
    Ws = {w1}
    Port = {p1}
    Declares <- AllShared
    SshPort = {1}
    MaxVm = 1
    Conn = {c1, c2}
    Tun = {t1, t2}
    None = None
SYMMETRY Symmetry
CHECK_DEADLOCK FALSE
INVARIANTS TypeOK NoStraySsh SocketKept StopFinal

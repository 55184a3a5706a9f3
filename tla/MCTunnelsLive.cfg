SPECIFICATION LiveSpec
CONSTANTS
    Ws = {w1, w2}
    Port = {p1}
    Declares <- AllShared
    SshPort = {1, 2}
    MaxVm = 2
    Conn = {c1}
    Tun = {t1}
    None = None
CHECK_DEADLOCK FALSE
INVARIANT NeverStale
PROPERTY Answered

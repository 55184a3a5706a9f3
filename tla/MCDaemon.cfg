SPECIFICATION LiveSpec
CONSTANTS
    p1 = p1
    Ws = {w1, w2}
    Port = {p1}
    Declares <- OneShared
    Daemon = {d1, d2}
    Faults = {"deadline", "kill"}
    None = None
INVARIANTS OneOwner PreemptedInTime
PROPERTIES DeclaredKept PortsReleased CommandsEnd

SPECIFICATION Spec
CONSTANTS
    d1 = d1
    d2 = d2
    dot = dot
    guest = guest
    home1 = home1
    home2 = home2
    tail2 = tail2
    Cwd = {d1, d2}
    Field = {dot, guest, home1, home2, tail2}
    Absolute = {guest}
    Real <- Where
    Ws = {w1, w2}
    RunOptions <- Runs
    Overrides <- Forks
    MaxMint = 1
    Faults = {"window"}
    None = None
SYMMETRY Symmetry
INVARIANT Diverged

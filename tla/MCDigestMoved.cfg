SPECIFICATION Spec
CONSTANTS
    Cmd = {c1, c2}
    Ref = {r1}
    Digest = {a, b}
    Served <- Moving
    Faults = {}
    None = None
INVARIANT DigestAddressed

SPECIFICATION LiveSpec
CONSTANTS
    Cmd = {c1, c2}
    Ref = {r1}
    Digest = {a, b}
    Served <- Moving
    Faults = {"damage", "power"}
    None = None
INVARIANTS TypeOK TemplateWhole RebuildNeeded
PROPERTIES TemplateStoreSpec EnsureEnds

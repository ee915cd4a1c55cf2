SPECIFICATION Safety
CONSTANTS
    c1 = c1  c2 = c2
    s1 = s1  s2 = s2
    f1 = f1  f2 = f2
    b1 = b1
    None = None
    Calls = {c1, c2}
    HttpCap = 1
    ServiceCap = 1
    BusCap = 1
    MaxEpoch = 2
    Slots = {s1}
    Ids = {f1, f2}
    Protocols = {"http1", "h2"}
    Split = {}
    Backend <- MCBackend
    MaxStarts = 2
    Paths = {"/", "/test"}
    MaxGen = 2
    MaxFaults = 1
SYMMETRY MCSymmetry
INVARIANTS StatusTellsOutcome IInv
PROPERTY ServerHolds
CHECK_DEADLOCK FALSE

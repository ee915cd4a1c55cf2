SPECIFICATION Spec
CONSTANTS
    s1 = s1  s2 = s2
    r1 = r1  r2 = r2  r3 = r3
    b1 = b1  f1 = f1  f2 = f2
    None = None
    Slots = {s1, s2}
    Ids = {f1, f2}
    Requests = {r1}
    Protocols = {"h2"}
    Split = {}
    QueueCap = 2
    Backend <- MCBackend
    MainMayStop = FALSE
    MaxStarts = 1
INVARIANT AvailableIsExposed
CHECK_DEADLOCK FALSE

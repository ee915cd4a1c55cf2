SPECIFICATION Safety
CONSTANTS
    s1 = s1  s2 = s2
    r1 = r1  r2 = r2  r3 = r3
    b1 = b1  f1 = f1  f2 = f2
    None = None
    Slots = {s1}
    Ids = {f1, f2}
    Requests = {r1, r2}
    Protocols = {"http1", "h2"}
    Split = {"http1", "h2"}
    QueueCap = 2
    Backend <- MCBackend
    MainMayStop = TRUE
    MaxStarts = 2
INVARIANTS TypeOK OneHolder NoPipelining OwnResponse ListedWhileServing NoOrphans IInv
PROPERTIES OrderlyDrain LostWithHolder ImplementsExchange
SYMMETRY MCSymmetry
CHECK_DEADLOCK FALSE

SPECIFICATION Spec
CONSTANTS
    k1 = k1  k2 = k2  k3 = k3
    None = None
    Conns = {k1, k2, k3}
    Tls = TRUE
    Offers <- MCOffers
    MaxRuns = 3
INVARIANTS IInv RunsDisjoint GaugeCounts
PROPERTIES Rebinds BacklogSettles
CHECK_DEADLOCK FALSE

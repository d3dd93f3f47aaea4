SPECIFICATION Spec
CONSTANTS
    Workers = {w1, w2}
    v1 = v1
    v2 = v2
    p1 = p1
    p2 = p2
    Vendors = {v1, v2}
    Payloads = {p1, p2}
    Requests <- MixedRequests
    Answers = {a1}
    Costs <- MCCosts
    MaxCost = 8
    Budget = 12
    VendorBudget = 9
    MayCrash = TRUE
    MaxLost = 2
    None = None
SYMMETRY MCSymmetry
INVARIANTS TypeOK OvershootBounded AskedBounded

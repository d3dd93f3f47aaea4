SPECIFICATION Spec
CONSTANTS
    Events = {e1, e2, e3}
    Keys = {k1, k2}
    e1 = e1
    e2 = e2
    e3 = e3
    k1 = k1
    k2 = k2
    Timestamps <- MCTimestamps
    Readings <- ShipmentReadings
    Unreadable = {}
    Workers = {w1, w2}
    Truncator = truncator
    NoRow = NoRow
SYMMETRY MCSymmetry
INVARIANTS TypeOK Accounting Referential TransactionInv NoAssertionFails NoWaitCycle
PROPERTIES NeverBackward Serializable

SPECIFICATION FairSpec
CONSTANTS
    Events = {e1, e2}
    Keys = {k1}
    e1 = e1
    e2 = e2
    e3 = e3
    k1 = k1
    k2 = k2
    Timestamps <- MCTimestamps
    Readings <- InvoiceReadings
    Unreadable = {e2}
    Workers = {w1, w2}
    Truncator = truncator
    NoRow = NoRow
INVARIANTS CanonicalApplied
PROPERTIES EveryAttemptEnds

SPECIFICATION ServiceSpec
CHECK_DEADLOCK FALSE
CONSTANTS
    Events = {e1, e2}
    e1 = e1
    e2 = e2
    Vendors = {"maersk"}
    Values <- MCValues
    NoRow = NoRow
    Names <- MCNames
    Addresses <- MCAddresses
    TimePaths <- MCTimePaths
    payload <- MCPayload
    vendor_hint <- MCHint
    inferred <- MCInferred
    instant <- MCInstant
    SameDate <- SameTime
    Answers <- MCAnswers
    TypeAnswers <- MCTypeAnswers
    Readings <- OneReading
    Workers = {w1, w2}
    Flaky = {e2}
    MaxFinalized = 2
SYMMETRY MCSymmetry
INVARIANTS ServiceTypeOK OneEntity SameEventsSameProjections
PROPERTIES ProjectionsExplained

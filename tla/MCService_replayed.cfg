SPECIFICATION ServiceSpec
CHECK_DEADLOCK FALSE
CONSTANTS
    Events = {e1, e2}
    e1 = e1
    e2 = e2
    Vendors = {"maersk"}
    Values <- MCValues
    NoRow = NoRow
    Names <- MCNames
    Addresses <- MCAddresses
    TimePaths <- MCTimePaths
    payload <- MCPayload
    vendor_hint <- MCHint
    inferred <- MCInferred
    instant <- MCInstant
    SameDate <- MCSameDate
    Answers <- MCAnswers
    TypeAnswers <- MCTypeAnswers
    Readings <- TwoReadings
    Workers = {w1}
    Flaky = {}
    MaxFinalized = 2
INVARIANT ReplayReproduces

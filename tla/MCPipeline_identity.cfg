SPECIFICATION Spec
CONSTANTS
    Events = {e1, e2}
    e1 = e1
    e2 = e2
    Vendors = {"maersk"}
    Values <- MCValues
    NoRow = NoRow
    Names <- MCNames
    Addresses <- MCAddresses
    TimePaths <- MCTimePaths
    payload <- MCPayload
    vendor_hint <- NoHint
    instant <- MCInstant
    SameDate <- MCSameDate
    inferred <- Unknown
    Answers <- GoodAnswer
    TypeAnswers <- GoodTypeAnswer
    Workers = {w1}
    Flaky = {}
INVARIANTS IdentityStable

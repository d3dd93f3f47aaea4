SPECIFICATION Spec
CONSTANTS
    Events = {e1, e2}
    e1 = e1
    e2 = e2
    Vendors = {"maersk"}
    Values <- MCValues
    NoRow = NoRow
    Names <- MCNames
    Addresses <- MCAddresses
    TimePaths <- MCTimePaths
    payload <- DottedPayload
    vendor_hint <- NoHint
    instant <- MCInstant
    SameDate <- MCSameDate
    inferred <- Known
    Answers <- GoodAnswer
    TypeAnswers <- GoodTypeAnswer
    Workers = {w1}
    Flaky = {}
INVARIANT SameExtraction

SPECIFICATION Spec
CONSTANTS
    Events = {e1, e2}
    e1 = e1
    e2 = e2
    Vendors = {"maersk"}
    Values <- MCValues
    NoRow = NoRow
    Names <- MCNames
    Addresses <- MCAddresses
    TimePaths <- MCTimePaths
    payload <- MCPayload
    vendor_hint <- NoHint
    instant <- MCInstant
    SameDate <- MCSameDate
    inferred <- Known
    Answers <- AnyAnswer
    TypeAnswers <- MCTypeAnswers
    Workers = {w1, w2}
    Flaky = {e1, e2}
SYMMETRY MCSymmetry
INVARIANTS TypeOK KnownVendorKept ClassifiedOnceEach SchemaReadsItsSource
PROPERTIES RegistryKept

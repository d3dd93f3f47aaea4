SPECIFICATION Spec
CONSTANTS
    Events = {e1}
    Requests = {r1, r2}
    Slots = {s1, s2}
    Replays <- AnyReplay
    MaxTries = 2
    Limit <- EachOnce
    None = None
SYMMETRY MCSymmetry
INVARIANTS TypeOK Durable OneRunner NothingStranded

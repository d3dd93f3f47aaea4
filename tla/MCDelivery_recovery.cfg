SPECIFICATION RecoverySpec
CONSTANTS
    Events = {e1}
    Requests = {r1}
    Slots = {s1, s2}
    Replays <- EnqueueAll
    MaxTries = 1
    Limit <- LossesOnly
    None = None
PROPERTIES Recovered DeferredTriedAgain

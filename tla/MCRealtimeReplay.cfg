CONSTANTS
    Seats = {0}
    ControlStates = {"neutral", "fire"}
    Neutral = "neutral"
    MaxTick = 2
    MaxEpoch = 2
    MaxSequence = 3
    MaxRevision = 1
    Delay = 1
    Horizon = 1
    Capacity = 2
    Limit = 7
    Received <- MCReceived
    Snapshots <- MCSnapshots
    NoTransition = NoTransition
SPECIFICATION ReplaySpec
INVARIANTS
    LogDeterminesSession

    

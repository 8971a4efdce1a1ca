CONSTANTS
    Seats = {0}
    ControlStates = {"neutral", "fire"}
    Neutral = "neutral"
    MaxTick = 3
    MaxEpoch = 2
    MaxSequence = 3
    MaxRevision = 1
    Delay = 1
    Horizon = 2
    Capacity = 2
    Received <- MCReceived
    Snapshots <- MCSnapshots
    NoTransition = NoTransition
SPECIFICATION FairSpec
INVARIANTS
    PendingIsFuture
    NeverScheduledAgain
    ConflictNeverApplied
PROPERTIES
    RewindRenewsEveryEpoch
    FloorNeverFalls
    ScheduledIsResolved

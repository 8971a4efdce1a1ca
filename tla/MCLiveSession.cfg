SPECIFICATION FairSession
CONSTANTS
    CallerIds = {1, 2}
    Capacity = 1
    MaxPerClient = 2
    MaxPerSession = 2
    MaxOwners = 2
    MaxWires = 3
    MaxNotices = 1
INVARIANTS
    RoutesMirror
    AnswersGoHome
    CancelsOwn
    OnlyLastClientEnds
PROPERTIES
    EveryRequestAnswered

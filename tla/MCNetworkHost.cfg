SPECIFICATION FairHost
CONSTANTS
    MaxSeats = 1
    MaxConnections = 2
    MaxBuffered = 2
    MaxEvents = 2
    MaxQueued = 2
    MaxAccepts = 2
    MaxSends = 2
    MaxMessages = 1
INVARIANTS
    BufferedAccounted
    ClaimsHaveHolders
    SessionsAlternate

    

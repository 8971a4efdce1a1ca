SPECIFICATION FairClient
CONSTANTS
    MaxRecords = 2
    MaxBytes = 3
    Sizes = {1, 3}
    MaxEpochs = 2
    MaxFaults = 1
    MaxReceived = 1
INVARIANTS
    OutboundAccounted
    MailboxIsCurrent
    NothingReplayed
PROPERTIES
    WantedConnects
    ShutdownReturns

SPECIFICATION Spec
CONSTANTS
    main = main
    lib = lib
    old = old
    new = new
    bad = bad
    veto = veto
    wide = wide
    None = None
    Files <- MCFiles
    Contents <- MCContents
    Broken = {bad}
    Rejecting = {veto}
    Layout <- MCLayout
    Start <- MCStart
    Edits <- MCGoodEdits
    Ops = {"edit", "cancel"}
    MaxRequests = 2
    Capacity = 1
    MaxPending = 1
    RequestsPerTick = 1
    IoFails = FALSE
    HookVaries = FALSE
    Written <- MCWritten
    MaxWrites = 2
INVARIANTS
    CommitMatchesDisk
    
PROPERTIES
    ChangesSettle
    RequestsAnswered

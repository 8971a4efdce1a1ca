SPECIFICATION Spec
CONSTANTS
    main = main
    lib = lib
    old = old
    new = new
    bad = bad
    veto = veto
    wide = wide
    None = None
    Files <- MCFiles
    Contents <- MCContents
    Broken = {bad}
    Rejecting = {veto}
    Layout <- MCLayout
    Start <- MCStart
    Edits <- MCEdits
    Ops = {"edit", "preview", "apply", "undo", "redo", "cancel", "quit", "disconnect", "close"}
    MaxRequests = 3
    Capacity = 2
    MaxPending = 1
    RequestsPerTick = 2
    IoFails = TRUE
    HookVaries = TRUE
    Written <- MCNone
    MaxWrites = 0
INVARIANTS
    
    CanceledNeverCommits

SPECIFICATION Spec
CONSTANTS
    main = main
    lib = lib
    m0 = m0
    m1 = m1
    l0 = l0
    l1 = l1
    Missing = Missing
    Root = main
    Files <- MCFiles
    Contents <- MCContents
    Versions <- MCVersions
    Imports <- MCImports
    Conflicts <- MCConflicts
    Deletes = FALSE
    MaxEdits = 2
INVARIANTS
    RunsWhatIsSavedAlways

SPECIFICATION Spec
CONSTANTS
    main = main
    help = help
    one = one
    two = two
    value = value
    app = app
    a = a
    b = b
    Value = value
    Absent = Absent
    NoUnit = NoUnit
    NoProgram = NoProgram
    Functions <- AllFunctions
    Files <- Sources
    FileOf <- SourceOf
    Entries <- HostEntries
    Homonyms <- Declaring
    Texts <- Bodies
    Starts <- StartingPrograms
    MaxEdits = 3
INVARIANT NoCodeStale
CHECK_DEADLOCK FALSE

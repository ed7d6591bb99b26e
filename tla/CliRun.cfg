\* Whole runs of the program, on every family.
SPECIFICATION FairSpec
CONSTANTS
    WordMax = 15
    Starts <- SomeStarts
INVARIANTS TypeOK ExitTellsAll DumpShowsBefore OcBeforeClocks OneMeaning
    NothingOnBadLine OwnValue Heeded
PROPERTIES Exits

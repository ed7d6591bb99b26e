\* One process over PCI, whose failed data reads are not flagged.
SPECIFICATION Spec
CONSTANTS
    p1 = p1
    Procs = {p1}
    NoProc = NoProc
    LockProcs = {p1}
    RawProcs = {}
    PciProcs = {p1}
    TestTxns = {}
    MaxTxn = 1
    LastArg = 1
    WriteMayFail = FALSE
    ReadMayFail = TRUE
INVARIANT FailedReadIsFlagged

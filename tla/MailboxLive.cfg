\* Every call ends and no command runs twice, with p3 unable to use the lock file
\* and alone on the PCI bus.
SPECIFICATION FairSpec
CONSTANTS
    p1 = p1
    p2 = p2
    p3 = p3
    Procs = {p1, p2, p3}
    NoProc = NoProc
    LockProcs = {p1, p2}
    RawProcs = {p1}
    PciProcs = {p3}
    TestTxns = {}
    MaxTxn = 2
    LastArg = 0
    WriteMayFail = TRUE
    ReadMayFail = TRUE
INVARIANT AtMostOnce
PROPERTIES Returns

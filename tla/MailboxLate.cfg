\* The late answer to a request that timed out.
SPECIFICATION Spec
CONSTANTS
    p1 = p1
    p2 = p2
    Procs = {p1, p2}
    NoProc = NoProc
    LockProcs = {p1, p2}
    RawProcs = {}
    PciProcs = {}
    TestTxns = {}
    MaxTxn = 2
    LastArg = 1
    WriteMayFail = FALSE
    ReadMayFail = FALSE
SYMMETRY Symmetry
INVARIANT SerialisedOkIsOwn

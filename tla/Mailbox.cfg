\* Two processes that may use smu_raw_cmd, or SMN registers over ryzen_smu whenever it
\* is refused, and one over PCI; all of them lock, and every access may fail.
SPECIFICATION Spec
CONSTANTS
    p1 = p1
    p2 = p2
    p3 = p3
    Procs = {p1, p2, p3}
    NoProc = NoProc
    LockProcs = {p1, p2, p3}
    RawProcs = {p1, p2}
    PciProcs = {p3}
    TestTxns = {1, 2}
    MaxTxn = 2
    LastArg = 2
    WriteMayFail = TRUE
    ReadMayFail = TRUE
INVARIANTS TypeOK LockHeldInside OwnArguments OkIsOwn
PROPERTIES ImplementsService BusyIsTrue

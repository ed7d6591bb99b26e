\* Two processes over PCI that lock, one over ryzen_smu that does not.
SPECIFICATION Spec
CONSTANTS
    p1 = p1
    p2 = p2
    p3 = p3
    Procs = {p1, p2, p3}
    NoProc = NoProc
    LockProcs = {p1, p2}
    PciProcs = {p1, p2}
    Regs = {r1, r2}
    Vals = {0, 1, ones}
    AllOnes = ones
SYMMETRY Symmetry
INVARIANTS TypeOK SelectedIsOwn
PROPERTIES ImplementsRegisters

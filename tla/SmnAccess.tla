------------------------------ MODULE SmnAccess ------------------------------
(***************************************************************************)
(* One access to an SMN register, taken apart: a read or a write selects   *)
(* the register and then transfers the data, over PCI configuration space  *)
(* (osdep_linux_mem.c) or over ryzen_smu's smn attribute                   *)
(* (osdep_linux_smu_kernel_module.c).  The selected register is one for    *)
(* all processes on a bus, which is why transactions take a lock           *)
(* (nb_smu_ops.c:79-91).  A process that cannot take it runs without.      *)
(***************************************************************************)
EXTENDS Naturals, Sequences

CONSTANTS
    Procs, NoProc,
    LockProcs,      \* those that can use the lock file
    PciProcs,       \* those that go over PCI; the others go over ryzen_smu
    Regs, Vals,
    AllOnes         \* what pci_read_long() returns when it fails

ASSUME ProcsAssumption == NoProc \notin Procs /\ LockProcs \subseteq Procs
ASSUME ValsAssumption == {0, AllOnes} \subseteq Vals

Bus(p) == IF p \in PciProcs THEN "pci" ELSE "smn"

\* A process that runs without the lock has its bus to itself.
ASSUME UnlockedAssumption ==
    \A p \in Procs \ LockProcs : \A q \in Procs \ {p} : Bus(p) # Bus(q)

Calls == {"read", "write"} \X Regs \X Vals

VARIABLES
    flock,          \* the holder of the lock file
    pc, call,       \* where each process is, and its access: <<op, register, value>>
    got, failed,    \* the value it has read; has the access set smn_io_error?
    selected,       \* the register that each bus has selected
    regs            \* the registers

access == <<call, got, failed>>
vars == <<flock, pc, access, selected, regs>>

Init ==
    /\ flock = NoProc
    /\ pc = [p \in Procs |-> "idle"]
    /\ call = [p \in Procs |-> <<>>]
    /\ got = [p \in Procs |-> 0]
    /\ failed = [p \in Procs |-> FALSE]
    /\ selected \in [{"pci", "smn"} -> Regs]
    /\ regs \in [Regs -> Vals]

-----------------------------------------------------------------------------
Goto(p, from, to) == pc[p] = from /\ pc' = [pc EXCEPT ![p] = to]
Op(p) == call[p][1]
Reg(p) == call[p][2]
Val(p) == call[p][3]

SetError(p) == failed' = [failed EXCEPT ![p] = TRUE]
Select(p) == selected' = [selected EXCEPT ![Bus(p)] = Reg(p)]

\* Mutant: the lock is a shared one (LOCK_SH).
Lock_Shared(p) ==
    /\ Goto(p, "idle", "inside")
    /\ flock' = IF p \in LockProcs THEN p ELSE flock
    /\ UNCHANGED <<access, selected, regs>>

\* smu_lock() and smu_unlock() around a transaction.
Lock(p) ==
    /\ Goto(p, "idle", "inside")
    /\ IF p \in LockProcs THEN flock = NoProc /\ flock' = p ELSE UNCHANGED flock
    /\ UNCHANGED <<access, selected, regs>>

Unlock(p) ==
    /\ Goto(p, "inside", "idle")
    /\ flock' = IF flock = p THEN NoProc ELSE flock
    /\ UNCHANGED <<access, selected, regs>>

\* smn_reg_read() or smn_reg_write()
Call(p) ==
    /\ Goto(p, "inside", "select")
    /\ \E c \in Calls : call' = [call EXCEPT ![p] = c]
    /\ UNCHANGED <<flock, got, failed, selected, regs>>

\* The address is written.  ryzen_smu takes address and data of a write at once.
SelectRegister(p) ==
    /\ Goto(p, "select", "data")
    /\ p \in PciProcs \/ Op(p) = "read"
    /\ Select(p)
    /\ UNCHANGED <<flock, access, regs>>

\* Mutant: the data is written although the address was not (& for ||).
SelectFails_GoesOn(p) ==
    /\ Goto(p, "select", IF p \in PciProcs THEN "data" ELSE "done")
    /\ p \in PciProcs \/ Op(p) = "read"
    /\ Select(p) \/ UNCHANGED selected
    /\ SetError(p)
    /\ UNCHANGED <<flock, call, got, regs>>

\* Only a read over PCI goes on after a failure, with the register that is selected.
SelectFails(p) ==
    /\ pc[p] = "select"
    /\ p \in PciProcs \/ Op(p) = "read"
    /\ Goto(p, "select", IF p \in PciProcs /\ Op(p) = "read" THEN "data" ELSE "done")
    /\ Select(p) \/ UNCHANGED selected
    /\ SetError(p)
    /\ UNCHANGED <<flock, call, got, regs>>

ReadData(p) ==
    /\ Goto(p, "data", "done") /\ Op(p) = "read"
    /\ got' = [got EXCEPT ![p] = regs[selected[Bus(p)]]]
    /\ UNCHANGED <<flock, call, failed, selected, regs>>

\* The data cannot be read.  Over ryzen_smu the result is 0 and the flag is set; over
\* PCI what pci_read_long() returns is passed on, all ones, and no flag is set for it.
ReadDataFails(p) ==
    /\ Goto(p, "data", "done") /\ Op(p) = "read"
    /\ IF p \in PciProcs
         THEN got' = [got EXCEPT ![p] = AllOnes] /\ UNCHANGED failed
         ELSE SetError(p) /\ UNCHANGED got
    /\ UNCHANGED <<flock, call, selected, regs>>

WriteData(p) ==
    /\ Goto(p, "data", "done") /\ Op(p) = "write"
    /\ regs' = [regs EXCEPT ![selected[Bus(p)]] = Val(p)]
    /\ failed' \in {failed, [failed EXCEPT ![p] = TRUE]}
    /\ UNCHANGED <<flock, call, got, selected>>

WriteDataFails(p) ==
    /\ Goto(p, "data", "done") /\ Op(p) = "write"
    /\ SetError(p)
    /\ UNCHANGED <<flock, call, got, selected, regs>>

\* A write over ryzen_smu, which may select the register on its way.
DriverWrites(p) ==
    /\ p \notin PciProcs
    /\ Goto(p, "select", "done") /\ Op(p) = "write"
    /\ regs' = [regs EXCEPT ![Reg(p)] = Val(p)]
    /\ Select(p) \/ UNCHANGED selected
    /\ failed' \in {failed, [failed EXCEPT ![p] = TRUE]}
    /\ UNCHANGED <<flock, call, got>>

DriverWriteFails(p) ==
    /\ p \notin PciProcs
    /\ Goto(p, "select", "done") /\ Op(p) = "write"
    /\ SetError(p)
    /\ UNCHANGED <<flock, call, got, selected, regs>>

\* The access is forgotten when it returns and when its process is killed.
Forget(p) ==
    /\ call' = [call EXCEPT ![p] = <<>>]
    /\ got' = [got EXCEPT ![p] = 0]
    /\ failed' = [failed EXCEPT ![p] = FALSE]

Return(p) ==
    /\ Goto(p, "done", "inside")
    /\ Forget(p)
    /\ UNCHANGED <<flock, selected, regs>>

\* The kernel releases the lock of a killed process; the register stays selected.
Crash(p) ==
    /\ pc[p] # "idle"
    /\ pc' = [pc EXCEPT ![p] = "idle"]
    /\ flock' = IF flock = p THEN NoProc ELSE flock
    /\ Forget(p)
    /\ UNCHANGED <<selected, regs>>

Firmware ==
    /\ \E r \in Regs, v \in Vals : regs' = [regs EXCEPT ![r] = v]
    /\ UNCHANGED <<flock, pc, access, selected>>

Next ==
    \/ \E p \in Procs :
         \/ Lock(p) \/ Unlock(p) \/ Call(p)
         \/ SelectRegister(p) \/ SelectFails(p)
         \/ ReadData(p) \/ ReadDataFails(p) \/ WriteData(p) \/ WriteDataFails(p)
         \/ DriverWrites(p) \/ DriverWriteFails(p)
         \/ Return(p) \/ Crash(p)
    \/ Firmware

Spec == Init /\ [][Next]_vars

-----------------------------------------------------------------------------
\* The type of every variable; and a process is in an access exactly from its call
\* to its return, and only a read over PCI goes on after a failure.
TypeOK ==
    /\ flock \in LockProcs \cup {NoProc}
    /\ pc \in [Procs -> {"idle", "inside", "select", "data", "done"}]
    /\ call \in [Procs -> Calls \cup {<<>>}]
    /\ got \in [Procs -> Vals] /\ failed \in [Procs -> BOOLEAN]
    /\ selected \in [{"pci", "smn"} -> Regs]
    /\ regs \in [Regs -> Vals]
    /\ \A p \in Procs :
         /\ call[p] = <<>> <=> pc[p] \in {"idle", "inside"}
         /\ failed[p] => pc[p] \in {"data", "done"}
         /\ pc[p] = "data" => IF failed[p] THEN p \in PciProcs /\ Op(p) = "read"
                                       ELSE p \in PciProcs \/ Op(p) = "read"

\* When the data is transferred, the register that is selected is the one of this
\* access, not that of another process that selected between: "register reads return
\* values for the other process's address" does not happen (nb_smu_ops.c:82-90).
SelectedIsOwn ==
    \A p \in Procs :
        (pc[p] = "data" /\ ~failed[p]) => selected[Bus(p)] = Reg(p)

Registers == INSTANCE SmnRegisters WITH
    Blind <- PciProcs,
    result <- [p \in Procs |-> IF pc[p] = "done" THEN <<got[p], failed[p]>> ELSE <<>>]

\* The two steps of an access are one, on the register that it names, or it fails; and
\* it says so, but for a read over PCI whose data is all ones instead: what SmuMailbox
\* takes a register access to be (osdep_linux_mem.c:154-164,
\* osdep_linux_smu_kernel_module.c:171-214).
ImplementsRegisters == Registers!Spec

=============================================================================

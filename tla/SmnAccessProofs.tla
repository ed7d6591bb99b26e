--------------------------- MODULE SmnAccessProofs ---------------------------
(***************************************************************************)
(* For any number of processes, registers and values: an access finds its  *)
(* own register selected, and so select and data together implement the    *)
(* atomic registers that SmuMailbox builds on, with the reads that fail and*)
(* do not say so.                                                          *)
(***************************************************************************)
EXTENDS SmnAccess, TLAPS

\* A process that can lock is inside exactly while it holds the lock.
Holder == \A p \in LockProcs : pc[p] # "idle" <=> flock = p

Inv == TypeOK /\ Holder /\ SelectedIsOwn

-----------------------------------------------------------------------------
\* Two processes that are inside at the same time are on different buses.
LEMMA Apart ==
    ASSUME Holder, NEW p \in Procs, NEW q \in Procs,
           p # q, pc[p] # "idle", pc[q] # "idle"
    PROVE  Bus(p) # Bus(q)
<1>1. CASE p \in LockProcs /\ q \in LockProcs
    BY <1>1 DEF Holder
<1>2. CASE p \in Procs \ LockProcs
    BY <1>2, UnlockedAssumption
<1>3. CASE q \in Procs \ LockProcs
    BY <1>3, UnlockedAssumption
<1> QED
    BY <1>1, <1>2, <1>3

\* The initial states satisfy the invariant.
LEMMA InitInv == Init => Inv
<1> SUFFICES ASSUME Init PROVE Inv
    OBVIOUS
<1>1. TypeOK
    BY ValsAssumption DEF Init, TypeOK
<1>2. Holder
    BY ProcsAssumption DEF Init, Holder
<1>3. SelectedIsOwn
    BY DEF Init, SelectedIsOwn
<1> QED
    BY <1>1, <1>2, <1>3 DEF Inv

\* What is in an access.
LEMMA CallParts ==
    ASSUME NEW c \in Calls
    PROVE  c # <<>> /\ c[1] \in {"read", "write"} /\ c[2] \in Regs /\ c[3] \in Vals
    BY DEF Calls

\* Every step of a process keeps the types.
LEMMA TypeStep == Inv /\ [Next]_vars => TypeOK'
<1> SUFFICES ASSUME Inv, [Next]_vars PROVE TypeOK'
    OBVIOUS
<1> USE DEF Inv, TypeOK
<1>call. \A p \in Procs : pc[p] \in {"select", "data", "done"} =>
             Reg(p) \in Regs /\ Val(p) \in Vals
    BY CallParts DEF Reg, Val
<1>1. CASE UNCHANGED vars
    BY <1>1 DEF vars, access, Op
<1>2. CASE Firmware
    BY <1>2 DEF Firmware, access, Op
<1>3. ASSUME NEW p \in Procs, Lock(p) PROVE TypeOK'
    BY <1>3 DEF Lock, Goto, access, Op
<1>4. ASSUME NEW p \in Procs, Unlock(p) PROVE TypeOK'
    BY <1>4 DEF Unlock, Goto, access, Op
<1>5. ASSUME NEW p \in Procs, Call(p) PROVE TypeOK'
    <2>1. PICK c \in Calls : call' = [call EXCEPT ![p] = c]
        BY <1>5 DEF Call
    <2>2. c # <<>>
        BY CallParts
    <2> QED
        BY <1>5, <2>1, <2>2 DEF Call, Goto, Op
<1>6. ASSUME NEW p \in Procs, SelectRegister(p) PROVE TypeOK'
    BY <1>6, <1>call DEF SelectRegister, Goto, Select, Bus, Op, access
<1>7. ASSUME NEW p \in Procs, SelectFails(p) PROVE TypeOK'
    BY <1>7, <1>call DEF SelectFails, Goto, Select, SetError, Bus, Op
<1>8. ASSUME NEW p \in Procs, ReadData(p) PROVE TypeOK'
    BY <1>8, <1>call DEF ReadData, Goto, Bus, Op
<1>9. ASSUME NEW p \in Procs, ReadDataFails(p) PROVE TypeOK'
    BY <1>9, <1>call, ValsAssumption DEF ReadDataFails, Goto, SetError, Op
<1>10. ASSUME NEW p \in Procs, WriteData(p) PROVE TypeOK'
    BY <1>10, <1>call DEF WriteData, Goto, Bus, Op
<1>11. ASSUME NEW p \in Procs, WriteDataFails(p) PROVE TypeOK'
    BY <1>11, <1>call DEF WriteDataFails, Goto, SetError, Op
<1>12. ASSUME NEW p \in Procs, DriverWrites(p) PROVE TypeOK'
    <2>1. selected' \in [{"pci", "smn"} -> Regs] /\ regs' \in [Regs -> Vals]
        BY <1>12, <1>call DEF DriverWrites, Goto, Select, Bus
    <2>2. failed' \in [Procs -> BOOLEAN]
          /\ \A q \in Procs \ {p} : failed'[q] = failed[q]
        BY <1>12 DEF DriverWrites
    <2> QED
        BY <1>12, <2>1, <2>2 DEF DriverWrites, Goto, Op
<1>13. ASSUME NEW p \in Procs, DriverWriteFails(p) PROVE TypeOK'
    BY <1>13, <1>call DEF DriverWriteFails, Goto, SetError, Op
<1>14. ASSUME NEW p \in Procs, Return(p) PROVE TypeOK'
    BY <1>14, ValsAssumption DEF Return, Goto, Forget, Op
<1>15. ASSUME NEW p \in Procs, Crash(p) PROVE TypeOK'
    BY <1>15, ValsAssumption DEF Crash, Forget, Op
<1> QED
    BY <1>1, <1>2, <1>3, <1>4, <1>5, <1>6, <1>7, <1>8, <1>9, <1>10, <1>11, <1>12,
       <1>13, <1>14, <1>15 DEF Next

\* Only Lock, Unlock and Crash enter, leave, take or give back.
LEMMA HolderStep == Inv /\ [Next]_vars => Holder'
<1> SUFFICES ASSUME Inv, [Next]_vars PROVE Holder'
    OBVIOUS
<1> USE ProcsAssumption DEF Inv, TypeOK, Holder
<1>1. CASE UNCHANGED <<flock, pc>>
    BY <1>1
<1>2. ASSUME NEW p \in Procs, Lock(p) PROVE Holder'
    BY <1>2 DEF Lock, Goto
<1>3. ASSUME NEW p \in Procs, Unlock(p) PROVE Holder'
    BY <1>3 DEF Unlock, Goto
<1>4. ASSUME NEW p \in Procs, Crash(p) PROVE Holder'
    BY <1>4 DEF Crash
<1>5. ASSUME NEW p \in Procs, UNCHANGED flock, pc[p] # "idle",
             NEW to \in {"inside", "select", "data", "done"},
             pc' = [pc EXCEPT ![p] = to]
      PROVE  Holder'
    BY <1>5
<1>6. ASSUME NEW p \in Procs, Call(p) \/ Return(p) PROVE Holder'
    BY <1>5, <1>6 DEF Call, Return, Goto
<1>7. ASSUME NEW p \in Procs, SelectRegister(p) \/ SelectFails(p) PROVE Holder'
    BY <1>5, <1>7 DEF SelectRegister, SelectFails, Goto
<1>8. ASSUME NEW p \in Procs, ReadData(p) \/ ReadDataFails(p) PROVE Holder'
    BY <1>5, <1>8 DEF ReadData, ReadDataFails, Goto
<1>9. ASSUME NEW p \in Procs, WriteData(p) \/ WriteDataFails(p) PROVE Holder'
    BY <1>5, <1>9 DEF WriteData, WriteDataFails, Goto
<1>10. ASSUME NEW p \in Procs, DriverWrites(p) \/ DriverWriteFails(p) PROVE Holder'
    BY <1>5, <1>10 DEF DriverWrites, DriverWriteFails, Goto
<1> QED
    BY <1>1, <1>2, <1>3, <1>4, <1>6, <1>7, <1>8, <1>9, <1>10
    DEF Next, Firmware, vars

\* A selection is on the bus of its process, where nobody else is inside.
LEMMA SelectedStep == Inv /\ [Next]_vars => SelectedIsOwn'
<1> SUFFICES ASSUME Inv, [Next]_vars PROVE SelectedIsOwn'
    OBVIOUS
<1> USE DEF Inv
\* A step of p that selects nothing, or p's own register; the others are as before.
<1>1. ASSUME NEW p \in Procs, pc[p] # "idle",
             Select(p) \/ UNCHANGED selected,
             \A q \in Procs \ {p} :
                 pc'[q] = pc[q] /\ call'[q] = call[q] /\ failed'[q] = failed[q],
             (pc'[p] = "data" /\ ~failed'[p]) => Select(p) /\ call'[p] = call[p]
      PROVE  SelectedIsOwn'
    <2> SUFFICES ASSUME NEW q \in Procs, pc'[q] = "data", ~failed'[q]
                 PROVE  selected'[Bus(q)] = Reg(q)'
        BY DEF SelectedIsOwn, Bus
    <2>1. CASE q = p
        BY <1>1, <2>1 DEF Select, Reg, TypeOK, Bus
    <2>2. CASE q # p
        <3>1. Bus(q) # Bus(p)
            BY <1>1, <2>2, Apart
        <3>2. selected[Bus(q)] = Reg(q)
            BY <1>1, <2>2 DEF SelectedIsOwn
        <3> QED
            BY <1>1, <2>2, <3>1, <3>2 DEF Select, Reg, TypeOK, Bus
    <2> QED
        BY <2>1, <2>2
<1>2. CASE UNCHANGED vars \/ Firmware
    BY <1>2 DEF Firmware, vars, access, SelectedIsOwn, Bus, Reg
<1>3. ASSUME NEW p \in Procs, Lock(p) \/ Unlock(p) PROVE SelectedIsOwn'
    BY <1>3 DEF Lock, Unlock, Goto, access, SelectedIsOwn, Bus, Reg, TypeOK
<1>4. ASSUME NEW p \in Procs, Call(p) PROVE SelectedIsOwn'
    BY <1>1, <1>4 DEF Call, Goto, TypeOK
<1>5. ASSUME NEW p \in Procs, SelectRegister(p) PROVE SelectedIsOwn'
    BY <1>1, <1>5 DEF SelectRegister, Goto, access, TypeOK
<1>6. ASSUME NEW p \in Procs, SelectFails(p) PROVE SelectedIsOwn'
    BY <1>1, <1>6 DEF SelectFails, Goto, SetError, TypeOK
<1>7. ASSUME NEW p \in Procs, ReadData(p) \/ ReadDataFails(p) PROVE SelectedIsOwn'
    BY <1>1, <1>7 DEF ReadData, ReadDataFails, SetError, Goto, TypeOK
<1>8. ASSUME NEW p \in Procs, WriteData(p) \/ WriteDataFails(p) PROVE SelectedIsOwn'
    BY <1>1, <1>8 DEF WriteData, WriteDataFails, SetError, Goto, TypeOK
<1>9. ASSUME NEW p \in Procs, DriverWrites(p) \/ DriverWriteFails(p)
      PROVE  SelectedIsOwn'
    BY <1>1, <1>9 DEF DriverWrites, DriverWriteFails, SetError, Goto, TypeOK
<1>10. ASSUME NEW p \in Procs, Return(p) \/ Crash(p) PROVE SelectedIsOwn'
    BY <1>1, <1>10 DEF Return, Crash, Forget, Goto, TypeOK
<1> QED
    BY <1>2, <1>3, <1>4, <1>5, <1>6, <1>7, <1>8, <1>9, <1>10 DEF Next

LEMMA InvStep == Inv /\ [Next]_vars => Inv'
    BY TypeStep, HolderStep, SelectedStep DEF Inv

LEMMA InvCorrect == Spec => []Inv
<1>1. Init => Inv
    BY InitInv
<1>2. Inv /\ [Next]_vars => Inv'
    BY InvStep
<1> QED
    BY <1>1, <1>2, PTL DEF Spec

-----------------------------------------------------------------------------
\* An access is in flight exactly from its call to its return, and only a read over
\* PCI goes on after the address could not be written (osdep_linux_mem.c:154-164).
THEOREM TypeCorrect == Spec => []TypeOK
<1>1. Inv => TypeOK
    BY DEF Inv
<1> QED
    BY <1>1, InvCorrect, PTL

\* With the lock, or a bus of its own, no process transfers the data of another's
\* register (the comment at nb_smu_ops.c:79-91).
THEOREM SelectedCorrect == Spec => []SelectedIsOwn
<1>1. Inv => SelectedIsOwn
    BY DEF Inv
<1> QED
    BY <1>1, InvCorrect, PTL

-----------------------------------------------------------------------------
\* What each process has been told, as SmnRegisters has it.
Told == [p \in Procs |-> IF pc[p] = "done" THEN <<got[p], failed[p]>> ELSE <<>>]

\* A step that does not touch what a process has been told.
LEMMA Silent ==
    ASSUME \A p \in Procs :
               \/ pc[p] # "done" /\ pc'[p] # "done"
               \/ pc[p] = pc'[p] /\ got[p] = got'[p] /\ failed[p] = failed'[p]
    PROVE  Told' = Told
    BY DEF Told

\* A step that ends the access of one process.
LEMMA Answered ==
    ASSUME NEW p \in Procs, TypeOK, Goto(p, "select", "done") \/ Goto(p, "data", "done"),
           \A q \in Procs \ {p} : got'[q] = got[q] /\ failed'[q] = failed[q]
    PROVE  /\ Told' = [Told EXCEPT ![p] = <<got'[p], failed'[p]>>]
           /\ Told[p] = <<>>
           /\ call[p] # <<>>
    BY DEF Told, Goto, TypeOK

\* A step with which one process is out of its access.
LEMMA Left ==
    ASSUME NEW p \in Procs, TypeOK, NEW to \in {"idle", "inside"},
           pc' = [pc EXCEPT ![p] = to],
           \A q \in Procs \ {p} : got'[q] = got[q] /\ failed'[q] = failed[q]
    PROVE  Told' = [Told EXCEPT ![p] = <<>>]
    BY DEF Told, TypeOK

\* The result of a write that has its effect, whether or not the process is told so.
LEMMA WriteEffect ==
    ASSUME NEW p \in Procs, Registers!Pending(p), Registers!Written(p), UNCHANGED call,
           NEW v \in Vals, NEW f \in BOOLEAN, Told' = [Told EXCEPT ![p] = <<v, f>>]
    PROVE  Registers!Write(p) \/ Registers!Fail(p)
<1>1. CASE f
    BY <1>1 DEF Told, Registers!Fail
<1>2. CASE ~f
    BY <1>2 DEF Told, Registers!Write
<1> QED
    BY <1>1, <1>2

LEMMA RegistersInit == Init => Registers!Init
    BY DEF Init, Registers!Init

\* Each step is a step of the registers or none: data transferred is the access itself,
\* on the register that was selected, which is the one that the call names.
LEMMA RegistersStep == Inv /\ [Next]_vars => [Registers!Next]_(Registers!vars)
<1> SUFFICES ASSUME Inv, [Next]_vars, ~UNCHANGED Registers!vars
             PROVE  Registers!Next
    OBVIOUS
<1> USE DEF Inv
<1>1. CASE UNCHANGED vars
    BY <1>1, Silent DEF vars, access, Told, Registers!vars
<1>2. CASE Firmware
    BY <1>2, Silent DEF Firmware, access, Told, Registers!Firmware, Registers!Next
<1>3. ASSUME NEW p \in Procs, Lock(p) \/ Unlock(p) PROVE FALSE
    BY <1>3, Silent DEF Lock, Unlock, Goto, access, Told, TypeOK, Registers!vars
<1>4. ASSUME NEW p \in Procs, SelectRegister(p) PROVE FALSE
    BY <1>4, Silent DEF SelectRegister, Goto, access, Told, TypeOK, Registers!vars
<1>5. ASSUME NEW p \in Procs, Call(p) PROVE Registers!Invoke(p)
    <2>1. call[p] = <<>>
        BY <1>5 DEF Call, Goto, TypeOK
    <2>2. Told' = Told
        BY <1>5, Silent DEF Call, Goto, TypeOK
    <2> QED
        BY <1>5, <2>1, <2>2 DEF Call, Calls, Told, Registers!Invoke, Registers!Calls
<1>6. ASSUME NEW p \in Procs, SelectFails(p), pc'[p] # "data"
      PROVE  Registers!Fail(p)
    <2>1. Goto(p, "select", "done") /\ got'[p] \in Vals /\ failed'[p] = TRUE
        BY <1>6 DEF SelectFails, SetError, Goto, TypeOK
    <2>2. /\ Told' = [Told EXCEPT ![p] = <<got'[p], TRUE>>]
          /\ Told[p] = <<>> /\ call[p] # <<>>
        BY <1>6, <2>1, Answered DEF SelectFails, SetError, TypeOK
    <2> QED
        BY <1>6, <2>1, <2>2 DEF SelectFails, Told, Registers!Fail, Registers!Pending
<1>7. ASSUME NEW p \in Procs, SelectFails(p), pc'[p] = "data" PROVE FALSE
    BY <1>7, Silent DEF SelectFails, SetError, Goto, Told, TypeOK, Registers!vars
<1>8. ASSUME NEW p \in Procs, ReadData(p)
      PROVE  Registers!Read(p) \/ Registers!Fail(p)
    <2>1. /\ Told' = [Told EXCEPT ![p] = <<got'[p], failed'[p]>>]
          /\ Told[p] = <<>> /\ call[p] # <<>>
        BY <1>8, Answered DEF ReadData, TypeOK
    <2>2. got'[p] = regs[selected[Bus(p)]] /\ got'[p] \in Vals
        BY <1>8 DEF ReadData, Bus, TypeOK
    <2>3. CASE failed[p]
        BY <1>8, <2>1, <2>2, <2>3
        DEF ReadData, TypeOK, Told, Registers!Fail, Registers!Pending
    <2>4. CASE ~failed[p]
        <3>1. got'[p] = regs[call[p][2]]
            BY <1>8, <2>2, <2>4 DEF ReadData, Goto, SelectedIsOwn, Reg
        <3>2. failed'[p] = FALSE
            BY <1>8, <2>4 DEF ReadData, TypeOK
        <3> QED
            BY <1>8, <2>1, <3>1, <3>2
            DEF ReadData, Op, Told, Registers!Read, Registers!Pending
    <2> QED
        BY <2>3, <2>4
<1>9. ASSUME NEW p \in Procs,
             \/ ReadDataFails(p) /\ p \notin PciProcs
             \/ WriteDataFails(p) \/ DriverWriteFails(p)
      PROVE  Registers!Fail(p)
    <2>1. /\ Goto(p, "select", "done") \/ Goto(p, "data", "done")
          /\ got' = got /\ call' = call /\ regs' = regs /\ SetError(p)
        BY <1>9 DEF ReadDataFails, WriteDataFails, DriverWriteFails
    <2>2. got'[p] \in Vals /\ failed'[p] = TRUE
        BY <2>1 DEF SetError, TypeOK
    <2>3. /\ Told' = [Told EXCEPT ![p] = <<got'[p], TRUE>>]
          /\ Told[p] = <<>> /\ call[p] # <<>>
        BY <2>1, <2>2, Answered DEF SetError, TypeOK
    <2> QED
        BY <2>1, <2>2, <2>3 DEF Told, Registers!Fail, Registers!Pending
<1>10. ASSUME NEW p \in Procs, WriteData(p) \/ DriverWrites(p)
       PROVE  Registers!Write(p) \/ Registers!Fail(p)
    <2>1. /\ Goto(p, "select", "done") \/ Goto(p, "data", "done")
          /\ got' = got /\ call' = call /\ Op(p) = "write"
          /\ failed' \in {failed, [failed EXCEPT ![p] = TRUE]}
        BY <1>10 DEF WriteData, DriverWrites
    <2>2. got'[p] \in Vals /\ failed'[p] \in BOOLEAN
        BY <2>1 DEF TypeOK
    <2>3. /\ Told' = [Told EXCEPT ![p] = <<got'[p], failed'[p]>>]
          /\ Told[p] = <<>> /\ call[p] # <<>>
        <3>1. \A q \in Procs \ {p} : got'[q] = got[q] /\ failed'[q] = failed[q]
            BY <2>1 DEF TypeOK
        <3> QED
            BY <2>1, <3>1, Answered
    <2>4. regs' = [regs EXCEPT ![Reg(p)] = Val(p)]
        <3>1. CASE WriteData(p)
            <4>1. pc[p] = "data" /\ ~failed[p]
                BY <3>1 DEF WriteData, Goto, TypeOK, Op
            <4> QED
                BY <3>1, <4>1 DEF WriteData, SelectedIsOwn
        <3>2. CASE DriverWrites(p)
            BY <3>2 DEF DriverWrites
        <3> QED
            BY <1>10, <3>1, <3>2
    <2>5. Registers!Pending(p) /\ Registers!Written(p)
        BY <2>1, <2>3, <2>4
        DEF Op, Reg, Val, Told, Registers!Pending, Registers!Written
    <2> QED
        BY <2>1, <2>2, <2>3, <2>5, WriteEffect
<1>11. ASSUME NEW p \in Procs, Return(p) PROVE Registers!Leave(p)
    <2>1. call[p] # <<>>
        BY <1>11 DEF Return, Goto, TypeOK
    <2>2. Told' = [Told EXCEPT ![p] = <<>>]
        BY <1>11, Left DEF Return, Goto, Forget, TypeOK
    <2> QED
        BY <1>11, <2>1, <2>2 DEF Return, Forget, Told, Registers!Leave
<1>12. ASSUME NEW p \in Procs, Crash(p), call[p] # <<>> PROVE Registers!Leave(p)
    <2>1. Told' = [Told EXCEPT ![p] = <<>>]
        BY <1>12, Left DEF Crash, Forget, TypeOK
    <2> QED
        BY <1>12, <2>1 DEF Crash, Forget, Told, Registers!Leave
<1>13. ASSUME NEW p \in Procs, Crash(p), call[p] = <<>> PROVE FALSE
    <2>1. Told' = Told
        BY <1>13, Silent DEF Crash, Forget, TypeOK
    <2>2. call' = call
        BY <1>13 DEF Crash, Forget, TypeOK
    <2> QED
        BY <1>13, <2>1, <2>2 DEF Crash, Told, Registers!vars
<1>14. ASSUME NEW p \in Procs, p \in PciProcs, ReadDataFails(p)
       PROVE  Registers!Misread(p) \/ Registers!Fail(p)
    <2>1. /\ Told' = [Told EXCEPT ![p] = <<got'[p], failed'[p]>>]
          /\ Told[p] = <<>> /\ call[p] # <<>>
        BY <1>14, Answered DEF ReadDataFails, TypeOK
    <2>2. /\ got'[p] = AllOnes /\ AllOnes \in Vals
          /\ failed'[p] = failed[p] /\ failed[p] \in BOOLEAN
        BY <1>14, ValsAssumption DEF ReadDataFails, TypeOK
    <2>3. Registers!Pending(p) /\ call[p][1] = "read" /\ UNCHANGED <<regs, call>>
        BY <1>14, <2>1 DEF ReadDataFails, Op, Told, Registers!Pending
    <2>4. CASE failed[p]
        BY <2>1, <2>2, <2>3, <2>4 DEF Told, Registers!Fail
    <2>5. CASE ~failed[p]
        BY <1>14, <2>1, <2>2, <2>3, <2>5 DEF Told, Registers!Misread
    <2> QED
        BY <2>2, <2>4, <2>5
<1> QED
    BY <1>1, <1>2, <1>3, <1>4, <1>5, <1>6, <1>7, <1>8, <1>9, <1>10, <1>11, <1>12,
       <1>13, <1>14 DEF Next, Registers!Next

\* Select and data are one access to the register that the call names, or a failed one.
\* A failed one says so, except that a read over PCI whose data cannot be read returns
\* all ones and sets no flag: smn_reg_read() and smn_reg_write() as SmuMailbox has them
\* (osdep_linux_mem.c:154-164, osdep_linux_smu_kernel_module.c:171-214).
THEOREM RegistersImplemented == Spec => ImplementsRegisters
<1>1. Init => Registers!Init
    BY RegistersInit
<1>2. Inv /\ [Next]_vars => [Registers!Next]_(Registers!vars)
    BY RegistersStep
<1> QED
    BY <1>1, <1>2, InvCorrect, PTL DEF Spec, ImplementsRegisters, Registers!Spec

=============================================================================

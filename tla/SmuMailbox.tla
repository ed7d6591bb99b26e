------------------------------ MODULE SmuMailbox ------------------------------
(***************************************************************************)
(* The SMU mailbox of lib/nb_smu_ops.c: processes that run                 *)
(* smu_service_req() and smu_service_test() against one mailbox, the       *)
(* cross-process flock, the two transports of the OS layer (ryzen_smu's    *)
(* smu_raw_cmd and single SMN register accesses) and the SMU firmware.     *)
(*                                                                         *)
(* A call is a transaction, numbered in the order of the calls.  The data  *)
(* is abstracted to its provenance: Arg(t) is whatever transaction t put   *)
(* in an argument register, Res(t) what the SMU returned for t.  Every SMN *)
(* register access is a step of its own, so that a second process, a crash *)
(* or the firmware can come between any two of them.  A failed access sets *)
(* the process-wide smn_io_error, but for a failed data read over PCI; a   *)
(* failed write may or may not have had its effect.                        *)
(***************************************************************************)
EXTENDS Naturals

CONSTANTS
    Procs,          \* the processes that use libryzenadj
    NoProc,         \* nobody holds the flock
    LockProcs,      \* those for which SMU_LOCK_PATH can be opened and flocked
    RawProcs,       \* those whose handle has a raw_cmd_fd
    PciProcs,       \* those that access the SMN over PCI; the others over ryzen_smu
    TestTxns,       \* bound: the calls that may be the test of get_smu()
    MaxTxn,         \* bound: the number of calls of a behaviour
    LastArg,        \* the last argument register (5 in the code)
    WriteMayFail,   \* can an SMN or raw_cmd write fail?
    ReadMayFail     \* can an SMN or raw_cmd read fail?

ASSUME ProcsAssumption ==
    /\ NoProc \notin Procs
    /\ LockProcs \subseteq Procs
    /\ RawProcs \subseteq Procs
    /\ PciProcs \subseteq Procs \ RawProcs
ASSUME BoundsAssumption == MaxTxn \in Nat \ {0} /\ LastArg \in Nat
ASSUME ModeAssumption ==
    /\ TestTxns \subseteq Nat
    /\ WriteMayFail \in BOOLEAN
    /\ ReadMayFail \in BOOLEAN

Kinds == {"req", "test"}
Txns == 1 .. MaxTxn
Args == 0 .. LastArg

\* What the SMU answers: "Failed" is REP_MSG_Failed and every other code that is
\* neither OK nor "Busy", REP_MSG_CmdRejectedBusy.  The library says "Failed" and
\* "Busy" of its own as well, with the same values.  REP_MSG_Timeout is the 0 of a
\* response register not written yet.
Answers == {"OK", "Failed", "Busy"}
Codes == Answers \cup {"Timeout"}

Vals == {"arg", "res"} \X (0 .. MaxTxn)
Arg(t) == <<"arg", t>>
Res(t) == <<"res", t>>
Junk == Res(0)      \* what the registers held before, or a failed read returns

NoRep == [code |-> "Timeout", txn |-> 0]
NoCmd == [msg |-> 0, args |-> [i \in Args |-> Junk]]
NoSlot == [owner |-> NoProc, code |-> "Failed", txn |-> 0]

VARIABLES
    \* the locals of the call that each process is in
    pc, kind, txn, i, args, response, clean,
    smn_io_error,   \* the static flag of osdep_linux.c, one per process
    flock,          \* the holder of the lock file
    \* the mailbox registers and the firmware behind them
    rep, arg, msg, exec, slot,
    runs,           \* history: how often the SMU started each transaction
    next            \* the next transaction number

locals == <<pc, kind, txn, i, args, response, clean>>
mailbox == <<rep, arg, msg, exec, slot, runs>>
vars == <<locals, smn_io_error, flock, mailbox, next>>

\* Nothing is left for the SMU to start or to answer.
Quiet == msg = 0 /\ exec.msg = 0

Init ==
    /\ pc = [p \in Procs |-> "idle"]
    /\ kind = [p \in Procs |-> "req"]
    /\ txn = [p \in Procs |-> 0]
    /\ i = [p \in Procs |-> 0]
    /\ args = [p \in Procs |-> [j \in Args |-> Junk]]
    /\ response = [p \in Procs |-> "Timeout"]
    /\ clean = [p \in Procs |-> FALSE]
    /\ smn_io_error = [p \in Procs |-> FALSE]
    /\ flock = NoProc
    /\ rep \in {[code |-> c, txn |-> 0] : c \in Answers \cup {"Timeout"}}
    /\ arg = [j \in Args |-> Junk]
    /\ msg = 0
    /\ exec = NoCmd
    /\ slot = NoSlot
    /\ runs = [t \in Txns |-> 0]
    /\ next = 1

-----------------------------------------------------------------------------
\* Steps shared by the two operations.

Goto(p, at, to) == pc[p] = at /\ pc' = [pc EXCEPT ![p] = to]

\* smu_unlock(): LOCK_UN releases the lock only of a process that holds it.
smu_unlock(p) == flock' = IF flock = p THEN NoProc ELSE flock

\* The call returns c to its caller, having released the lock.
ReturnCode(p, at, c) ==
    /\ Goto(p, at, "ret")
    /\ response' = [response EXCEPT ![p] = c]
    /\ smu_unlock(p)

smn_io_set_error(p) == smn_io_error' = [smn_io_error EXCEPT ![p] = TRUE]
smn_io_take_error(p) == smn_io_error' = [smn_io_error EXCEPT ![p] = FALSE]

\* smn_reg_write(): Done is the effect on the register, Lost its absence.
smn_reg_write(p, Done, Lost) ==
    \/ Done /\ UNCHANGED smn_io_error
    \/ WriteMayFail /\ (Done \/ Lost) /\ smn_io_set_error(p)

\* smn_reg_read(): a failed read sets the flag and returns something else, the 0 of
\* ryzen_smu or the PCI register that was selected before, which may be this one.  A
\* PCI data read that fails returns all ones and leaves the flag as it is.
smn_reg_read(p, Got, Other) ==
    \/ Got /\ UNCHANGED smn_io_error
    \/ ReadMayFail /\ Other /\ smn_io_set_error(p)
    \/ /\ ReadMayFail /\ p \in PciProcs
       /\ \/ Got /\ smn_io_set_error(p)
          \/ Other /\ UNCHANGED smn_io_error

-----------------------------------------------------------------------------
\* smu_service_req(smu, id, args) or smu_service_test(smu) is called.
Call(p, k) ==
    /\ next <= MaxTxn
    /\ k = "test" => next \in TestTxns
    /\ Goto(p, "idle", "lock")
    /\ kind' = [kind EXCEPT ![p] = k]
    /\ txn' = [txn EXCEPT ![p] = next]
    /\ args' = [args EXCEPT ![p] = [j \in Args |-> Arg(next)]]
    /\ next' = next + 1
    /\ UNCHANGED <<i, response, clean, smn_io_error, flock, mailbox>>

\* The transaction begins; clean records whether the SMU owes nobody an answer.
Begin(p) ==
    /\ Goto(p, "lock", "raw")
    /\ clean' = [clean EXCEPT ![p] = Quiet]
    /\ UNCHANGED <<kind, txn, i, args, response, smn_io_error, mailbox, next>>

\* flock(LOCK_EX | LOCK_NB) succeeds.
LockAcquire(p) ==
    /\ p \in LockProcs
    /\ flock = NoProc
    /\ flock' = p
    /\ Begin(p)

\* The lock file cannot be opened, or flock is unsupported: run unlocked.
LockUnavailable(p) ==
    /\ p \notin LockProcs
    /\ Begin(p)
    /\ UNCHANGED flock

\* EWOULDBLOCK until the deadline.
LockTimeout(p) ==
    /\ p \in LockProcs
    /\ flock \notin {NoProc, p}
    /\ Goto(p, "lock", "ret")
    /\ response' = [response EXCEPT ![p] = "Busy"]
    /\ UNCHANGED <<kind, txn, i, args, clean, smn_io_error, flock, mailbox, next>>

-----------------------------------------------------------------------------
\* smu_raw_cmd(): the driver runs the transaction under its own mutex.

\* The SMU is free: it runs the command and answers c.
DriverAnswered(p, c) ==
    /\ exec.msg = 0
    /\ rep' = [code |-> c, txn |-> txn[p]]
    /\ arg' = [j \in Args |-> IF c = "OK" THEN Res(txn[p]) ELSE Arg(txn[p])]
    /\ msg' = 0
    /\ runs' = [runs EXCEPT ![txn[p]] = @ + 1]
    /\ slot' = [owner |-> p, code |-> c, txn |-> txn[p]]
    /\ UNCHANGED exec

\* The SMU is busy with an earlier command, whose answer the driver takes.
DriverAnsweredLate(p, c) ==
    /\ exec.msg # 0
    /\ rep' = [code |-> c, txn |-> exec.msg]
    /\ arg' = [j \in Args |-> IF c = "OK" THEN Res(exec.msg) ELSE Arg(txn[p])]
    /\ msg' = txn[p]
    /\ exec' = NoCmd
    /\ slot' = [owner |-> p, code |-> c, txn |-> exec.msg]
    /\ UNCHANGED runs

\* No answer within the driver's own bound: the command stays with the SMU.
DriverTimedOut(p) ==
    /\ rep' = NoRep
    /\ arg' = [j \in Args |-> Arg(txn[p])]
    /\ msg' = txn[p]
    /\ slot' = [owner |-> p, code |-> "Timeout", txn |-> 0]
    /\ UNCHANGED <<exec, runs>>

\* A PCI failure inside the driver, before the command was sent.
DriverFailed(p) ==
    /\ slot' = [owner |-> p, code |-> "Failed", txn |-> 0]
    /\ UNCHANGED <<rep, arg, msg, exec, runs>>

DriverRuns(p) ==
    \/ \E c \in Answers : DriverAnswered(p, c) \/ DriverAnsweredLate(p, c)
    \/ DriverTimedOut(p)
    \/ DriverFailed(p)

\* Mutant: the lock is released before the result slot has been read.
RawWrite_UnlocksEarly(p) ==
    /\ p \in RawProcs
    /\ Goto(p, "raw", "rawread")
    /\ DriverRuns(p)
    /\ smu_unlock(p)
    /\ UNCHANGED <<kind, txn, i, args, response, clean, smn_io_error, next>>

RawWrite(p) ==
    /\ p \in RawProcs
    /\ Goto(p, "raw", "rawread")
    /\ DriverRuns(p)
    /\ UNCHANGED <<kind, txn, i, args, response, clean, smn_io_error, flock, next>>

\* Mutant: any write error falls back to the registers.
RawWriteError_FallsBack(p) ==
    /\ p \in RawProcs
    /\ WriteMayFail
    /\ Goto(p, "raw", "clear")
    /\ DriverRuns(p) \/ UNCHANGED mailbox
    /\ UNCHANGED <<kind, txn, i, args, response, clean, smn_io_error, flock, next>>

\* A write error other than EINVAL: the command may or may not have executed,
\* and is never retried.
RawWriteError(p) ==
    /\ p \in RawProcs
    /\ WriteMayFail
    /\ ReturnCode(p, "raw", "Failed")
    /\ DriverRuns(p) \/ UNCHANGED mailbox
    /\ UNCHANGED <<kind, txn, i, args, clean, smn_io_error, next>>

\* No raw_cmd_fd, or EINVAL: go on with SMN register accesses.  Only
\* smu_service_req() drops an old I/O error first.
RawUnavailable(p) ==
    /\ Goto(p, "raw", "clear")
    /\ IF kind[p] = "req" THEN smn_io_take_error(p) ELSE UNCHANGED smn_io_error
    /\ UNCHANGED <<kind, txn, i, args, response, clean, flock, mailbox, next>>

\* The result slot is the driver's: EAGAIN when another process overwrote it.
RawRead(p) ==
    /\ \/ /\ slot.owner # p
          /\ ReturnCode(p, "rawread", "Busy")
          /\ UNCHANGED args
       \/ /\ ReadMayFail
          /\ ReturnCode(p, "rawread", "Failed")
          /\ UNCHANGED args
       \/ /\ slot.owner = p
          /\ ReturnCode(p, "rawread", slot.code)
          /\ args' = IF slot.code = "OK"
                       THEN [args EXCEPT ![p] = [j \in Args |-> Res(slot.txn)]]
                       ELSE args
    /\ UNCHANGED <<kind, txn, i, clean, smn_io_error, mailbox, next>>

-----------------------------------------------------------------------------
\* The SMN register path.

ClearRep(p) ==
    /\ Goto(p, "clear", "args")
    /\ i' = [i EXCEPT ![p] = 0]
    /\ smn_reg_write(p, rep' = NoRep, UNCHANGED rep)
    /\ UNCHANGED <<kind, txn, args, response, clean, flock, arg, msg, exec, slot,
                   runs, next>>

\* Mutant: the argument loop runs one register too far.
WriteArg_PastLast(p) ==
    /\ IF kind[p] = "req" /\ i[p] <= LastArg
         THEN Goto(p, "args", "args") /\ i' = [i EXCEPT ![p] = @ + 1]
         ELSE /\ Goto(p, "args", IF kind[p] = "req" THEN "check" ELSE "verify")
              /\ UNCHANGED i
    /\ smn_reg_write(p, arg' = [arg EXCEPT ![i[p]] = Arg(txn[p])], UNCHANGED arg)
    /\ UNCHANGED <<kind, txn, args, response, clean, flock, rep, msg, exec, slot,
                   runs, next>>

\* smu_service_req() writes every argument, smu_service_test() only the first.
WriteArg(p) ==
    /\ IF kind[p] = "req" /\ i[p] < LastArg
         THEN Goto(p, "args", "args") /\ i' = [i EXCEPT ![p] = @ + 1]
         ELSE /\ Goto(p, "args", IF kind[p] = "req" THEN "check" ELSE "verify")
              /\ UNCHANGED i
    /\ smn_reg_write(p, arg' = [arg EXCEPT ![i[p]] = Arg(txn[p])], UNCHANGED arg)
    /\ UNCHANGED <<kind, txn, args, response, clean, flock, rep, msg, exec, slot,
                   runs, next>>

\* Mutant: the error flag is not looked at before the doorbell.
CheckWrites_Ignored(p) ==
    /\ Goto(p, "check", "ring")
    /\ smn_io_take_error(p)
    /\ UNCHANGED <<kind, txn, i, args, response, flock, clean, mailbox, next>>

\* Mutant: the abort returns without smu_unlock().
CheckWrites_KeepsLock(p) ==
    /\ IF smn_io_error[p]
         THEN Goto(p, "check", "ret") /\ response' = [response EXCEPT ![p] = "Failed"]
         ELSE Goto(p, "check", "ring") /\ UNCHANGED response
    /\ smn_io_take_error(p)
    /\ UNCHANGED <<kind, txn, i, args, clean, flock, mailbox, next>>

\* smu_service_req(): a failed setup write aborts the request before the doorbell.
CheckWrites(p) ==
    /\ IF smn_io_error[p]
         THEN ReturnCode(p, "check", "Failed")
         ELSE Goto(p, "check", "ring") /\ UNCHANGED <<response, flock>>
    /\ smn_io_take_error(p)
    /\ UNCHANGED <<kind, txn, i, args, clean, mailbox, next>>

\* smu_service_test(): the only check is that argument 0 reads back.
VerifyArg(p) ==
    /\ smn_reg_read(p,
         IF arg[0] = Arg(txn[p])
           THEN Goto(p, "verify", "ring") /\ UNCHANGED <<response, flock>>
           ELSE ReturnCode(p, "verify", "Failed"),
         ReturnCode(p, "verify", "Failed"))
    /\ UNCHANGED <<kind, txn, i, args, clean, mailbox, next>>

RingDoorbell(p) ==
    /\ Goto(p, "ring", "wait")
    /\ smn_reg_write(p, msg' = txn[p], UNCHANGED msg)
    /\ UNCHANGED <<kind, txn, i, args, response, clean, flock, rep, arg, exec,
                   slot, runs, next>>

\* smu_wait_for_response(): the response register is no longer 0.
WaitAnswered(p) ==
    /\ rep # NoRep
    /\ Goto(p, "wait", IF kind[p] = "req" THEN "readback" ELSE "finish")
    /\ response' = [response EXCEPT ![p] = rep.code]
    /\ i' = [i EXCEPT ![p] = 0]
    /\ UNCHANGED <<kind, txn, args, clean, smn_io_error, flock, mailbox, next>>

\* A failed poll reads 0, which is "not answered yet", and polls on.  Over PCI it may
\* read another register instead, or all ones: either passes for the answer.
WaitReadError(p) ==
    /\ ReadMayFail
    /\ \/ pc[p] = "wait" /\ smn_io_set_error(p) /\ UNCHANGED <<pc, response, i>>
       \/ /\ p \in PciProcs
          /\ Goto(p, "wait", IF kind[p] = "req" THEN "readback" ELSE "finish")
          /\ i' = [i EXCEPT ![p] = 0]
          /\ \E c \in Answers :
               /\ response' = [response EXCEPT ![p] = c]
               /\ smn_io_set_error(p) \/ (c = "Failed" /\ UNCHANGED smn_io_error)
    /\ UNCHANGED <<kind, txn, args, clean, flock, mailbox, next>>

\* Mutant: the wait has no deadline.
WaitTimeout_Never(p) == FALSE

\* The last poll before the deadline reads 0.
WaitTimeout(p) ==
    /\ rep = NoRep \/ ReadMayFail
    /\ ReturnCode(p, "wait", "Timeout")
    /\ smn_io_take_error(p)
    /\ UNCHANGED <<kind, txn, i, args, clean, mailbox, next>>

ReadBack(p) ==
    /\ IF i[p] < LastArg
         THEN Goto(p, "readback", "readback") /\ i' = [i EXCEPT ![p] = @ + 1]
         ELSE Goto(p, "readback", "finish") /\ UNCHANGED i
    /\ smn_reg_read(p, args' = [args EXCEPT ![p][i[p]] = arg[i[p]]],
                       args' = [args EXCEPT ![p][i[p]] = Junk])
    /\ UNCHANGED <<kind, txn, response, clean, flock, mailbox, next>>

\* Mutant: an OK stays an OK when its results could not be read.
Finish_KeepsOk(p) ==
    /\ ReturnCode(p, "finish", response[p])
    /\ smn_io_take_error(p)
    /\ UNCHANGED <<kind, txn, i, args, clean, mailbox, next>>

\* smu_service_req() turns an OK whose results could not be read into Failed.
Finish(p) ==
    /\ ReturnCode(p, "finish",
         IF kind[p] = "req" /\ smn_io_error[p] /\ response[p] = "OK"
           THEN "Failed" ELSE response[p])
    /\ smn_io_take_error(p)
    /\ UNCHANGED <<kind, txn, i, args, clean, mailbox, next>>

-----------------------------------------------------------------------------
\* The locals of a call die with it, whether it returns or its process is killed.
Forget(p) ==
    /\ pc' = [pc EXCEPT ![p] = "idle"]
    /\ kind' = [kind EXCEPT ![p] = "req"]
    /\ txn' = [txn EXCEPT ![p] = 0]
    /\ i' = [i EXCEPT ![p] = 0]
    /\ args' = [args EXCEPT ![p] = [j \in Args |-> Junk]]
    /\ response' = [response EXCEPT ![p] = "Timeout"]
    /\ clean' = [clean EXCEPT ![p] = FALSE]

Return(p) ==
    /\ pc[p] = "ret"
    /\ Forget(p)
    /\ UNCHANGED <<smn_io_error, flock, mailbox, next>>

\* The process is killed (and a new one takes its place): the kernel closes its
\* descriptors, which releases the flock.
Crash(p) ==
    /\ pc[p] # "idle"
    /\ Forget(p)
    /\ smn_io_take_error(p)
    /\ smu_unlock(p)
    /\ UNCHANGED <<mailbox, next>>

-----------------------------------------------------------------------------
\* The firmware: it starts the command that is in the mailbox at that moment,
\* and answers when it is done, whoever is still waiting.
SmuStart ==
    /\ msg # 0
    /\ exec.msg = 0
    /\ exec' = [msg |-> msg, args |-> arg]
    /\ msg' = 0
    /\ runs' = [runs EXCEPT ![msg] = @ + 1]
    /\ UNCHANGED <<locals, smn_io_error, flock, rep, arg, slot, next>>

SmuAnswer(c) ==
    /\ exec.msg # 0
    /\ rep' = [code |-> c, txn |-> exec.msg]
    /\ arg' = IF c = "OK" THEN [j \in Args |-> Res(exec.msg)] ELSE arg
    /\ exec' = NoCmd
    /\ UNCHANGED <<locals, smn_io_error, flock, msg, slot, runs, next>>

-----------------------------------------------------------------------------
Step(p) ==
    \/ LockAcquire(p) \/ LockUnavailable(p) \/ LockTimeout(p)
    \/ RawWrite(p) \/ RawWriteError(p) \/ RawUnavailable(p) \/ RawRead(p)
    \/ ClearRep(p) \/ WriteArg(p) \/ CheckWrites(p) \/ VerifyArg(p)
    \/ RingDoorbell(p)
    \/ WaitAnswered(p) \/ WaitTimeout(p)
    \/ ReadBack(p) \/ Finish(p) \/ Return(p)

Smu == SmuStart \/ \E c \in Answers : SmuAnswer(c)

\* Everybody has returned and no call is left: the model's bound, not a deadlock.
Done == next > MaxTxn /\ Quiet /\ (\A p \in Procs : pc[p] = "idle") /\ UNCHANGED vars

Next ==
    \/ \E p \in Procs :
         \/ \E k \in Kinds : Call(p, k)
         \/ Step(p) \/ WaitReadError(p) \/ Crash(p)
    \/ Smu
    \/ Done

Spec == Init /\ [][Next]_vars

\* A call that has begun keeps running: both waits compare a monotonic clock with
\* a deadline.  Nothing is assumed of the SMU, which may never answer, nor that a
\* poll ever fails.
FairSpec == Spec /\ \A p \in Procs : WF_vars(Step(p))

-----------------------------------------------------------------------------
\* Where a process is inside its transaction, between smu_lock() and smu_unlock().
Inside == {"raw", "rawread", "clear", "args", "check", "verify", "ring", "wait",
           "readback", "finish"}

\* The types of a process' own variables and of the lock.
LocalTypes ==
    /\ pc \in [Procs -> Inside \cup {"idle", "lock", "ret"}]
    /\ kind \in [Procs -> {"req", "test"}]
    /\ txn \in [Procs -> 0 .. MaxTxn]
    /\ i \in [Procs -> Args]
    /\ args \in [Procs -> [Args -> Vals]]
    /\ response \in [Procs -> Codes]
    /\ clean \in [Procs -> BOOLEAN]
    /\ smn_io_error \in [Procs -> BOOLEAN]
    /\ flock \in LockProcs \cup {NoProc}

\* The types of the mailbox and of the counters.
MailboxTypes ==
    /\ rep \in [code : Answers \cup {"Timeout"}, txn : 0 .. MaxTxn]
    /\ arg \in [Args -> Vals]
    /\ msg \in 0 .. MaxTxn
    /\ exec \in [msg : 0 .. MaxTxn, args : [Args -> Vals]]
    /\ slot \in [owner : Procs \cup {NoProc}, code : Codes, txn : 0 .. MaxTxn]
    /\ runs \in [Txns -> Nat]
    /\ next \in 1 .. MaxTxn + 1

\* Every variable keeps its type, whatever the calls, the driver and the firmware
\* do to the state they share: no argument index passes the last register.
TypeOK == LocalTypes /\ MailboxTypes

\* A process that can lock holds the lock exactly while it is inside its
\* transaction, whichever way it leaves: every early return and every crash lets
\* go of it, and no two of them are ever inside together (nb_smu_ops.c:79-130).
LockHeldInside ==
    \A p \in LockProcs : (pc[p] \in Inside) <=> (flock = p)

\* The registers that an operation sets up before it rings the doorbell.
ArgsOf(k) == IF k = "req" THEN Args ELSE {0}

\* The SMU runs a request with the arguments of that request, not with those of
\* another process nor with what a failed write left there, when the request
\* began on a mailbox that owed nobody an answer (nb_smu_ops.c:184-205).
OwnArguments ==
    \A p \in Procs :
        (pc[p] = "wait" /\ clean[p] /\ exec.msg = txn[p])
            => \A j \in ArgsOf(kind[p]) : exec.args[j] = Arg(txn[p])

\* A result of p's call; over PCI, perhaps what a read that failed unsaid has left.
ResultOf(p, v) == v = Res(txn[p]) \/ (p \in PciProcs /\ v = Junk)

\* A request that returns REP_MSG_OK has run once, and each result that it hands its
\* caller is its own, when it began on a mailbox that owed nobody an answer; over
\* ryzen_smu they all are, whatever accesses failed.  Over PCI a result may be the all
\* ones of a read that failed and did not say so (nb_smu_ops.c:213-230).
OkIsOwn ==
    \A p \in Procs :
        (pc[p] = "ret" /\ kind[p] = "req" /\ clean[p] /\ response[p] = "OK")
            => runs[txn[p]] = 1 /\ \A j \in Args : ResultOf(p, args[p][j])

\* No call makes the SMU run its command twice, over the driver and then again
\* over the registers (osdep_linux_smu_kernel_module.c:264-273).
AtMostOnce == \A t \in Txns : runs[t] <= 1

\* A call returns CmdRejectedBusy, which its caller may take as "not done, try
\* again", for one of two reasons only: it has not reached the SMU and never will, as
\* when the lock was not to be had (nb_smu_ops.c:174-175); or the SMU itself has just
\* given that answer to this very command (nb_smu_ops.c:153-155).  In particular the
\* driver's result slot is never found overwritten by another process (EAGAIN,
\* osdep_linux_smu_kernel_module.c:278), which says Busy of a command that has run.
\* A call that has begun counts when it is a request on a mailbox that owed nobody an
\* answer, and does not read the answer over PCI, where another register may pass for it.
BusyIsTrue ==
    [][\A p \in Procs :
         (/\ pc[p] # "ret" /\ pc'[p] = "ret" /\ response'[p] = "Busy"
          /\ pc[p] = "lock" \/ (kind[p] = "req" /\ clean[p] /\ p \notin PciProcs))
           => \/ runs[txn[p]] = 0 /\ msg # txn[p] /\ exec.msg # txn[p]
              \/ rep = [code |-> "Busy", txn |-> txn[p]]]_vars

\* Every call returns: neither the lock nor a silent SMU, nor a doorbell that was
\* never rung, keeps a caller for ever (nb_smu_ops.c:113-122, 146-166).
Returns == \A p \in Procs : pc[p] # "idle" ~> pc[p] = "idle"

-----------------------------------------------------------------------------
\* What the caller of a call that returns now is told.
Told ==
    [p \in Procs |->
        IF pc[p] = "ret"
          THEN [code |-> response[p], own |-> \A j \in Args : args[p][j] = Res(txn[p])]
          ELSE [code |-> "none", own |-> FALSE]]

Service == INSTANCE SmuService WITH
    cur <- txn, op <- kind, used <- 1 .. next - 1,
    turn <- flock, alone <- clean, Sure <- Procs \ PciProcs,
    owed <- {msg, exec.msg} \ {0},
    ran <- {t \in Txns : runs[t] # 0},
    reply <- Told

\* Processes that can all lock get the service of SmuService: register accesses,
\* driver, lock and firmware together implement turns in which a command is sent at
\* most once and answered truthfully, but for what PCI misreads (nb_smu_ops.c:85-260).
ImplementsService == Service!Spec

-----------------------------------------------------------------------------
\* What comments of the source say, and the code does not do.

\* "Serialise whole transactions" (nb_smu_ops.c:89): with the flock, an OK is
\* the answer to the caller's own request, whatever came before it.
SerialisedOkIsOwn ==
    \A p \in Procs :
        (pc[p] = "ret" /\ kind[p] = "req" /\ response[p] = "OK")
            => args[p] = [j \in Args |-> Res(txn[p])]

\* smn_io_take_error() "Returns non-zero if any smn_reg_read/smn_reg_write failed since
\* the last call" (nb_smu_ops.h:110), so that a request whose results could not be read
\* is not OK: an OK that began on a mailbox that owed nothing brings its own results.
FailedReadIsFlagged ==
    \A p \in Procs :
        (pc[p] = "ret" /\ kind[p] = "req" /\ clean[p] /\ response[p] = "OK")
            => args[p] = [j \in Args |-> Res(txn[p])]

=============================================================================

-------------------------- MODULE SmuServiceProofs --------------------------
(***************************************************************************)
(* For any number of processes that can all lock, and any number of calls  *)
(* and argument registers: SmuMailbox implements SmuService, requests run  *)
(* with their own arguments, an OK brings their own results, and a Busy    *)
(* has one of its two reasons.                                             *)
(***************************************************************************)
EXTENDS SmuMailboxProofs

\* What the SMU works on has been started.
ExecRan == exec.msg # 0 => runs[exec.msg] = 1

\* A call has a number until it is forgotten; only a request checks its writes and
\* reads results back, only a test verifies; and the slot stays with its writer.
Stages ==
    \A p \in Procs :
        /\ pc[p] = "idle" => txn[p] = 0
        /\ pc[p] \in {"check", "readback"} => kind[p] = "req"
        /\ pc[p] = "verify" => kind[p] = "test"
        /\ pc[p] = "rawread" => slot.owner = p

Setup == {"raw", "clear", "args", "check", "verify", "ring"}

\* Until its command is sent, nothing comes into a mailbox that owed nothing.
SetUp(p) == pc[p] \in Setup => Quiet

\* The SMU has answered this very command with Busy, and nothing more will come.
SaidBusy(p) == Quiet /\ rep = [code |-> "Busy", txn |-> txn[p]]

\* The driver's OK, or Busy, is that of this call.
RawOwn(p) ==
    pc[p] = "rawread" =>
        /\ slot.code = "OK" => slot.txn = txn[p] /\ runs[txn[p]] = 1
        /\ slot.code = "Busy" => SaidBusy(p)

\* A request that has seen no failed write has cleared the response and written the
\* arguments before the one that it is at.
Writes(p) ==
    (pc[p] \in {"args", "check"} /\ kind[p] = "req" /\ ~smn_io_error[p]) =>
        /\ rep = NoRep
        /\ \A j \in Args : (pc[p] = "args" => j < i[p]) => arg[j] = Arg(txn[p])

\* At the doorbell the arguments are there.
Rings(p) ==
    pc[p] = "ring" =>
        /\ \A j \in ArgsOf(kind[p]) : arg[j] = Arg(txn[p])
        /\ kind[p] = "req" => rep = NoRep

\* The command of this call was answered, with its own results.
Answered(p) ==
    /\ Quiet
    /\ runs[txn[p]] = 1
    /\ rep.txn = txn[p]
    /\ rep.code = "OK" => \A j \in Args : arg[j] = Res(txn[p])

\* While it waits, its command is in the doorbell, being worked on, answered, or lost.
Waits(p) ==
    pc[p] = "wait" =>
        /\ msg \in {0, txn[p]} /\ exec.msg \in {0, txn[p]}
        /\ msg # 0 => exec.msg = 0 /\ \A j \in ArgsOf(kind[p]) : arg[j] = Arg(txn[p])
        /\ exec.msg # 0 => msg = 0 /\ \A j \in ArgsOf(kind[p]) : exec.args[j] = Arg(txn[p])
        /\ kind[p] = "req" => rep = NoRep \/ Answered(p)

\* What it has read back with no failure flagged are its own results.
Reads(p) ==
    (pc[p] \in {"readback", "finish"} /\ kind[p] = "req" /\ ~smn_io_error[p]
        /\ response[p] = "OK") =>
            /\ Quiet /\ runs[txn[p]] = 1
            /\ \A j \in Args : arg[j] = Res(txn[p])
            /\ \A j \in Args : (pc[p] = "readback" => j < i[p]) => ResultOf(p, args[p][j])

\* The Busy that it has read over ryzen_smu is the answer to its own command.
Hears(p) ==
    (pc[p] \in {"readback", "finish"} /\ kind[p] = "req" /\ p \notin PciProcs
        /\ response[p] = "Busy") => SaidBusy(p)

\* What holds of a call in its turn, when nothing was owed as the turn began.
Mine(p) ==
    SetUp(p) /\ RawOwn(p) /\ Writes(p) /\ Rings(p) /\ Waits(p) /\ Reads(p) /\ Hears(p)

Turns == \A p \in Procs : clean[p] => Mine(p)

Inv == TypeOK /\ LockHeldInside /\ OnceInv /\ ExecRan /\ Stages /\ Turns /\ OkIsOwn

-----------------------------------------------------------------------------
\* Nobody is inside beside a process that is inside.
LEMMA OneInside ==
    ASSUME LockProcs = Procs, LockHeldInside, NEW p \in Procs, NEW q \in Procs,
           pc[p] \in Inside, pc[q] \in Inside
    PROVE  p = q
  BY DEF LockHeldInside

LEMMA InvInit == Init => Inv
  <1> SUFFICES ASSUME Init PROVE Inv
    OBVIOUS
  <1>1. ExecRan
    BY DEF Init, ExecRan, NoCmd
  <1>2. Stages
    BY DEF Init, Stages, NoSlot
  <1>3. Turns
    BY DEF Init, Turns
  <1>4. OkIsOwn
    BY DEF Init, OkIsOwn
  <1> QED BY <1>1, <1>2, <1>3, <1>4, TypeInit, LockInit, OnceInit DEF Inv

-----------------------------------------------------------------------------
\* What the SMU works on has been started: SmuStart counts what it takes up.
LEMMA ExecRanStep == TypeOK /\ OnceInv /\ ExecRan /\ [Next]_vars => ExecRan'
  <1> SUFFICES ASSUME TypeOK, OnceInv, ExecRan, [Next]_vars PROVE ExecRan'
    OBVIOUS
  <1>1. CASE UNCHANGED <<exec, runs>>
    BY <1>1 DEF ExecRan
  <1>2. ASSUME NEW p \in Procs, DriverRuns(p) PROVE ExecRan'
    BY <1>2 DEF DriverRuns, DriverAnswered, DriverAnsweredLate, DriverTimedOut, DriverFailed,
                ExecRan, NoCmd
  <1>3. ASSUME NEW p \in Procs, RawWrite(p) \/ RawWriteError(p) PROVE ExecRan'
    BY <1>1, <1>2, <1>3 DEF RawWrite, RawWriteError, mailbox
  <1>4. CASE SmuStart
    BY <1>4 DEF SmuStart, ExecRan, OnceInv, TypeOK, MailboxTypes, Txns
  <1>5. ASSUME NEW c \in Answers, SmuAnswer(c) PROVE ExecRan'
    BY <1>5 DEF SmuAnswer, ExecRan, NoCmd
  <1>6. ASSUME NEW p \in Procs, NEW k \in Kinds, Call(p, k) PROVE UNCHANGED <<exec, runs>>
    BY <1>6 DEF Call, mailbox
  <1>7. ASSUME NEW p \in Procs, Step(p), ~RawWrite(p), ~RawWriteError(p)
        PROVE  UNCHANGED <<exec, runs>>
    BY <1>7 DEF Step, LockAcquire, LockUnavailable, LockTimeout, Begin, RawUnavailable, RawRead,
                ClearRep, WriteArg, CheckWrites, VerifyArg, RingDoorbell, WaitAnswered,
                WaitTimeout, ReadBack, Finish, Return, mailbox
  <1>8. ASSUME NEW p \in Procs, WaitReadError(p) \/ Crash(p) PROVE UNCHANGED <<exec, runs>>
    BY <1>8 DEF WaitReadError, Crash, mailbox
  <1>9. CASE UNCHANGED vars
    BY <1>1, <1>9 DEF vars, mailbox
  <1> QED BY <1>1, <1>3, <1>4, <1>5, <1>6, <1>7, <1>8, <1>9 DEF Next, Smu, Done

-----------------------------------------------------------------------------
\* A step of p that goes to a stage, and keeps what Stages says of p there.
LEMMA StageMove ==
    ASSUME LocalTypes, Stages, NEW p \in Procs, NEW to, pc' = [pc EXCEPT ![p] = to],
           to # "idle", UNCHANGED <<txn, kind>>, UNCHANGED slot \/ to = "rawread",
           \A q \in Procs \ {p} : pc[q] = "rawread" => UNCHANGED slot,
           to \in {"check", "readback"} => kind[p] = "req",
           to = "verify" => kind[p] = "test",
           to = "rawread" => slot'.owner = p
    PROVE  Stages'
  BY DEF Stages, LocalTypes

LEMMA StagesStep ==
    ASSUME LockProcs = Procs, TypeOK, LockHeldInside, Stages, [Next]_vars
    PROVE  Stages'
  <1>1. LocalTypes /\ MailboxTypes
    BY DEF TypeOK
  <1> USE <1>1
  <1>2. ASSUME NEW p \in Procs, NEW k \in Kinds, Call(p, k) PROVE Stages'
    BY <1>2 DEF Call, Goto, mailbox, Stages, LocalTypes
  <1>3. ASSUME NEW p \in Procs, Return(p) \/ Crash(p) PROVE Stages'
    BY <1>3 DEF Return, Crash, Forget, mailbox, Stages, LocalTypes
  <1>4. ASSUME NEW p \in Procs, LockAcquire(p) \/ LockUnavailable(p) \/ LockTimeout(p)
        PROVE  Stages'
    BY <1>4, StageMove DEF LockAcquire, LockUnavailable, LockTimeout, Begin, Goto, mailbox,
                           Stages, LocalTypes
  <1>5. ASSUME NEW p \in Procs, pc[p] = "raw",
               NEW to \in {"rawread", "ret"}, pc' = [pc EXCEPT ![p] = to],
               DriverRuns(p) \/ (UNCHANGED slot /\ to = "ret"), UNCHANGED <<txn, kind>>
        PROVE  Stages'
    <2>1. to = "rawread" => slot'.owner = p
      BY <1>5 DEF DriverRuns, DriverAnswered, DriverAnsweredLate, DriverTimedOut, DriverFailed
    <2>2. \A q \in Procs \ {p} : pc[q] # "rawread"
      BY <1>5, OneInside DEF Inside
    <2> QED BY <1>5, <2>1, <2>2 DEF Stages, LocalTypes
  <1>6. ASSUME NEW p \in Procs, RawWrite(p) PROVE Stages'
    BY <1>5, <1>6 DEF RawWrite, Goto
  <1>7. ASSUME NEW p \in Procs, RawWriteError(p) PROVE Stages'
    BY <1>5, <1>7 DEF RawWriteError, ReturnCode, Goto, LocalTypes, mailbox
  <1>8. ASSUME NEW p \in Procs, RawUnavailable(p) \/ ClearRep(p) PROVE Stages'
    BY <1>8, StageMove DEF RawUnavailable, ClearRep, Goto, mailbox, Stages
  <1>9. ASSUME NEW p \in Procs, NEW at, NEW c, ReturnCode(p, at, c),
               UNCHANGED <<txn, kind, slot>>
        PROVE  Stages'
    BY <1>9, StageMove DEF ReturnCode, Goto, Stages, LocalTypes
  <1>10. ASSUME NEW p \in Procs, RawRead(p) \/ WaitTimeout(p) \/ Finish(p) PROVE Stages'
    BY <1>9, <1>10 DEF RawRead, WaitTimeout, Finish, mailbox
  <1>11. ASSUME NEW p \in Procs, WriteArg(p) PROVE Stages'
    <2>1. kind[p] \in {"req", "test"}
      BY DEF LocalTypes
    <2> QED BY <1>11, <2>1, StageMove DEF WriteArg, Goto, Stages
  <1>12. ASSUME NEW p \in Procs, CheckWrites(p) \/ VerifyArg(p) PROVE Stages'
    <2>1. CASE Goto(p, "check", "ring") \/ Goto(p, "verify", "ring")
      BY <1>12, <2>1, StageMove DEF CheckWrites, VerifyArg, smn_reg_read, Goto, ReturnCode, mailbox,
                                    Stages, LocalTypes
    <2>2. CASE ReturnCode(p, "check", "Failed") \/ ReturnCode(p, "verify", "Failed")
      BY <1>9, <1>12, <2>2 DEF CheckWrites, VerifyArg, mailbox
    <2> QED BY <1>12, <2>1, <2>2 DEF CheckWrites, VerifyArg, smn_reg_read
  <1>13. ASSUME NEW p \in Procs, RingDoorbell(p) PROVE Stages'
    BY <1>13, StageMove DEF RingDoorbell, Goto, Stages
  <1>14. ASSUME NEW p \in Procs, WaitAnswered(p) PROVE Stages'
    <2>1. /\ pc' = [pc EXCEPT ![p] = IF kind[p] = "req" THEN "readback" ELSE "finish"]
          /\ UNCHANGED <<txn, kind, slot>>
      BY <1>14 DEF WaitAnswered, Goto, mailbox
    <2> QED BY <2>1, StageMove DEF Stages, LocalTypes
  <1>15. ASSUME NEW p \in Procs, WaitReadError(p) PROVE Stages'
    <2>1. UNCHANGED <<txn, kind, slot>>
      BY <1>15 DEF WaitReadError, mailbox
    <2>2. CASE UNCHANGED pc
      BY <2>1, <2>2 DEF Stages
    <2>3. CASE pc' = [pc EXCEPT ![p] = IF kind[p] = "req" THEN "readback" ELSE "finish"]
      BY <2>1, <2>3, StageMove DEF Stages, LocalTypes
    <2> QED BY <1>15, <2>2, <2>3 DEF WaitReadError, Goto
  <1>16. ASSUME NEW p \in Procs, ReadBack(p) PROVE Stages'
    <2>1. pc[p] = "readback"
      BY <1>16 DEF ReadBack, Goto
    <2>2. kind[p] = "req"
      BY <2>1 DEF Stages
    <2> QED BY <1>16, <2>1, <2>2, StageMove DEF ReadBack, Goto, mailbox, Stages
  <1>17. CASE Smu \/ UNCHANGED vars
    BY <1>17 DEF Smu, SmuStart, SmuAnswer, vars, locals, mailbox, Stages
  <1> QED BY <1>2, <1>3, <1>4, <1>6, <1>7, <1>8, <1>10, <1>11, <1>12, <1>13, <1>14, <1>15,
             <1>16, <1>17 DEF Next, Step, Done

-----------------------------------------------------------------------------
\* Turns: a step of the process whose turn it is can only disturb what holds of
\* that process; the others are not inside, where Mine says nothing.

LEMMA Outside ==
    ASSUME NEW p \in Procs, pc'[p] \notin Inside
    PROVE  Mine(p)'
  BY DEF Mine, SetUp, RawOwn, Writes, Rings, Waits, Reads, Hears, Setup, Inside

LEMMA OwnTurn ==
    ASSUME LockProcs = Procs, LocalTypes, LockHeldInside, NEW p \in Procs, pc[p] \in Inside,
           NEW to, pc' = [pc EXCEPT ![p] = to],
           clean'[p] => Mine(p)'
    PROVE  Turns'
  <1> SUFFICES ASSUME NEW q \in Procs, q # p PROVE Mine(q)'
    BY DEF Turns
  <1>1. pc'[q] \notin Inside
    BY OneInside DEF LocalTypes
  <1> QED BY <1>1, Outside

LEMMA TurnEnds ==
    ASSUME LockProcs = Procs, LocalTypes, LockHeldInside, NEW p \in Procs, pc[p] \in Inside,
           NEW to \in {"ret", "idle"}, pc' = [pc EXCEPT ![p] = to]
    PROVE  Turns'
  <1>1. pc'[p] \notin Inside
    BY DEF LocalTypes, Inside
  <1> QED BY <1>1, Outside, OwnTurn

\* A step of a process that is not inside, and does not begin its turn.
LEMMA NoTurn ==
    ASSUME LocalTypes, Turns, NEW p \in Procs,
           NEW to \in {"lock", "ret", "idle"}, pc' = [pc EXCEPT ![p] = to], UNCHANGED mailbox,
           \A q \in Procs \ {p} :
               /\ txn'[q] = txn[q] /\ kind'[q] = kind[q] /\ i'[q] = i[q]
               /\ args'[q] = args[q] /\ response'[q] = response[q] /\ clean'[q] = clean[q]
               /\ smn_io_error'[q] = smn_io_error[q]
    PROVE  Turns'
  <1> SUFFICES ASSUME NEW q \in Procs, clean'[q] PROVE Mine(q)'
    BY DEF Turns
  <1>1. CASE q = p
    <2>1. pc'[q] \notin Inside
      BY <1>1 DEF LocalTypes, Inside
    <2> QED BY <2>1, Outside
  <1>2. CASE q # p
    <2>1. Mine(q)
      BY <1>2 DEF Turns
    <2>2. pc'[q] = pc[q]
      BY <1>2 DEF LocalTypes
    <2> QED BY <1>2, <2>1, <2>2 DEF Mine, SetUp, RawOwn, Writes, Rings, Waits, Reads, Hears,
                                    Answered, SaidBusy, ResultOf, Quiet, mailbox
  <1> QED BY <1>1, <1>2

\* The driver's OK in an undisturbed turn is that of this call.
LEMMA RawWriteTurn ==
    ASSUME TypeOK, OnceInv, Turns, NEW p \in Procs, RawWrite(p), clean[p]
    PROVE  Mine(p)'
  <1>1. pc[p] = "raw" /\ pc'[p] = "rawread" /\ txn' = txn
    BY DEF RawWrite, Goto, TypeOK, LocalTypes
  <1>2. Quiet
    BY <1>1 DEF Turns, Mine, SetUp, Setup
  <1>3. txn[p] \in Txns /\ runs[txn[p]] = 0
    BY <1>1 DEF OnceInv, Calls, Unsent, BeforeDoorbell
  <1>4. RawOwn(p)'
    BY <1>1, <1>2, <1>3 DEF RawWrite, DriverRuns, DriverAnswered, DriverAnsweredLate,
         DriverTimedOut, DriverFailed, Quiet, RawOwn, SaidBusy, TypeOK, MailboxTypes
  <1> QED BY <1>1, <1>4 DEF Mine, SetUp, Setup, Writes, Rings, Waits, Reads, Hears

LEMMA RawUnavailableTurn ==
    ASSUME TypeOK, Turns, NEW p \in Procs, RawUnavailable(p), clean[p]
    PROVE  Mine(p)'
  <1>1. pc[p] = "raw" /\ pc'[p] = "clear"
    BY DEF RawUnavailable, Goto, TypeOK, LocalTypes
  <1>2. Quiet'
    BY <1>1 DEF RawUnavailable, mailbox, Quiet, Turns, Mine, SetUp, Setup
  <1> QED BY <1>1, <1>2 DEF Mine, SetUp, RawOwn, Writes, Rings, Waits, Reads, Hears

\* The response is cleared, or the error flag is set.
LEMMA ClearRepTurn ==
    ASSUME TypeOK, Turns, NEW p \in Procs, ClearRep(p), clean[p]
    PROVE  Mine(p)'
  <1>1. pc[p] = "clear" /\ pc'[p] = "args" /\ i'[p] = 0 /\ UNCHANGED <<kind, txn, arg>>
    BY DEF ClearRep, Goto, TypeOK, LocalTypes
  <1>2. Quiet'
    BY <1>1 DEF ClearRep, Quiet, Turns, Mine, SetUp, Setup
  <1>3. rep' = NoRep \/ smn_io_error'[p]
    BY DEF ClearRep, smn_reg_write, smn_io_set_error, TypeOK, LocalTypes
  <1>4. Writes(p)'
    BY <1>1, <1>3 DEF Writes, Args
  <1> QED BY <1>1, <1>2, <1>4 DEF Mine, SetUp, RawOwn, Rings, Waits, Reads, Hears

\* The argument at i is written, or the error flag is set.
LEMMA WriteArgTurn ==
    ASSUME TypeOK, Turns, NEW p \in Procs, WriteArg(p), clean[p]
    PROVE  Mine(p)'
  <1>1. pc[p] = "args" /\ UNCHANGED <<kind, txn, rep>>
    BY DEF WriteArg, Goto
  <1>2. pc'[p] \in {"args", "check", "verify"}
    BY DEF WriteArg, Goto, TypeOK, LocalTypes
  <1>3. Quiet'
    BY <1>1 DEF WriteArg, Quiet, Turns, Mine, SetUp, Setup
  <1>4. Writes(p)'
    <2> SUFFICES ASSUME kind[p] = "req", ~smn_io_error'[p]
                 PROVE  /\ rep = NoRep
                        /\ \A j \in Args : (pc'[p] = "args" => j < i'[p]) => arg'[j] = Arg(txn[p])
      BY <1>1 DEF Writes
    <2>1. ~smn_io_error[p] /\ arg' = [arg EXCEPT ![i[p]] = Arg(txn[p])]
      BY DEF WriteArg, smn_reg_write, smn_io_set_error, TypeOK, LocalTypes
    <2>2. rep = NoRep /\ \A j \in Args : j < i[p] => arg[j] = Arg(txn[p])
      BY <1>1, <2>1 DEF Turns, Mine, Writes
    <2>3. i[p] \in Args
      BY DEF TypeOK, LocalTypes
    <2>4. \A j \in Args : (j < i[p] \/ j = i[p]) => arg'[j] = Arg(txn[p])
      BY <2>1, <2>2, <2>3 DEF TypeOK, MailboxTypes, Args
    <2>5. CASE i[p] < LastArg
      <3>1. pc'[p] = "args" /\ i'[p] = i[p] + 1
        BY <2>5 DEF WriteArg, Goto, TypeOK, LocalTypes
      <3>2. \A j \in Args : j < i[p] + 1 => (j < i[p] \/ j = i[p])
        BY <2>3, BoundsAssumption DEF Args
      <3> QED BY <2>2, <2>4, <3>1, <3>2
    <2>6. CASE ~(i[p] < LastArg)
      <3>1. \A j \in Args : j < i[p] \/ j = i[p]
        BY <2>3, <2>6, BoundsAssumption DEF Args
      <3> QED BY <2>2, <2>4, <3>1
    <2> QED BY <2>5, <2>6
  <1> QED BY <1>2, <1>3, <1>4 DEF Mine, SetUp, RawOwn, Rings, Waits, Reads, Hears

\* The doorbell is reached only without a failed write, or with argument 0 read back.
LEMMA ToDoorbellTurn ==
    ASSUME TypeOK, Stages, Turns, NEW p \in Procs, CheckWrites(p) \/ VerifyArg(p),
           pc'[p] = "ring", clean[p]
    PROVE  Mine(p)'
  <1>1. pc[p] \in {"check", "verify"} /\ UNCHANGED <<kind, txn, mailbox>>
    BY DEF CheckWrites, VerifyArg, smn_reg_read, ReturnCode, Goto
  <1>2. Quiet'
    BY <1>1 DEF mailbox, Quiet, Turns, Mine, SetUp, Setup
  <1>3. Rings(p)'
    <2>1. CASE CheckWrites(p)
      <3>1. pc[p] = "check" /\ ~smn_io_error[p]
        BY <2>1 DEF CheckWrites, ReturnCode, Goto, TypeOK, LocalTypes
      <3>2. rep = NoRep /\ \A j \in Args : arg[j] = Arg(txn[p])
        BY <3>1 DEF Stages, Turns, Mine, Writes
      <3> QED BY <1>1, <3>1, <3>2, ArgsNonEmpty DEF Rings, ArgsOf, mailbox
    <2>2. CASE VerifyArg(p)
      <3>1. pc[p] = "verify" /\ arg[0] = Arg(txn[p])
        BY <2>2 DEF VerifyArg, smn_reg_read, ReturnCode, Goto, TypeOK, LocalTypes
      <3>2. kind[p] = "test"
        BY <3>1 DEF Stages
      <3> QED BY <1>1, <3>1, <3>2 DEF Rings, ArgsOf, mailbox
    <2> QED BY <2>1, <2>2
  <1> QED BY <1>2, <1>3 DEF Mine, SetUp, RawOwn, Writes, Waits, Reads, Hears

LEMMA RingDoorbellTurn ==
    ASSUME TypeOK, OnceInv, Turns, NEW p \in Procs, RingDoorbell(p), clean[p]
    PROVE  Mine(p)'
  <1>1. pc[p] = "ring" /\ pc'[p] = "wait" /\ UNCHANGED <<kind, txn, rep, arg, exec>>
    BY DEF RingDoorbell, Goto, TypeOK, LocalTypes
  <1>2. Quiet /\ Rings(p)
    BY <1>1 DEF Turns, Mine, SetUp, Setup
  <1>3. msg' \in {0, txn[p]}
    BY <1>2 DEF RingDoorbell, smn_reg_write, Quiet
  <1>4. Waits(p)'
    BY <1>1, <1>2, <1>3 DEF Waits, Rings, Quiet
  <1> QED BY <1>1, <1>4 DEF Mine, SetUp, Setup, RawOwn, Writes, Rings, Reads, Hears

\* An OK that is read with no failure flagged is the answer to this request, and so is
\* a Busy that is read over ryzen_smu, where a failed poll reads no answer.
LEMMA WaitTurn ==
    ASSUME TypeOK, Turns, NEW p \in Procs, WaitAnswered(p) \/ WaitReadError(p), clean[p]
    PROVE  Mine(p)'
  <1>1. pc[p] = "wait" /\ UNCHANGED <<kind, txn, mailbox>>
    BY DEF WaitAnswered, WaitReadError, Goto
  <1>2. Waits(p)
    BY DEF Turns, Mine
  <1>3. CASE pc'[p] = "wait"
    BY <1>1, <1>2, <1>3 DEF Mine, SetUp, Setup, RawOwn, Writes, Rings, Waits, Reads, Hears,
                            Answered, Quiet, mailbox
  <1>4. CASE pc'[p] # "wait"
    <2>1. pc'[p] \in {"readback", "finish"} /\ i'[p] = 0
          /\ (pc'[p] = "finish" => kind[p] # "req")
      BY <1>4, <1>1 DEF WaitAnswered, WaitReadError, Goto, TypeOK, LocalTypes
    <2>2. Reads(p)'
      <3>1. CASE WaitReadError(p)
        <4>1. smn_io_error'[p] \/ response'[p] = "Failed"
          BY <1>4, <1>1, <3>1 DEF WaitReadError, smn_io_set_error, TypeOK, LocalTypes
        <4> QED BY <4>1 DEF Reads
      <3>2. CASE WaitAnswered(p)
        <4>1. rep # NoRep /\ response'[p] = rep.code
          BY <3>2 DEF WaitAnswered, TypeOK, LocalTypes
        <4>2. kind[p] = "req" => Answered(p)
          BY <1>1, <1>2, <4>1 DEF Waits
        <4> QED BY <1>1, <2>1, <4>1, <4>2 DEF Reads, Answered, Quiet, mailbox, Args
      <3> QED BY <3>1, <3>2
    <2>3. Hears(p)'
      <3> SUFFICES ASSUME kind[p] = "req", p \notin PciProcs, response'[p] = "Busy"
                   PROVE  SaidBusy(p)'
        BY <1>1 DEF Hears
      <3>1. WaitAnswered(p)
        BY <1>1, <1>4 DEF WaitReadError
      <3>2. rep # NoRep /\ rep.code = "Busy"
        BY <3>1 DEF WaitAnswered, TypeOK, LocalTypes
      <3>3. Quiet /\ rep.txn = txn[p]
        BY <1>1, <1>2, <3>2 DEF Waits, Answered
      <3>4. rep = [code |-> "Busy", txn |-> txn[p]]
        BY <3>2, <3>3 DEF TypeOK, MailboxTypes
      <3> QED BY <1>1, <3>3, <3>4 DEF SaidBusy, Quiet, mailbox
    <2> QED BY <2>1, <2>2, <2>3 DEF Mine, SetUp, Setup, RawOwn, Writes, Rings, Waits
  <1> QED BY <1>3, <1>4

\* A result is read back, or the error flag is set.
LEMMA ReadBackTurn ==
    ASSUME TypeOK, Turns, NEW p \in Procs, ReadBack(p), clean[p]
    PROVE  Mine(p)'
  <1>1. pc[p] = "readback" /\ pc'[p] \in {"readback", "finish"}
        /\ UNCHANGED <<kind, txn, response, mailbox>>
    BY DEF ReadBack, Goto, TypeOK, LocalTypes
  <1>2. Reads(p)'
    <2> SUFFICES ASSUME kind[p] = "req", ~smn_io_error'[p], response[p] = "OK"
                 PROVE  /\ Quiet /\ runs[txn[p]] = 1
                        /\ \A j \in Args : arg[j] = Res(txn[p])
                        /\ \A j \in Args : (pc'[p] = "readback" => j < i'[p])
                                             => ResultOf(p, args'[p][j])
      BY <1>1 DEF Reads, ResultOf, Quiet, mailbox
    <2>1. /\ ~smn_io_error[p]
          /\ \/ args' = [args EXCEPT ![p][i[p]] = arg[i[p]]]
             \/ p \in PciProcs /\ args' = [args EXCEPT ![p][i[p]] = Junk]
      BY DEF ReadBack, smn_reg_read, smn_io_set_error, TypeOK, LocalTypes
    <2>2. /\ Quiet /\ runs[txn[p]] = 1
          /\ \A j \in Args : arg[j] = Res(txn[p])
          /\ \A j \in Args : j < i[p] => ResultOf(p, args[p][j])
      BY <1>1, <2>1 DEF Turns, Mine, Reads
    <2>3. i[p] \in Args
      BY DEF TypeOK, LocalTypes
    <2>4. \A j \in Args : (j < i[p] \/ j = i[p]) => ResultOf(p, args'[p][j])
      <3> SUFFICES ASSUME NEW j \in Args, j < i[p] \/ j = i[p] PROVE ResultOf(p, args'[p][j])
        OBVIOUS
      <3>1. CASE j = i[p]
        BY <2>1, <2>2, <3>1 DEF ResultOf, TypeOK, LocalTypes
      <3>2. CASE j # i[p]
        <4>1. args'[p][j] = args[p][j]
          BY <2>1, <2>3, <3>2 DEF TypeOK, LocalTypes
        <4> QED BY <2>2, <3>2, <4>1
      <3> QED BY <3>1, <3>2
    <2>5. CASE i[p] < LastArg
      <3>1. pc'[p] = "readback" /\ i'[p] = i[p] + 1
        BY <2>5 DEF ReadBack, Goto, TypeOK, LocalTypes
      <3>2. \A j \in Args : j < i[p] + 1 => (j < i[p] \/ j = i[p])
        BY <2>3, BoundsAssumption DEF Args
      <3> QED BY <2>2, <2>4, <3>1, <3>2
    <2>6. CASE ~(i[p] < LastArg)
      <3>1. \A j \in Args : j < i[p] \/ j = i[p]
        BY <2>3, <2>6, BoundsAssumption DEF Args
      <3> QED BY <2>2, <2>4, <3>1
    <2> QED BY <2>5, <2>6
  <1>3. Hears(p)'
    BY <1>1 DEF Turns, Mine, Hears, SaidBusy, Quiet, mailbox
  <1> QED BY <1>1, <1>2, <1>3 DEF Mine, SetUp, Setup, RawOwn, Writes, Rings, Waits

\* The firmware has nothing to start during the setup or after the answer.
LEMMA SmuStartTurn ==
    ASSUME TypeOK, OnceInv, Turns, SmuStart, NEW p \in Procs, clean[p]
    PROVE  Mine(p)'
  <1>1. msg # 0 /\ exec.msg = 0 /\ msg \in Txns /\ runs[msg] = 0 /\ ~Quiet
    BY DEF SmuStart, OnceInv, TypeOK, MailboxTypes, Txns, Quiet
  <1>2. UNCHANGED <<pc, kind, txn, i, args, response, smn_io_error, rep, arg, slot>>
    BY DEF SmuStart, locals
  <1>3. Mine(p)
    BY DEF Turns
  <1>4. pc[p] \notin Setup /\ ~Answered(p)
    BY <1>1, <1>3 DEF Mine, SetUp, Answered
  <1>5. SetUp(p)' /\ Writes(p)' /\ Rings(p)'
    BY <1>2, <1>4 DEF SetUp, Writes, Rings, Setup
  <1>6. RawOwn(p)'
    BY <1>1, <1>2, <1>3 DEF Mine, RawOwn, SaidBusy, SmuStart, TypeOK, MailboxTypes
  <1>7. Waits(p)'
    BY <1>1, <1>2, <1>3, <1>4 DEF Mine, Waits, SmuStart
  <1>8. Reads(p)' /\ Hears(p)'
    BY <1>1, <1>2, <1>3 DEF Mine, Reads, Hears, SaidBusy
  <1> QED BY <1>5, <1>6, <1>7, <1>8 DEF Mine

LEMMA SmuAnswerTurn ==
    ASSUME TypeOK, ExecRan, Turns, NEW c \in Answers, SmuAnswer(c), NEW p \in Procs, clean[p]
    PROVE  Mine(p)'
  <1>1. exec.msg # 0 /\ ~Quiet /\ runs[exec.msg] = 1
    BY DEF SmuAnswer, Quiet, ExecRan
  <1>2. UNCHANGED <<pc, kind, txn, i, args, response, smn_io_error, slot, runs, msg>>
    BY DEF SmuAnswer, locals
  <1>3. Mine(p)
    BY DEF Turns
  <1>4. pc[p] \notin Setup
    BY <1>1, <1>3 DEF Mine, SetUp
  <1>5. SetUp(p)' /\ Writes(p)' /\ Rings(p)'
    BY <1>2, <1>4 DEF SetUp, Writes, Rings, Setup
  <1>6. RawOwn(p)'
    BY <1>1, <1>2, <1>3 DEF Mine, RawOwn, SaidBusy
  <1>7. ASSUME pc[p] = "wait" PROVE Waits(p)'
    <2>1. exec.msg = txn[p] /\ msg = 0
      BY <1>1, <1>3, <1>7 DEF Mine, Waits
    <2>2. exec'.msg = 0 /\ rep'.code = c /\ rep'.txn = txn[p]
          /\ (c = "OK" => \A j \in Args : arg'[j] = Res(txn[p]))
      BY <2>1 DEF SmuAnswer, NoCmd
    <2>3. Answered(p)'
      BY <1>1, <1>2, <2>1, <2>2 DEF Answered, Quiet
    <2> QED BY <1>2, <2>1, <2>2, <2>3 DEF Waits
  <1>8. Waits(p)'
    BY <1>2, <1>7 DEF Waits
  <1>9. Reads(p)' /\ Hears(p)'
    BY <1>1, <1>2, <1>3 DEF Mine, Reads, Hears, SaidBusy
  <1> QED BY <1>5, <1>6, <1>8, <1>9 DEF Mine

LEMMA TurnsStep ==
    ASSUME LockProcs = Procs, TypeOK, LockHeldInside, OnceInv, ExecRan, Stages, Turns,
           [Next]_vars
    PROVE  Turns'
  <1>1. LocalTypes
    BY DEF TypeOK
  <1> USE <1>1
  <1>2. ASSUME NEW p \in Procs, NEW k \in Kinds, Call(p, k) PROVE Turns'
    BY <1>2, NoTurn DEF Call, Goto, LocalTypes
  <1>3. ASSUME NEW p \in Procs, LockTimeout(p) PROVE Turns'
    BY <1>3, NoTurn DEF LockTimeout, Goto, LocalTypes
  <1>4. ASSUME NEW p \in Procs, Return(p) \/ Crash(p) PROVE Turns'
    BY <1>4, NoTurn DEF Return, Crash, Forget, smn_io_take_error, LocalTypes
  <1>5. ASSUME NEW p \in Procs, LockAcquire(p) \/ LockUnavailable(p) PROVE Turns'
    <2>1. /\ flock = NoProc /\ pc' = [pc EXCEPT ![p] = "raw"]
          /\ clean' = [clean EXCEPT ![p] = Quiet] /\ UNCHANGED mailbox
      BY <1>5 DEF LockAcquire, LockUnavailable, Begin, Goto
    <2>2. \A q \in Procs : pc[q] \notin Inside
      BY <2>1, ProcsAssumption DEF LockHeldInside
    <2>3. \A q \in Procs \ {p} : Mine(q)'
      BY <2>1, <2>2, Outside DEF LocalTypes
    <2>4. clean'[p] => Mine(p)'
      BY <2>1 DEF LocalTypes, mailbox, Quiet, Mine, SetUp, RawOwn, Writes, Rings, Waits, Reads,
                  Hears
    <2> QED BY <2>3, <2>4 DEF Turns
  <1>6. ASSUME NEW p \in Procs, RawWrite(p) PROVE Turns'
    BY <1>6, RawWriteTurn, OwnTurn DEF RawWrite, Goto, Inside
  <1>7. ASSUME NEW p \in Procs, RawUnavailable(p) PROVE Turns'
    BY <1>7, RawUnavailableTurn, OwnTurn DEF RawUnavailable, Goto, Inside
  <1>8. ASSUME NEW p \in Procs, ClearRep(p) PROVE Turns'
    BY <1>8, ClearRepTurn, OwnTurn DEF ClearRep, Goto, Inside
  <1>9. ASSUME NEW p \in Procs, WriteArg(p) PROVE Turns'
    BY <1>9, WriteArgTurn, OwnTurn DEF WriteArg, Goto, Inside
  <1>10. ASSUME NEW p \in Procs, NEW at \in Inside, NEW c, ReturnCode(p, at, c) PROVE Turns'
    BY <1>10, TurnEnds DEF ReturnCode, Goto
  <1>11. ASSUME NEW p \in Procs, RawWriteError(p) \/ RawRead(p) \/ WaitTimeout(p) \/ Finish(p)
         PROVE  Turns'
    BY <1>10, <1>11 DEF RawWriteError, RawRead, WaitTimeout, Finish, Inside
  <1>12. ASSUME NEW p \in Procs, CheckWrites(p) \/ VerifyArg(p) PROVE Turns'
    <2>1. CASE Goto(p, "check", "ring") \/ Goto(p, "verify", "ring")
      <3>1. pc'[p] = "ring" /\ pc[p] \in Inside /\ pc' = [pc EXCEPT ![p] = "ring"]
            /\ UNCHANGED clean
        BY <1>12, <2>1 DEF CheckWrites, VerifyArg, Goto, Inside, LocalTypes
      <3> QED BY <1>12, <3>1, ToDoorbellTurn, OwnTurn
    <2>2. CASE ReturnCode(p, "check", "Failed") \/ ReturnCode(p, "verify", "Failed")
      BY <1>10, <2>2 DEF Inside
    <2> QED BY <1>12, <2>1, <2>2 DEF CheckWrites, VerifyArg, smn_reg_read
  <1>13. ASSUME NEW p \in Procs, RingDoorbell(p) PROVE Turns'
    BY <1>13, RingDoorbellTurn, OwnTurn DEF RingDoorbell, Goto, Inside
  <1>14. ASSUME NEW p \in Procs, WaitAnswered(p) PROVE Turns'
    BY <1>14, WaitTurn, OwnTurn DEF WaitAnswered, Goto, Inside
  <1>15. ASSUME NEW p \in Procs, WaitReadError(p) PROVE Turns'
    <2>1. pc[p] = "wait" /\ UNCHANGED clean
      BY <1>15 DEF WaitReadError, Goto
    <2>2. \E to : pc' = [pc EXCEPT ![p] = to]
      <3>1. pc' = pc => pc' = [pc EXCEPT ![p] = "wait"]
        BY <2>1 DEF LocalTypes
      <3> QED BY <1>15, <3>1 DEF WaitReadError, Goto
    <2> QED BY <1>15, <2>1, <2>2, WaitTurn, OwnTurn DEF Inside
  <1>16. ASSUME NEW p \in Procs, ReadBack(p) PROVE Turns'
    BY <1>16, ReadBackTurn, OwnTurn DEF ReadBack, Goto, Inside
  <1>17. CASE Smu
    <2>1. UNCHANGED clean
      BY <1>17 DEF Smu, SmuStart, SmuAnswer, locals
    <2> QED BY <1>17, <2>1, SmuStartTurn, SmuAnswerTurn DEF Smu, Turns
  <1>18. CASE UNCHANGED vars
    BY <1>18 DEF vars, locals, mailbox, Turns, Mine, SetUp, RawOwn, Writes, Rings, Waits, Reads,
                 Hears, Answered, SaidBusy, ResultOf, Quiet
  <1> QED BY <1>2, <1>3, <1>4, <1>5, <1>6, <1>7, <1>8, <1>9, <1>11, <1>12, <1>13, <1>14,
             <1>15, <1>16, <1>17, <1>18 DEF Next, Step, Done

-----------------------------------------------------------------------------
\* A step that leaves a call returning found it so, or is one of its ways out.
LEMMA ToReturn ==
    ASSUME TypeOK, [Next]_vars, NEW q \in Procs, pc'[q] = "ret"
    PROVE  \/ /\ pc[q] = "ret" /\ kind'[q] = kind[q] /\ txn'[q] = txn[q]
              /\ args'[q] = args[q] /\ response'[q] = response[q] /\ clean'[q] = clean[q]
           \/ LockTimeout(q) \/ RawWriteError(q) \/ RawRead(q) \/ CheckWrites(q)
           \/ VerifyArg(q) \/ WaitTimeout(q) \/ Finish(q)
  <1> DEFINE Kept == /\ pc[q] = "ret" /\ kind'[q] = kind[q] /\ txn'[q] = txn[q]
                     /\ args'[q] = args[q] /\ response'[q] = response[q]
                     /\ clean'[q] = clean[q]
  <1> USE DEF TypeOK, LocalTypes
  <1>1. ASSUME NEW p \in Procs, NEW k \in Kinds, Call(p, k) PROVE Kept
    BY <1>1 DEF Call, Goto
  <1>2. ASSUME NEW p \in Procs, Return(p) \/ Crash(p) PROVE Kept
    BY <1>2 DEF Return, Crash, Forget
  <1>3. ASSUME NEW p \in Procs, LockAcquire(p) \/ LockUnavailable(p) PROVE Kept
    BY <1>3 DEF LockAcquire, LockUnavailable, Begin, Goto
  <1>4. ASSUME NEW p \in Procs, RawWrite(p) \/ RawUnavailable(p) \/ ClearRep(p) PROVE Kept
    BY <1>4 DEF RawWrite, RawUnavailable, ClearRep, Goto
  <1>5. ASSUME NEW p \in Procs, WriteArg(p) \/ RingDoorbell(p) PROVE Kept
    BY <1>5 DEF WriteArg, RingDoorbell, Goto
  <1>6. ASSUME NEW p \in Procs, WaitAnswered(p) \/ WaitReadError(p) PROVE Kept
    BY <1>6 DEF WaitAnswered, WaitReadError, Goto
  <1>7. ASSUME NEW p \in Procs, ReadBack(p) PROVE Kept
    <2>1. q # p
      BY <1>7 DEF ReadBack, Goto
    <2>2. args'[q] = args[q]
      BY <1>7, <2>1 DEF ReadBack, smn_reg_read
    <2> QED BY <1>7, <2>1, <2>2 DEF ReadBack, Goto
  <1>8. ASSUME NEW p \in Procs, p # q,
               \/ LockTimeout(p) \/ RawWriteError(p) \/ RawRead(p) \/ CheckWrites(p)
               \/ VerifyArg(p) \/ WaitTimeout(p) \/ Finish(p)
        PROVE  Kept
    <2> USE <1>8
    <2>1. CASE LockTimeout(p) \/ RawWriteError(p)
      BY <2>1 DEF LockTimeout, RawWriteError, ReturnCode, Goto
    <2>2. CASE RawRead(p)
      BY <2>2 DEF RawRead, ReturnCode, Goto
    <2>3. CASE CheckWrites(p) \/ VerifyArg(p)
      BY <2>3 DEF CheckWrites, VerifyArg, smn_reg_read, ReturnCode, Goto
    <2>4. CASE WaitTimeout(p) \/ Finish(p)
      BY <2>4 DEF WaitTimeout, Finish, ReturnCode, Goto
    <2> QED BY <2>1, <2>2, <2>3, <2>4
  <1>9. CASE Smu \/ UNCHANGED vars
    BY <1>9 DEF Smu, SmuStart, SmuAnswer, vars, locals
  <1> QED BY <1>1, <1>2, <1>3, <1>4, <1>5, <1>6, <1>7, <1>8, <1>9 DEF Next, Step, Done

\* A command that has run once stays so.
LEMMA RunsStay ==
    ASSUME TypeOK, OnceInv, [Next]_vars, NEW t \in Txns, runs[t] = 1
    PROVE  runs'[t] = 1
  <1>1. OnceInv'
    BY OnceNext
  <1>2. runs'[t] <= 1
    BY <1>1 DEF OnceInv
  <1>3. runs' = runs \/ \E u : runs' = [runs EXCEPT ![u] = @ + 1]
    <2>1. ASSUME NEW p \in Procs, RawWrite(p) \/ RawWriteError(p)
          PROVE  runs' = runs \/ runs' = [runs EXCEPT ![txn[p]] = @ + 1]
      BY <2>1, DriverSends DEF RawWrite, RawWriteError
    <2>2. CASE SmuStart
      BY <2>2 DEF SmuStart
    <2>3. ASSUME NEW c \in Answers, SmuAnswer(c) PROVE runs' = runs
      BY <2>3 DEF SmuAnswer
    <2>4. ASSUME NEW p \in Procs, NEW k \in Kinds, Call(p, k) PROVE runs' = runs
      BY <2>4 DEF Call, mailbox
    <2>5. ASSUME NEW p \in Procs, Step(p), ~RawWrite(p), ~RawWriteError(p) PROVE runs' = runs
      BY <2>5 DEF Step, LockAcquire, LockUnavailable, LockTimeout, Begin, RawUnavailable, RawRead,
                  ClearRep, WriteArg, CheckWrites, VerifyArg, RingDoorbell, WaitAnswered,
                  WaitTimeout, ReadBack, Finish, Return, mailbox
    <2>6. ASSUME NEW p \in Procs, WaitReadError(p) \/ Crash(p) PROVE runs' = runs
      BY <2>6 DEF WaitReadError, Crash, mailbox
    <2>7. CASE UNCHANGED vars
      BY <2>7 DEF vars, mailbox
    <2> QED BY <2>1, <2>2, <2>3, <2>4, <2>5, <2>6, <2>7 DEF Next, Smu, Done
  <1>4. runs[t] \in Nat
    BY DEF TypeOK, MailboxTypes
  <1>5. runs'[t] = 1 \/ runs'[t] = 2
    BY <1>3 DEF TypeOK, MailboxTypes
  <1> QED BY <1>2, <1>5

LEMMA OkStep ==
    ASSUME TypeOK, OnceInv, Stages, Turns, OkIsOwn, [Next]_vars
    PROVE  OkIsOwn'
  <1> SUFFICES ASSUME NEW q \in Procs, pc'[q] = "ret", kind'[q] = "req", clean'[q],
                      response'[q] = "OK"
               PROVE  /\ runs'[txn'[q]] = 1
                      /\ txn'[q] = txn[q] /\ \A j \in Args : ResultOf(q, args'[q][j])
    BY DEF OkIsOwn, ResultOf
  <1>1. LocalTypes
    BY DEF TypeOK
  <1>2. CASE /\ pc[q] = "ret" /\ kind'[q] = kind[q] /\ txn'[q] = txn[q]
             /\ args'[q] = args[q] /\ response'[q] = response[q] /\ clean'[q] = clean[q]
    BY <1>2, RunsStay DEF OkIsOwn, OnceInv, Calls
  <1>3. CASE RawRead(q)
    <2>1. pc[q] = "rawread" /\ UNCHANGED <<kind, txn, clean, runs>>
      BY <1>3 DEF RawRead, ReturnCode, Goto, mailbox
    <2>2. slot.code = "OK" /\ args' = [args EXCEPT ![q] = [j \in Args |-> Res(slot.txn)]]
      BY <1>1, <1>3 DEF RawRead, ReturnCode, LocalTypes
    <2>3. slot.txn = txn[q] /\ runs[txn[q]] = 1
      BY <2>1, <2>2 DEF Turns, Mine, RawOwn
    <2> QED BY <1>1, <2>1, <2>2, <2>3 DEF LocalTypes, ResultOf
  <1>4. CASE Finish(q)
    <2>1. pc[q] = "finish" /\ UNCHANGED <<kind, txn, args, clean, runs>>
      BY <1>4 DEF Finish, ReturnCode, Goto, mailbox
    <2>2. response[q] = "OK" /\ ~smn_io_error[q]
      BY <1>1, <1>4, <2>1 DEF Finish, ReturnCode, LocalTypes
    <2>3. runs[txn[q]] = 1 /\ \A j \in Args : ResultOf(q, args[q][j])
      BY <2>1, <2>2 DEF Turns, Mine, Reads
    <2> QED BY <2>1, <2>3
  <1>5. ASSUME LockTimeout(q) \/ RawWriteError(q) \/ CheckWrites(q) \/ VerifyArg(q)
               \/ WaitTimeout(q)
        PROVE  FALSE
    BY <1>1, <1>5 DEF LockTimeout, RawWriteError, CheckWrites, VerifyArg, smn_reg_read,
                      WaitTimeout, ReturnCode, Goto, LocalTypes
  <1> QED BY <1>2, <1>3, <1>4, <1>5, ToReturn

\* A call that is told Busy is refused at the lock, or hears the SMU's own answer.
LEMMA BusyStep ==
    ASSUME Inv, [Next]_vars, NEW q \in Procs,
           pc[q] # "ret", pc'[q] = "ret", response'[q] = "Busy",
           pc[q] = "lock" \/ (kind[q] = "req" /\ clean[q] /\ q \notin PciProcs)
    PROVE  \/ runs[txn[q]] = 0 /\ msg # txn[q] /\ exec.msg # txn[q]
           \/ rep = [code |-> "Busy", txn |-> txn[q]]
  <1>1. TypeOK /\ LocalTypes /\ MailboxTypes /\ OnceInv /\ ExecRan /\ Stages /\ Turns
    BY DEF Inv, TypeOK
  <1>2. CASE LockTimeout(q)
    <2>1. pc[q] = "lock"
      BY <1>2 DEF LockTimeout, Goto
    <2>2. txn[q] \in Txns /\ Unsent(txn[q])
      BY <1>1, <2>1 DEF OnceInv, Calls, BeforeDoorbell
    <2>3. exec.msg # txn[q]
      BY <1>1, <2>2, BoundsAssumption DEF ExecRan, Unsent, Txns
    <2> QED BY <2>2, <2>3 DEF Unsent
  <1>3. CASE RawRead(q)
    <2>1. pc[q] = "rawread"
      BY <1>3 DEF RawRead, ReturnCode, Goto
    <2>2. slot.owner = q
      BY <1>1, <2>1 DEF Stages
    <2>3. slot.code = "Busy"
      BY <1>1, <1>3, <2>2 DEF RawRead, ReturnCode, LocalTypes
    <2> QED BY <1>1, <2>1, <2>3 DEF Turns, Mine, RawOwn, SaidBusy
  <1>4. CASE Finish(q)
    <2>1. pc[q] = "finish"
      BY <1>4 DEF Finish, ReturnCode, Goto
    <2>2. response[q] = "Busy"
      BY <1>1, <1>4 DEF Finish, ReturnCode, LocalTypes
    <2> QED BY <1>1, <2>1, <2>2 DEF Turns, Mine, Hears, SaidBusy
  <1>5. ASSUME RawWriteError(q) \/ CheckWrites(q) \/ VerifyArg(q) \/ WaitTimeout(q)
        PROVE  FALSE
    BY <1>1, <1>5 DEF RawWriteError, CheckWrites, VerifyArg, smn_reg_read, WaitTimeout,
                      ReturnCode, Goto, LocalTypes
  <1> QED BY <1>1, <1>2, <1>3, <1>4, <1>5, ToReturn

-----------------------------------------------------------------------------
LEMMA InvStep == ASSUME LockProcs = Procs, Inv, [Next]_vars PROVE Inv'
  <1>1. TypeOK /\ LockHeldInside /\ OnceInv /\ ExecRan /\ Stages /\ Turns /\ OkIsOwn
    BY DEF Inv
  <1>2. Numbered
    BY <1>1 DEF OnceInv, Calls, Numbered
  <1>3. TypeOK' /\ LockHeldInside' /\ OnceInv' /\ ExecRan'
    BY <1>1, <1>2, TypeNext, LockNext, OnceNext, ExecRanStep
  <1>4. Stages' /\ Turns'
    BY <1>1, StagesStep, TurnsStep
  <1>5. OkIsOwn'
    BY <1>1, OkStep
  <1> QED BY <1>3, <1>4, <1>5 DEF Inv

LEMMA InvAlways == ASSUME LockProcs = Procs PROVE Spec => []Inv
  <1>1. Inv /\ [Next]_vars => Inv'
    BY InvStep
  <1> QED BY <1>1, InvInit, PTL DEF Spec

\* In every behaviour, a call that returns CmdRejectedBusy without having had its turn
\* has not reached the SMU and never will (nb_smu_ops.c:174-175), and a request that had
\* it, in a turn that began with nothing owed and not over PCI, is told what the SMU
\* answered to this very command (nb_smu_ops.c:153-155), never the EAGAIN of a driver
\* slot that somebody else has overwritten.
THEOREM BusyCorrect == ASSUME LockProcs = Procs PROVE Spec => BusyIsTrue
  <1>1. Inv /\ [Next]_vars =>
          [\A p \in Procs :
             (/\ pc[p] # "ret" /\ pc'[p] = "ret" /\ response'[p] = "Busy"
              /\ pc[p] = "lock" \/ (kind[p] = "req" /\ clean[p] /\ p \notin PciProcs))
               => \/ runs[txn[p]] = 0 /\ msg # txn[p] /\ exec.msg # txn[p]
                  \/ rep = [code |-> "Busy", txn |-> txn[p]]]_vars
    BY BusyStep
  <1> QED BY <1>1, InvAlways, PTL DEF Spec, BusyIsTrue

\* In every behaviour, a request that is answered OK in a turn that began with nothing
\* owed has run once and brings its own results, whoever was killed and whatever
\* accesses failed on the way; only over PCI, where a failed data read sets no flag
\* (osdep_linux_mem.c:157), may one of them be all ones instead (nb_smu_ops.c:213-230).
THEOREM OkCorrect == ASSUME LockProcs = Procs PROVE Spec => []OkIsOwn
  <1>1. Inv => OkIsOwn
    BY DEF Inv
  <1> QED BY <1>1, InvAlways, PTL

\* In every behaviour, the SMU runs the command of such a turn with the arguments of
\* that command (nb_smu_ops.c:184-205).
THEOREM ArgumentsCorrect == ASSUME LockProcs = Procs PROVE Spec => []OwnArguments
  <1>1. Inv => OwnArguments
    <2> SUFFICES ASSUME Inv, NEW p \in Procs, pc[p] = "wait", clean[p], exec.msg = txn[p]
                 PROVE  \A j \in ArgsOf(kind[p]) : exec.args[j] = Arg(txn[p])
      BY DEF OwnArguments
    <2>1. txn[p] # 0
      BY BoundsAssumption DEF Inv, OnceInv, Calls, Txns
    <2> QED BY <2>1 DEF Inv, Turns, Mine, Waits
  <1> QED BY <1>1, InvAlways, PTL

-----------------------------------------------------------------------------
\* SmuService is implemented: what the refinement mapping makes of each step.

Owed == {msg, exec.msg} \ {0}
Ran == {t \in Txns : runs[t] # 0}

\* A step after which nobody is told anything else.
LEMMA TellsNothing ==
    ASSUME \A q \in Procs :
               \/ pc[q] # "ret" /\ pc'[q] # "ret"
               \/ pc'[q] = pc[q] /\ response'[q] = response[q] /\ args'[q] = args[q]
                  /\ txn'[q] = txn[q]
    PROVE  Told' = Told
  BY DEF Told

\* A step with which the call of p returns.
LEMMA TellsOne ==
    ASSUME LocalTypes, NEW p \in Procs, pc[p] # "ret", pc' = [pc EXCEPT ![p] = "ret"],
           UNCHANGED txn,
           \A q \in Procs \ {p} : response'[q] = response[q] /\ args'[q] = args[q]
    PROVE  \E own \in BOOLEAN :
               /\ own <=> \A j \in Args : args'[p][j] = Res(txn[p])
               /\ Told' = [Told EXCEPT ![p] = [code |-> response'[p], own |-> own]]
  <1> DEFINE own == \A j \in Args : args'[p][j] = Res(txn[p])
  <1>1. own \in BOOLEAN
    OBVIOUS
  <1>2. Told'[p] = [code |-> response'[p], own |-> own]
    BY DEF Told, LocalTypes
  <1>3. \A q \in Procs \ {p} : Told'[q] = Told[q]
    BY DEF Told, LocalTypes
  <1>4. Told' = [Told EXCEPT ![p] = [code |-> response'[p], own |-> own]]
    <2> HIDE DEF own
    <2> QED BY <1>2, <1>3 DEF Told
  <1> QED BY <1>1, <1>4

\* A step with which p is out of its call.
LEMMA TellsNoMore ==
    ASSUME LocalTypes, NEW p \in Procs, Forget(p)
    PROVE  Told' = [Told EXCEPT ![p] = Service!NoReply]
  <1>1. Told'[p] = Service!NoReply
    BY DEF Told, Forget, LocalTypes, Service!NoReply
  <1>2. \A q \in Procs \ {p} : Told'[q] = Told[q]
    BY DEF Told, Forget, LocalTypes
  <1> QED BY <1>1, <1>2 DEF Told, Service!NoReply

LEMMA WaitingCall ==
    ASSUME OnceInv, NEW p \in Procs, pc[p] \notin {"idle", "ret"}
    PROVE  Service!Waiting(p)
  <1>1. txn[p] # 0
    BY BoundsAssumption DEF OnceInv, Calls, Txns
  <1> QED BY <1>1 DEF Service!Waiting, Service!NoReply, Told

\* A command that is about to be sent is neither owed nor has it run; what is owed and
\* has run is what the SMU works on.
LEMMA BeforeSending ==
    ASSUME TypeOK, OnceInv, ExecRan, NEW p \in Procs, pc[p] \in BeforeDoorbell
    PROVE  /\ txn[p] \in Txns /\ txn[p] # 0
           /\ txn[p] \notin Owed \cup Ran
           /\ Owed \cap Ran = {exec.msg} \ {0}
  <1>1. txn[p] \in Txns /\ runs[txn[p]] = 0 /\ msg # txn[p]
    BY DEF OnceInv, Calls, Unsent, BeforeDoorbell
  <1>2. txn[p] # 0
    BY <1>1, BoundsAssumption DEF Txns
  <1>3. exec.msg # txn[p]
    BY <1>1, <1>2 DEF ExecRan
  <1>4. exec.msg # 0 => exec.msg \in Ran
    BY BoundsAssumption DEF ExecRan, Ran, TypeOK, MailboxTypes, Txns
  <1>5. msg \notin Ran
    BY DEF OnceInv, Ran
  <1> QED BY <1>1, <1>2, <1>3, <1>4, <1>5 DEF Owed, Ran

\* The command goes into the doorbell register, over one that was not started.
LEMMA IntoDoorbell ==
    ASSUME TypeOK, OnceInv, ExecRan, NEW p \in Procs, pc[p] \in BeforeDoorbell,
           msg' = txn[p], runs' = runs, exec' \in {exec, NoCmd}
    PROVE  Service!Sends(txn[p])
  <1>1. /\ txn[p] # 0 /\ txn[p] \notin Owed \cup Ran
        /\ Owed \cap Ran = {exec.msg} \ {0}
    BY BeforeSending
  <1>2. Owed' \in {{txn[p]} \cup (Owed \cap Ran), {txn[p]}}
    BY <1>1 DEF Owed, NoCmd
  <1>3. Ran' = Ran
    BY DEF Ran
  <1> QED BY <1>1, <1>2, <1>3 DEF Service!Sends, Owed, Ran

\* What the driver does with a command is to send it, to run it or nothing.
LEMMA DriverServes ==
    ASSUME TypeOK, OnceInv, ExecRan, NEW p \in Procs, pc[p] = "raw", DriverRuns(p)
    PROVE  \/ Service!Sends(txn[p]) \/ Service!Executes(txn[p])
           \/ UNCHANGED <<Owed, Ran>>
  <1>1. pc[p] \in BeforeDoorbell
    BY DEF BeforeDoorbell
  <1>2. CASE \E c \in Answers : DriverAnswered(p, c)
    <2>1. /\ txn[p] \in Txns /\ txn[p] \notin Owed \cup Ran
          /\ Owed \cap Ran = {exec.msg} \ {0}
      BY <1>1, BeforeSending
    <2>2. exec.msg = 0 /\ exec' = exec /\ msg' = 0 /\ runs' = [runs EXCEPT ![txn[p]] = @ + 1]
      BY <1>2 DEF DriverAnswered
    <2>3. Owed' = {} /\ Owed \cap Ran = {}
      BY <2>1, <2>2 DEF Owed
    <2>4. Ran' = Ran \cup {txn[p]}
      BY <2>1, <2>2 DEF Ran, TypeOK, MailboxTypes
    <2> QED BY <2>1, <2>3, <2>4 DEF Service!Executes, Owed, Ran
  <1>3. CASE \E c \in Answers : DriverAnsweredLate(p, c)
    BY <1>1, <1>3, IntoDoorbell DEF DriverAnsweredLate
  <1>4. CASE DriverTimedOut(p)
    BY <1>1, <1>4, IntoDoorbell DEF DriverTimedOut
  <1>5. CASE DriverFailed(p)
    BY <1>5 DEF DriverFailed, Owed, Ran
  <1> QED BY <1>2, <1>3, <1>4, <1>5 DEF DriverRuns

\* A call that returns from its turn is told the truth.
LEMMA Replies ==
    ASSUME LockProcs = Procs, Inv, OkIsOwn', NEW p \in Procs, pc[p] \in Inside,
           pc' = [pc EXCEPT ![p] = "ret"], smu_unlock(p),
           UNCHANGED <<kind, txn, clean, next>>,
           response'[p] \in Codes,
           \A q \in Procs \ {p} : response'[q] = response[q] /\ args'[q] = args[q],
           \/ UNCHANGED mailbox
           \/ /\ response'[p] = "Failed"
              /\ \/ Service!Sends(txn[p]) \/ Service!Executes(txn[p])
                 \/ UNCHANGED <<Owed, Ran>>
    PROVE  Service!Reply(p)
  <1>1. LocalTypes /\ LockHeldInside /\ OnceInv
    BY DEF Inv, TypeOK
  <1>2. flock = p /\ flock' = NoProc
    BY <1>1 DEF LockHeldInside, smu_unlock
  <1>3. pc[p] \notin {"idle", "ret"}
    BY DEF Inside
  <1>4. Service!Waiting(p)
    BY <1>1, <1>3, WaitingCall
  <1>5. PICK own \in BOOLEAN :
            /\ own <=> \A j \in Args : args'[p][j] = Res(txn[p])
            /\ Told' = [Told EXCEPT ![p] = [code |-> response'[p], own |-> own]]
    BY <1>1, <1>3, TellsOne
  <1>6. Service!Truthful(p, response'[p], own)
    <2> SUFFICES ASSUME response'[p] = "OK", kind[p] = "req", clean[p]
                 PROVE  txn[p] \in Ran /\ (p \in Procs \ PciProcs => own)
      BY DEF Service!Truthful, Ran
    <2>1. /\ runs'[txn[p]] = 1
          /\ p \notin PciProcs => \A j \in Args : args'[p][j] = Res(txn[p])
      BY <1>1 DEF OkIsOwn, ResultOf, LocalTypes
    <2>2. runs' = runs
      BY DEF mailbox
    <2>3. txn[p] \in Txns
      BY <1>1, <1>3 DEF OnceInv, Calls
    <2> QED BY <1>5, <2>1, <2>2, <2>3 DEF Ran
  <1>7. \/ UNCHANGED <<Owed, Ran>>
        \/ response'[p] = "Failed" /\ (Service!Sends(txn[p]) \/ Service!Executes(txn[p]))
    BY DEF mailbox, Owed, Ran
  <1> QED BY <1>2, <1>4, <1>5, <1>6, <1>7 DEF Service!Reply, Owed, Ran

LEMMA ServiceInit == Init => Service!Init
  <1> SUFFICES ASSUME Init PROVE Service!Init
    OBVIOUS
  <1>1. 1 .. next - 1 = {}
    BY DEF Init
  <1>2. Owed = {}
    BY DEF Init, Owed, NoCmd
  <1>3. Ran = {}
    BY DEF Init, Ran
  <1>4. Told = [p \in Procs |-> Service!NoReply]
    BY DEF Init, Told, Service!NoReply
  <1> QED BY <1>1, <1>2, <1>3, <1>4 DEF Init, Service!Init, Owed, Ran

LEMMA ServiceStep ==
    ASSUME LockProcs = Procs, Inv, Inv', [Next]_vars
    PROVE  [Service!Next]_(Service!vars)
  <1>1. /\ LocalTypes /\ MailboxTypes /\ TypeOK /\ LockHeldInside /\ OnceInv /\ ExecRan
        /\ Stages /\ OkIsOwn'
    BY DEF Inv, TypeOK
  <1> USE <1>1
  <1>2. ASSUME UNCHANGED <<txn, kind, next, flock, clean, msg, exec, runs>>, Told' = Told
        PROVE  UNCHANGED Service!vars
    BY <1>2 DEF Service!vars
  <1>3. ASSUME NEW p \in Procs, NEW k \in Kinds, Call(p, k) PROVE Service!Invoke(p, next, k)
    <2>1. pc[p] = "idle" /\ txn[p] = 0
      BY <1>3 DEF Call, Goto, Stages
    <2>2. Told' = Told
      BY <1>3, <2>1, TellsNothing DEF Call, Goto, LocalTypes
    <2>3. next \notin 1 .. next - 1 /\ 1 .. next' - 1 = (1 .. next - 1) \cup {next}
      BY <1>3 DEF Call, MailboxTypes
    <2> QED BY <1>3, <2>1, <2>2, <2>3 DEF Call, mailbox, Service!Invoke
  <1>4. ASSUME NEW p \in Procs, LockAcquire(p) \/ LockUnavailable(p) PROVE Service!Begin(p)
    <2>1. flock = NoProc /\ flock' = p /\ Begin(p)
      BY <1>4 DEF LockAcquire, LockUnavailable
    <2>2. pc[p] = "lock" /\ pc' = [pc EXCEPT ![p] = "raw"]
      BY <2>1 DEF Begin, Goto
    <2>3. Told' = Told
      BY <2>1, <2>2, TellsNothing DEF Begin, LocalTypes
    <2>4. Quiet <=> Owed = {}
      BY DEF Quiet, Owed
    <2>5. clean' = [clean EXCEPT ![p] = Owed = {}]
      BY <2>1, <2>4 DEF Begin
    <2>6. UNCHANGED <<txn, kind, next, mailbox>>
      BY <2>1 DEF Begin
    <2>7. Service!Waiting(p)
      BY <2>2, WaitingCall
    <2> QED BY <2>1, <2>3, <2>5, <2>6, <2>7 DEF Service!Begin, Owed, mailbox
  <1>5. ASSUME NEW p \in Procs, LockTimeout(p) PROVE Service!Refuse(p)
    <2>1. pc[p] = "lock" /\ pc' = [pc EXCEPT ![p] = "ret"] /\ flock # p
          /\ response' = [response EXCEPT ![p] = "Busy"]
          /\ UNCHANGED <<txn, kind, next, args, flock, clean, mailbox>>
      BY <1>5 DEF LockTimeout, Goto
    <2>2. PICK own \in BOOLEAN : Told' = [Told EXCEPT ![p] = [code |-> response'[p], own |-> own]]
      BY <2>1, TellsOne DEF LocalTypes
    <2>3. response'[p] = "Busy"
      BY <2>1 DEF LocalTypes
    <2>4. Service!Waiting(p)
      BY <2>1, WaitingCall
    <2> QED BY <2>1, <2>2, <2>3, <2>4 DEF Service!Refuse, mailbox
  <1>6. ASSUME NEW p \in Procs, RawWrite(p)
        PROVE  Service!Submit(p) \/ UNCHANGED Service!vars
    <2>1. pc[p] = "raw" /\ pc' = [pc EXCEPT ![p] = "rawread"]
          /\ UNCHANGED <<txn, kind, next, args, response, flock, clean>>
      BY <1>6 DEF RawWrite, Goto
    <2>2. Told' = Told
      BY <2>1, TellsNothing DEF LocalTypes
    <2>3. \/ Service!Sends(txn[p]) \/ Service!Executes(txn[p])
          \/ UNCHANGED <<Owed, Ran>>
      BY <1>6, <2>1, DriverServes DEF RawWrite
    <2>4. Service!Waiting(p) /\ flock = p
      BY <2>1, WaitingCall DEF LockHeldInside, Inside
    <2> QED BY <2>1, <2>2, <2>3, <2>4 DEF Service!Submit, Service!vars, Owed, Ran
  <1>7. ASSUME NEW p \in Procs, RingDoorbell(p)
        PROVE  Service!Submit(p) \/ UNCHANGED Service!vars
    <2>1. pc[p] = "ring" /\ pc' = [pc EXCEPT ![p] = "wait"]
          /\ UNCHANGED <<txn, kind, next, args, response, flock, clean, exec, runs>>
      BY <1>7 DEF RingDoorbell, Goto
    <2>2. Told' = Told
      BY <2>1, TellsNothing DEF LocalTypes
    <2>3. CASE msg' = msg
      BY <1>2, <2>1, <2>2, <2>3
    <2>4. CASE msg' = txn[p]
      <3>1. Service!Sends(txn[p])
        BY <2>1, <2>4, IntoDoorbell DEF BeforeDoorbell
      <3>2. Service!Waiting(p) /\ flock = p
        BY <2>1, WaitingCall DEF LockHeldInside, Inside
      <3> QED BY <2>1, <2>2, <3>1, <3>2 DEF Service!Submit
    <2> QED BY <1>7, <2>3, <2>4 DEF RingDoorbell, smn_reg_write
  <1>8. ASSUME NEW p \in Procs, RawWriteError(p) PROVE Service!Reply(p)
    <2>1. pc[p] = "raw" /\ ReturnCode(p, "raw", "Failed")
          /\ UNCHANGED <<txn, kind, next, args, clean>>
      BY <1>8 DEF RawWriteError, ReturnCode, Goto
    <2>2. \/ UNCHANGED mailbox
          \/ Service!Sends(txn[p]) \/ Service!Executes(txn[p]) \/ UNCHANGED <<Owed, Ran>>
      BY <1>8, <2>1, DriverServes DEF RawWriteError
    <2>3. response'[p] = "Failed"
          /\ \A q \in Procs \ {p} : response'[q] = response[q] /\ args'[q] = args[q]
      BY <2>1 DEF ReturnCode, LocalTypes
    <2> QED BY <2>1, <2>2, <2>3, Replies DEF ReturnCode, Goto, Inside, Codes, Answers
  <1>9. ASSUME NEW p \in Procs, NEW at \in Inside, NEW c \in Codes,
               ReturnCode(p, at, c), UNCHANGED <<txn, kind, next, clean, mailbox>>,
               \A q \in Procs \ {p} : args'[q] = args[q]
        PROVE  Service!Reply(p)
    <2>1. response'[p] = c /\ \A q \in Procs \ {p} : response'[q] = response[q]
      BY <1>9 DEF ReturnCode, LocalTypes
    <2> QED BY <1>9, <2>1, Replies DEF ReturnCode, Goto
  <1>10. ASSUME NEW p \in Procs, RawRead(p) PROVE Service!Reply(p)
    <2>1. pc[p] = "rawread" /\ "rawread" \in Inside /\ UNCHANGED <<txn, kind, next, clean, mailbox>>
      BY <1>10 DEF RawRead, ReturnCode, Goto, Inside
    <2>2. slot.owner = p /\ slot.code \in Codes /\ "Failed" \in Codes
      BY <2>1 DEF Stages, MailboxTypes, Codes, Answers
    <2>3. \A q \in Procs \ {p} : args'[q] = args[q]
      BY <1>10 DEF RawRead, LocalTypes
    <2>4. ReturnCode(p, "rawread", "Failed") \/ ReturnCode(p, "rawread", slot.code)
      BY <1>10, <2>2 DEF RawRead
    <2> QED BY <1>9, <2>1, <2>2, <2>3, <2>4
  <1>11. ASSUME NEW p \in Procs, WaitTimeout(p) PROVE Service!Reply(p)
    BY <1>9, <1>11 DEF WaitTimeout, Inside, Codes
  <1>12. ASSUME NEW p \in Procs, Finish(p) PROVE Service!Reply(p)
    <2>1. /\ pc[p] = "finish" /\ "finish" \in Inside
          /\ UNCHANGED <<args, txn, kind, next, clean, mailbox>>
      BY <1>12 DEF Finish, ReturnCode, Goto, Inside
    <2>2. response[p] \in Codes /\ "Failed" \in Codes
      BY DEF LocalTypes, Codes, Answers
    <2>3. ReturnCode(p, "finish", "Failed") \/ ReturnCode(p, "finish", response[p])
      BY <1>12 DEF Finish
    <2> QED BY <1>9, <2>1, <2>2, <2>3
  <1>13. ASSUME NEW p \in Procs, CheckWrites(p) \/ VerifyArg(p)
         PROVE  Service!Reply(p) \/ UNCHANGED Service!vars
    <2>1. UNCHANGED <<args, txn, kind, next, clean, mailbox>>
      BY <1>13 DEF CheckWrites, VerifyArg
    <2>2. CASE ReturnCode(p, "check", "Failed") \/ ReturnCode(p, "verify", "Failed")
      <3>1. {"check", "verify"} \subseteq Inside /\ "Failed" \in Codes
        BY DEF Inside, Codes, Answers
      <3> QED BY <1>9, <2>1, <2>2, <3>1
    <2>3. CASE (Goto(p, "check", "ring") \/ Goto(p, "verify", "ring"))
               /\ UNCHANGED <<response, flock>>
      <3>1. Told' = Told
        BY <2>1, <2>3, TellsNothing DEF Goto, LocalTypes
      <3> QED BY <1>2, <2>1, <2>3, <3>1 DEF mailbox
    <2> QED BY <1>13, <2>2, <2>3 DEF CheckWrites, VerifyArg, smn_reg_read
  <1>14. ASSUME NEW p \in Procs,
                \/ RawUnavailable(p) \/ ClearRep(p) \/ WriteArg(p) \/ WaitAnswered(p)
                \/ WaitReadError(p) \/ ReadBack(p)
         PROVE  UNCHANGED Service!vars
    <2>1. UNCHANGED <<txn, kind, next, flock, clean, msg, exec, runs>>
      BY <1>14 DEF RawUnavailable, ClearRep, WriteArg, WaitAnswered, WaitReadError, ReadBack,
                   mailbox
    <2>2. pc[p] # "ret" /\ pc'[p] # "ret" /\ \A q \in Procs \ {p} : pc'[q] = pc[q]
      BY <1>14 DEF RawUnavailable, ClearRep, WriteArg, WaitAnswered, WaitReadError, ReadBack,
                   Goto, LocalTypes
    <2>3. \A q \in Procs \ {p} : response'[q] = response[q]
      BY <1>14 DEF RawUnavailable, ClearRep, WriteArg, WaitAnswered, WaitReadError, ReadBack,
                   LocalTypes
    <2>4. \A q \in Procs \ {p} : args'[q] = args[q]
      <3>1. CASE ReadBack(p)
        BY <3>1 DEF ReadBack, smn_reg_read, LocalTypes
      <3>2. CASE ~ReadBack(p)
        BY <1>14, <3>2 DEF RawUnavailable, ClearRep, WriteArg, WaitAnswered, WaitReadError
      <3> QED BY <3>1, <3>2
    <2>5. Told' = Told
      BY <2>1, <2>2, <2>3, <2>4, TellsNothing
    <2> QED BY <1>2, <2>1, <2>5
  <1>15. ASSUME NEW p \in Procs, Return(p) \/ Crash(p) PROVE Service!Leave(p)
    <2>1. pc[p] # "idle" /\ Forget(p) /\ UNCHANGED <<mailbox, next>>
      BY <1>15 DEF Return, Crash
    <2>2. txn[p] # 0
      BY <2>1, BoundsAssumption DEF OnceInv, Calls, Txns
    <2>3. flock' = IF flock = p THEN NoProc ELSE flock
      <3>1. CASE Return(p)
        BY <3>1 DEF Return, LockHeldInside, Inside
      <3>2. CASE Crash(p)
        BY <3>2 DEF Crash, smu_unlock
      <3> QED BY <1>15, <3>1, <3>2
    <2>4. Told' = [Told EXCEPT ![p] = Service!NoReply]
      BY <2>1, TellsNoMore
    <2> QED BY <2>1, <2>2, <2>3, <2>4 DEF Forget, mailbox, Service!Leave
  <1>16. ASSUME SmuStart PROVE \E t \in Txns : Service!Run(t)
    <2>1. msg \in Txns /\ runs[msg] = 0 /\ msg # 0 /\ exec.msg = 0
      BY <1>16 DEF SmuStart, OnceInv, MailboxTypes, Txns
    <2>2. Told' = Told
      BY <1>16, TellsNothing DEF SmuStart, locals
    <2>3. msg \in Owed \ Ran
      BY <2>1 DEF Owed, Ran
    <2>4. Ran' = Ran \cup {msg}
      BY <1>16, <2>1 DEF SmuStart, Ran, MailboxTypes
    <2>5. Owed' = Owed
      BY <1>16, <2>1 DEF SmuStart, Owed
    <2> QED BY <1>16, <2>1, <2>2, <2>3, <2>4, <2>5 DEF SmuStart, locals, Service!Run, Owed, Ran
  <1>17. ASSUME NEW c \in Answers, SmuAnswer(c)
         PROVE  exec.msg \in Txns /\ Service!Settle(exec.msg)
    <2>1. exec.msg \in Txns /\ exec.msg # 0 /\ runs[exec.msg] = 1 /\ exec'.msg = 0
      BY <1>17, BoundsAssumption DEF SmuAnswer, NoCmd, ExecRan, MailboxTypes, Txns
    <2>2. Told' = Told
      BY <1>17, TellsNothing DEF SmuAnswer, locals
    <2>3. exec.msg \in Owed \cap Ran /\ msg # exec.msg
      BY <2>1 DEF Owed, Ran, OnceInv
    <2>4. Owed' = Owed \ {exec.msg}
      BY <1>17, <2>1, <2>3 DEF SmuAnswer, Owed
    <2>5. Ran' = Ran
      BY <1>17 DEF SmuAnswer, Ran
    <2> QED BY <1>17, <2>1, <2>2, <2>3, <2>4, <2>5
            DEF SmuAnswer, locals, Service!Settle, Owed, Ran
  <1>18. ASSUME UNCHANGED vars PROVE UNCHANGED Service!vars
    <2>1. Told' = Told
      BY <1>18, TellsNothing DEF vars, locals
    <2> QED BY <1>2, <1>18, <2>1 DEF vars, locals, mailbox
  <1>19. ASSUME NEW p \in Procs, NEW k \in Kinds, Call(p, k) PROVE next \in Txns
    BY <1>19 DEF Call, MailboxTypes, Txns
  <1>20. ASSUME NEW p \in Procs, NEW k \in Kinds, Call(p, k) PROVE Service!Next
    BY <1>3, <1>19, <1>20 DEF Service!Next
  <1>21. ASSUME NEW p \in Procs, Step(p) PROVE Service!Next \/ UNCHANGED Service!vars
    <2>1. \/ Service!Begin(p) \/ Service!Refuse(p) \/ Service!Submit(p) \/ Service!Reply(p)
          \/ Service!Leave(p) \/ UNCHANGED Service!vars
      BY <1>4, <1>5, <1>6, <1>7, <1>8, <1>10, <1>11, <1>12, <1>13, <1>14, <1>15, <1>21 DEF Step
    <2> QED BY <2>1 DEF Service!Next
  <1>22. ASSUME NEW p \in Procs, WaitReadError(p) \/ Crash(p)
         PROVE  Service!Next \/ UNCHANGED Service!vars
    BY <1>14, <1>15, <1>22 DEF Service!Next
  <1>23. ASSUME Smu PROVE Service!Next
    <2>1. CASE SmuStart
      BY <1>16, <2>1 DEF Service!Next
    <2>2. CASE \E c \in Answers : SmuAnswer(c)
      BY <1>17, <2>2 DEF Service!Next
    <2> QED BY <1>23, <2>1, <2>2 DEF Smu
  <1> QED BY <1>18, <1>20, <1>21, <1>22, <1>23 DEF Next, Done

\* Register accesses, driver, lock and firmware together implement the turns of
\* SmuService, for any number of processes that can all lock and of calls: each command
\* is sent at most once, in its caller's turn, and an OK is true, with its own results
\* for those that do not go over PCI (nb_smu_ops.c:85-260).
THEOREM ServiceImplemented == ASSUME LockProcs = Procs PROVE Spec => ImplementsService
  <1>1. Init => Service!Init
    BY ServiceInit
  <1>2. Inv /\ Inv' /\ [Next]_vars => [Service!Next]_(Service!vars)
    BY ServiceStep
  <1> QED BY <1>1, <1>2, InvAlways, PTL DEF Spec, ImplementsService, Service!Spec

=============================================================================

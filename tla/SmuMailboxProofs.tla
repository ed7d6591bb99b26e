-------------------------- MODULE SmuMailboxProofs --------------------------
(***************************************************************************)
(* Proofs about SmuMailbox, for any number of processes, transactions and  *)
(* argument registers.                                                     *)
(***************************************************************************)
EXTENDS SmuMailbox, TLAPS

LEMMA ArgsNonEmpty == 0 \in Args /\ LastArg \in Args
  BY BoundsAssumption DEF Args

\* What the registers can hold is typed.
LEMMA ValsType ==
    /\ \A t \in 0 .. MaxTxn : Arg(t) \in Vals /\ Res(t) \in Vals
    /\ Junk \in Vals
    /\ NoRep \in [code : Answers \cup {"Timeout"}, txn : 0 .. MaxTxn]
    /\ NoCmd \in [msg : 0 .. MaxTxn, args : [Args -> Vals]]
    /\ NoSlot \in [owner : Procs \cup {NoProc}, code : Codes, txn : 0 .. MaxTxn]
  <1>1. 0 \in 0 .. MaxTxn
    BY BoundsAssumption
  <1>2. \A t \in 0 .. MaxTxn : Arg(t) \in Vals /\ Res(t) \in Vals
    BY DEF Arg, Res, Vals
  <1>3. Junk \in Vals
    BY <1>1, <1>2 DEF Junk
  <1>4. NoRep \in [code : Answers \cup {"Timeout"}, txn : 0 .. MaxTxn]
    BY <1>1 DEF NoRep
  <1>5. NoCmd \in [msg : 0 .. MaxTxn, args : [Args -> Vals]]
    BY <1>1, <1>3 DEF NoCmd
  <1>6. NoSlot \in [owner : Procs \cup {NoProc}, code : Codes, txn : 0 .. MaxTxn]
    BY <1>1 DEF NoSlot, Codes, Answers
  <1> QED BY <1>2, <1>3, <1>4, <1>5, <1>6

LEMMA TypeInit == Init => TypeOK
  <1> SUFFICES ASSUME Init PROVE TypeOK
    OBVIOUS
  <1> USE DEF Init
  <1>1. 0 \in 0 .. MaxTxn /\ 1 \in 1 .. MaxTxn + 1
    BY BoundsAssumption
  <1>2. LocalTypes
    BY <1>1, ArgsNonEmpty, ValsType DEF LocalTypes, Codes
  <1>3. MailboxTypes
    BY <1>1, ValsType DEF MailboxTypes
  <1> QED BY <1>2, <1>3 DEF TypeOK

\* A call that is inside its transaction has a number (with TypeOK, TxnsOK is
\* inductive: what the mailbox counts are the transactions of calls).
Numbered ==
    \A p \in Procs : pc[p] # "idle" => txn[p] \in Txns

LEMMA NumberedInit == Init => Numbered
  BY DEF Init, Numbered

\* Whatever the driver does with a command, the mailbox stays typed.
LEMMA DriverTypes ==
    ASSUME TypeOK, Numbered, NEW p \in Procs, pc[p] # "idle",
           DriverRuns(p) \/ UNCHANGED mailbox
    PROVE  /\ rep' \in [code : Answers \cup {"Timeout"}, txn : 0 .. MaxTxn]
           /\ arg' \in [Args -> Vals]
           /\ msg' \in 0 .. MaxTxn
           /\ exec' \in [msg : 0 .. MaxTxn, args : [Args -> Vals]]
           /\ slot' \in [owner : Procs \cup {NoProc}, code : Codes, txn : 0 .. MaxTxn]
           /\ runs' \in [Txns -> Nat]
  <1> USE DEF TypeOK, MailboxTypes, Codes, Answers
  <1>1. txn[p] \in Txns /\ txn[p] \in 0 .. MaxTxn /\ 0 \in 0 .. MaxTxn
    BY BoundsAssumption DEF Numbered, LocalTypes, Txns
  <1>2. \A t \in 0 .. MaxTxn : Arg(t) \in Vals /\ Res(t) \in Vals
    BY ValsType
  <1>3. exec.msg \in 0 .. MaxTxn /\ runs[txn[p]] + 1 \in Nat
    BY <1>1
  <1>5. arg' \in [Args -> Vals]
    <2>1. [j \in Args |-> Arg(txn[p])] \in [Args -> Vals]
      BY <1>1, <1>2
    <2>2. \A c \in Answers :
            /\ [j \in Args |-> IF c = "OK" THEN Res(txn[p]) ELSE Arg(txn[p])] \in [Args -> Vals]
            /\ [j \in Args |-> IF c = "OK" THEN Res(exec.msg) ELSE Arg(txn[p])] \in [Args -> Vals]
      BY <1>1, <1>2, <1>3
    <2> QED BY <2>1, <2>2 DEF mailbox, DriverRuns, DriverAnswered, DriverAnsweredLate,
        DriverTimedOut, DriverFailed
  <1>6. rep' \in [code : Answers \cup {"Timeout"}, txn : 0 .. MaxTxn]
    BY <1>1, <1>3, ValsType DEF mailbox, DriverRuns, DriverAnswered, DriverAnsweredLate,
        DriverTimedOut, DriverFailed
  <1>7. msg' \in 0 .. MaxTxn /\ runs' \in [Txns -> Nat]
    BY <1>1, <1>3 DEF mailbox, DriverRuns, DriverAnswered, DriverAnsweredLate,
        DriverTimedOut, DriverFailed
  <1>8. exec' \in [msg : 0 .. MaxTxn, args : [Args -> Vals]]
    BY ValsType DEF mailbox, DriverRuns, DriverAnswered, DriverAnsweredLate,
        DriverTimedOut, DriverFailed
  <1>9. slot' \in [owner : Procs \cup {NoProc}, code : Codes, txn : 0 .. MaxTxn]
    BY <1>1, <1>3 DEF mailbox, DriverRuns, DriverAnswered, DriverAnsweredLate,
        DriverTimedOut, DriverFailed
  <1> QED BY <1>5, <1>6, <1>7, <1>8, <1>9

\* Forgetting a call and leaving it keep the types of the locals.
LEMMA ForgetTypes ==
    ASSUME LocalTypes, Numbered, NEW p \in Procs, Forget(p)
    PROVE  /\ pc' \in [Procs -> Inside \cup {"idle", "lock", "ret"}]
           /\ kind' \in [Procs -> {"req", "test"}]
           /\ txn' \in [Procs -> 0 .. MaxTxn]
           /\ i' \in [Procs -> Args]
           /\ args' \in [Procs -> [Args -> Vals]]
           /\ response' \in [Procs -> Codes]
           /\ clean' \in [Procs -> BOOLEAN]
           /\ Numbered'
  <1> USE DEF Forget, LocalTypes
  <1>1. 0 \in 0 .. MaxTxn /\ 0 \in Args /\ [j \in Args |-> Junk] \in [Args -> Vals]
    BY BoundsAssumption, ArgsNonEmpty, ValsType
  <1>2. pc' \in [Procs -> Inside \cup {"idle", "lock", "ret"}] /\ kind' \in [Procs -> {"req", "test"}]
    OBVIOUS
  <1>3. txn' \in [Procs -> 0 .. MaxTxn] /\ i' \in [Procs -> Args]
    BY <1>1
  <1>4. args' \in [Procs -> [Args -> Vals]]
    BY <1>1
  <1>5. response' \in [Procs -> Codes] /\ clean' \in [Procs -> BOOLEAN]
    BY DEF Codes
  <1>6. Numbered'
    BY DEF Numbered
  <1> QED BY <1>2, <1>3, <1>4, <1>5, <1>6

LEMMA TypeNext == TypeOK /\ Numbered /\ [Next]_vars => TypeOK' /\ Numbered'
  <1> SUFFICES ASSUME TypeOK, Numbered, [Next]_vars PROVE TypeOK' /\ Numbered'
    OBVIOUS
  <1> USE DEF TypeOK
  <1>1. ASSUME NEW p \in Procs, NEW k \in Kinds, Call(p, k) PROVE TypeOK' /\ Numbered'
    <2>1. next \in Txns /\ next \in 0 .. MaxTxn /\ next' \in 1 .. MaxTxn + 1
      BY <1>1, BoundsAssumption DEF Call, Txns, MailboxTypes
    <2>2. [j \in Args |-> Arg(next)] \in [Args -> Vals]
      BY <2>1, ValsType
    <2>3. LocalTypes'
      BY <1>1, <2>1, <2>2 DEF Call, Goto, LocalTypes, Kinds
    <2>4. MailboxTypes'
      BY <1>1, <2>1 DEF Call, mailbox, MailboxTypes
    <2>5. Numbered'
      BY <1>1, <2>1 DEF Call, Goto, Numbered, LocalTypes
    <2> QED BY <2>3, <2>4, <2>5
  <1>2. ASSUME NEW p \in Procs, LockAcquire(p) \/ LockUnavailable(p) PROVE TypeOK' /\ Numbered'
    <2>1. flock' \in LockProcs \cup {NoProc}
      BY <1>2 DEF LockAcquire, LockUnavailable, LocalTypes
    <2>2. clean' \in [Procs -> BOOLEAN]
      BY <1>2 DEF LockAcquire, LockUnavailable, Begin, Quiet, LocalTypes
    <2>3. LocalTypes'
      BY <1>2, <2>1, <2>2 DEF LockAcquire, LockUnavailable, Begin, Goto, Inside, LocalTypes
    <2>4. MailboxTypes'
      BY <1>2 DEF LockAcquire, LockUnavailable, Begin, mailbox, MailboxTypes
    <2>5. Numbered'
      BY <1>2 DEF LockAcquire, LockUnavailable, Begin, Goto, Numbered, LocalTypes
    <2> QED BY <2>3, <2>4, <2>5
  <1>3. ASSUME NEW p \in Procs, LockTimeout(p) PROVE TypeOK' /\ Numbered'
    <2>1. LocalTypes'
      BY <1>3 DEF LockTimeout, Goto, Codes, Answers, LocalTypes
    <2>2. MailboxTypes'
      BY <1>3 DEF LockTimeout, mailbox, MailboxTypes
    <2>3. Numbered'
      BY <1>3 DEF LockTimeout, Goto, Numbered, LocalTypes
    <2> QED BY <2>1, <2>2, <2>3
  <1>4. ASSUME NEW p \in Procs, RawUnavailable(p) PROVE TypeOK' /\ Numbered'
    <2>1. pc' \in [Procs -> Inside \cup {"idle", "lock", "ret"}]
      BY <1>4 DEF RawUnavailable, Goto, Inside, LocalTypes
    <2>2. smn_io_error' \in [Procs -> BOOLEAN]
      BY <1>4 DEF RawUnavailable, smn_io_take_error, LocalTypes
    <2>3. LocalTypes'
      BY <1>4, <2>1, <2>2 DEF RawUnavailable, LocalTypes
    <2>4. MailboxTypes'
      BY <1>4 DEF RawUnavailable, mailbox, MailboxTypes
    <2>5. Numbered'
      BY <1>4 DEF RawUnavailable, Goto, Numbered, LocalTypes
    <2> QED BY <2>3, <2>4, <2>5
  <1>5. ASSUME NEW p \in Procs, RawRead(p) PROVE TypeOK' /\ Numbered'
    <2>1. pc' \in [Procs -> Inside \cup {"idle", "lock", "ret"}]
      BY <1>5 DEF RawRead, ReturnCode, Goto, Inside, LocalTypes
    <2>2. flock' \in LockProcs \cup {NoProc}
      BY <1>5 DEF RawRead, ReturnCode, smu_unlock, LocalTypes
    <2>3. slot.code \in Codes /\ Res(slot.txn) \in Vals
      BY ValsType DEF MailboxTypes
    <2>4. response' \in [Procs -> Codes]
      BY <1>5, <2>3 DEF RawRead, ReturnCode, Codes, Answers, LocalTypes
    <2>5. args' \in [Procs -> [Args -> Vals]]
      BY <1>5, <2>3 DEF RawRead, LocalTypes
    <2>6. LocalTypes'
      BY <1>5, <2>1, <2>2, <2>3, <2>4, <2>5 DEF RawRead, ReturnCode, LocalTypes
    <2>7. MailboxTypes'
      BY <1>5 DEF RawRead, ReturnCode, mailbox, MailboxTypes
    <2>8. Numbered'
      BY <1>5 DEF RawRead, ReturnCode, Goto, Numbered, LocalTypes
    <2> QED BY <2>6, <2>7, <2>8
  <1>6. ASSUME NEW p \in Procs, ClearRep(p) PROVE TypeOK' /\ Numbered'
    <2>1. pc' \in [Procs -> Inside \cup {"idle", "lock", "ret"}]
      BY <1>6 DEF ClearRep, Goto, Inside, LocalTypes
    <2>2. smn_io_error' \in [Procs -> BOOLEAN]
      BY <1>6 DEF ClearRep, smn_reg_write, smn_io_set_error, LocalTypes
    <2>3. i' \in [Procs -> Args]
      BY <1>6, ArgsNonEmpty DEF ClearRep, LocalTypes
    <2>4. rep' \in [code : Answers \cup {"Timeout"}, txn : 0 .. MaxTxn]
      BY <1>6, ValsType DEF ClearRep, smn_reg_write, MailboxTypes
    <2>5. LocalTypes'
      BY <1>6, <2>1, <2>2, <2>3 DEF ClearRep, LocalTypes
    <2>6. MailboxTypes'
      BY <1>6, <2>4 DEF ClearRep, mailbox, MailboxTypes
    <2>7. Numbered'
      BY <1>6 DEF ClearRep, Goto, Numbered, LocalTypes
    <2> QED BY <2>5, <2>6, <2>7
  <1>7. ASSUME NEW p \in Procs, WriteArg(p) PROVE TypeOK' /\ Numbered'
    <2>1. pc' \in [Procs -> Inside \cup {"idle", "lock", "ret"}]
      BY <1>7 DEF WriteArg, Goto, Inside, LocalTypes
    <2>2. smn_io_error' \in [Procs -> BOOLEAN]
      BY <1>7 DEF WriteArg, smn_reg_write, smn_io_set_error, LocalTypes
    <2>3. i[p] \in 0 .. LastArg /\ (i[p] < LastArg => i[p] + 1 \in 0 .. LastArg)
      BY BoundsAssumption DEF LocalTypes, Args
    <2>4. i' \in [Procs -> Args]
      BY <1>7, <2>3 DEF WriteArg, Args, LocalTypes
    <2>5. Arg(txn[p]) \in Vals
      BY ValsType DEF LocalTypes
    <2>6. arg' \in [Args -> Vals]
      BY <1>7, <2>5 DEF WriteArg, smn_reg_write, MailboxTypes
    <2>7. LocalTypes'
      BY <1>7, <2>1, <2>2, <2>3, <2>4 DEF WriteArg, LocalTypes
    <2>8. MailboxTypes'
      BY <1>7, <2>5, <2>6 DEF WriteArg, mailbox, MailboxTypes
    <2>9. Numbered'
      BY <1>7 DEF WriteArg, Goto, Numbered, LocalTypes
    <2> QED BY <2>7, <2>8, <2>9
  <1>8. ASSUME NEW p \in Procs, CheckWrites(p) PROVE TypeOK' /\ Numbered'
    <2>1. pc' \in [Procs -> Inside \cup {"idle", "lock", "ret"}]
      BY <1>8 DEF CheckWrites, ReturnCode, Goto, Inside, LocalTypes
    <2>2. flock' \in LockProcs \cup {NoProc}
      BY <1>8 DEF CheckWrites, ReturnCode, smu_unlock, LocalTypes
    <2>3. smn_io_error' \in [Procs -> BOOLEAN]
      BY <1>8 DEF CheckWrites, smn_io_take_error, LocalTypes
    <2>4. response' \in [Procs -> Codes]
      BY <1>8 DEF CheckWrites, ReturnCode, Codes, Answers, LocalTypes
    <2>5. LocalTypes'
      BY <1>8, <2>1, <2>2, <2>3, <2>4 DEF CheckWrites, ReturnCode, LocalTypes
    <2>6. MailboxTypes'
      BY <1>8 DEF CheckWrites, ReturnCode, mailbox, MailboxTypes
    <2>7. Numbered'
      BY <1>8 DEF CheckWrites, ReturnCode, Goto, Numbered, LocalTypes
    <2> QED BY <2>5, <2>6, <2>7
  <1>9. ASSUME NEW p \in Procs, VerifyArg(p) PROVE TypeOK' /\ Numbered'
    <2>1. pc' \in [Procs -> Inside \cup {"idle", "lock", "ret"}]
      BY <1>9 DEF VerifyArg, smn_reg_read, ReturnCode, Goto, Inside, LocalTypes
    <2>2. flock' \in LockProcs \cup {NoProc}
      BY <1>9 DEF VerifyArg, smn_reg_read, ReturnCode, smu_unlock, LocalTypes
    <2>3. smn_io_error' \in [Procs -> BOOLEAN]
      BY <1>9 DEF VerifyArg, smn_reg_read, smn_io_set_error, LocalTypes
    <2>4. response' \in [Procs -> Codes]
      BY <1>9 DEF VerifyArg, smn_reg_read, ReturnCode, Codes, Answers, LocalTypes
    <2>5. LocalTypes'
      BY <1>9, <2>1, <2>2, <2>3, <2>4 DEF VerifyArg, smn_reg_read, ReturnCode, LocalTypes
    <2>6. MailboxTypes'
      BY <1>9 DEF VerifyArg, smn_reg_read, ReturnCode, mailbox, MailboxTypes
    <2>7. Numbered'
      BY <1>9 DEF VerifyArg, smn_reg_read, ReturnCode, Goto, Numbered, LocalTypes
    <2> QED BY <2>5, <2>6, <2>7
  <1>10. ASSUME NEW p \in Procs, RingDoorbell(p) PROVE TypeOK' /\ Numbered'
    <2>1. pc' \in [Procs -> Inside \cup {"idle", "lock", "ret"}]
      BY <1>10 DEF RingDoorbell, Goto, Inside, LocalTypes
    <2>2. smn_io_error' \in [Procs -> BOOLEAN]
      BY <1>10 DEF RingDoorbell, smn_reg_write, smn_io_set_error, LocalTypes
    <2>3. txn[p] \in 0 .. MaxTxn
      BY DEF LocalTypes
    <2>4. msg' \in 0 .. MaxTxn
      BY <1>10, <2>3 DEF RingDoorbell, smn_reg_write, MailboxTypes
    <2>5. LocalTypes'
      BY <1>10, <2>1, <2>2 DEF RingDoorbell, LocalTypes
    <2>6. MailboxTypes'
      BY <1>10, <2>3, <2>4 DEF RingDoorbell, mailbox, MailboxTypes
    <2>7. Numbered'
      BY <1>10 DEF RingDoorbell, Goto, Numbered, LocalTypes
    <2> QED BY <2>5, <2>6, <2>7
  <1>11. ASSUME NEW p \in Procs, WaitAnswered(p) PROVE TypeOK' /\ Numbered'
    <2>1. pc' \in [Procs -> Inside \cup {"idle", "lock", "ret"}]
      BY <1>11 DEF WaitAnswered, Goto, Inside, LocalTypes
    <2>2. i' \in [Procs -> Args]
      BY <1>11, ArgsNonEmpty DEF WaitAnswered, LocalTypes
    <2>3. rep.code \in Codes
      BY DEF MailboxTypes, Codes
    <2>4. response' \in [Procs -> Codes]
      BY <1>11, <2>3 DEF WaitAnswered, LocalTypes
    <2>5. LocalTypes'
      BY <1>11, <2>1, <2>2, <2>3, <2>4 DEF WaitAnswered, LocalTypes
    <2>6. MailboxTypes'
      BY <1>11 DEF WaitAnswered, mailbox, MailboxTypes
    <2>7. Numbered'
      BY <1>11 DEF WaitAnswered, Goto, Numbered, LocalTypes
    <2> QED BY <2>5, <2>6, <2>7
  <1>12. ASSUME NEW p \in Procs, WaitReadError(p) PROVE TypeOK' /\ Numbered'
    <2>1. pc' \in [Procs -> Inside \cup {"idle", "lock", "ret"}]
      BY <1>12 DEF WaitReadError, Goto, Inside, LocalTypes
    <2>2. i' \in [Procs -> Args]
      BY <1>12, ArgsNonEmpty DEF WaitReadError, LocalTypes
    <2>3. response' \in [Procs -> Codes]
      BY <1>12 DEF WaitReadError, Codes, LocalTypes
    <2>4. smn_io_error' \in [Procs -> BOOLEAN]
      BY <1>12 DEF WaitReadError, smn_io_set_error, LocalTypes
    <2>5. LocalTypes'
      BY <1>12, <2>1, <2>2, <2>3, <2>4 DEF WaitReadError, LocalTypes
    <2>6. MailboxTypes'
      BY <1>12 DEF WaitReadError, mailbox, MailboxTypes
    <2>7. Numbered'
      BY <1>12 DEF WaitReadError, Goto, Numbered, LocalTypes
    <2> QED BY <2>5, <2>6, <2>7
  <1>13. ASSUME NEW p \in Procs, WaitTimeout(p) PROVE TypeOK' /\ Numbered'
    <2>1. pc' \in [Procs -> Inside \cup {"idle", "lock", "ret"}]
      BY <1>13 DEF WaitTimeout, ReturnCode, Goto, Inside, LocalTypes
    <2>2. flock' \in LockProcs \cup {NoProc}
      BY <1>13 DEF WaitTimeout, ReturnCode, smu_unlock, LocalTypes
    <2>3. smn_io_error' \in [Procs -> BOOLEAN]
      BY <1>13 DEF WaitTimeout, smn_io_take_error, LocalTypes
    <2>4. response' \in [Procs -> Codes]
      BY <1>13 DEF WaitTimeout, ReturnCode, Codes, LocalTypes
    <2>5. LocalTypes'
      BY <1>13, <2>1, <2>2, <2>3, <2>4 DEF WaitTimeout, ReturnCode, LocalTypes
    <2>6. MailboxTypes'
      BY <1>13 DEF WaitTimeout, ReturnCode, mailbox, MailboxTypes
    <2>7. Numbered'
      BY <1>13 DEF WaitTimeout, ReturnCode, Goto, Numbered, LocalTypes
    <2> QED BY <2>5, <2>6, <2>7
  <1>14. ASSUME NEW p \in Procs, ReadBack(p) PROVE TypeOK' /\ Numbered'
    <2>1. pc' \in [Procs -> Inside \cup {"idle", "lock", "ret"}]
      BY <1>14 DEF ReadBack, Goto, Inside, LocalTypes
    <2>2. smn_io_error' \in [Procs -> BOOLEAN]
      BY <1>14 DEF ReadBack, smn_reg_read, smn_io_set_error, LocalTypes
    <2>3. i[p] \in 0 .. LastArg /\ (i[p] < LastArg => i[p] + 1 \in 0 .. LastArg)
      BY BoundsAssumption DEF LocalTypes, Args
    <2>4. i' \in [Procs -> Args]
      BY <1>14, <2>3 DEF ReadBack, Args, LocalTypes
    <2>5. arg[i[p]] \in Vals /\ Junk \in Vals /\ args[p] \in [Args -> Vals]
      BY ValsType DEF LocalTypes, MailboxTypes
    <2>6. args' \in [Procs -> [Args -> Vals]]
      <3>1. \A v \in Vals : [args[p] EXCEPT ![i[p]] = v] \in [Args -> Vals]
        BY <2>5
      <3>2. \E v \in Vals : args' = [args EXCEPT ![p] = [args[p] EXCEPT ![i[p]] = v]]
        BY <1>14, <2>5 DEF ReadBack, smn_reg_read, LocalTypes
      <3> QED BY <3>1, <3>2 DEF LocalTypes
    <2>7. LocalTypes'
      BY <1>14, <2>1, <2>2, <2>3, <2>4, <2>5, <2>6 DEF ReadBack, LocalTypes
    <2>8. MailboxTypes'
      BY <1>14 DEF ReadBack, mailbox, MailboxTypes
    <2>9. Numbered'
      BY <1>14 DEF ReadBack, Goto, Numbered, LocalTypes
    <2> QED BY <2>7, <2>8, <2>9
  <1>15. ASSUME NEW p \in Procs, Finish(p) PROVE TypeOK' /\ Numbered'
    <2>1. pc' \in [Procs -> Inside \cup {"idle", "lock", "ret"}]
      BY <1>15 DEF Finish, ReturnCode, Goto, Inside, LocalTypes
    <2>2. flock' \in LockProcs \cup {NoProc}
      BY <1>15 DEF Finish, ReturnCode, smu_unlock, LocalTypes
    <2>3. smn_io_error' \in [Procs -> BOOLEAN]
      BY <1>15 DEF Finish, smn_io_take_error, LocalTypes
    <2>4. response' \in [Procs -> Codes]
      BY <1>15 DEF Finish, ReturnCode, Codes, Answers, LocalTypes
    <2>5. LocalTypes'
      BY <1>15, <2>1, <2>2, <2>3, <2>4 DEF Finish, ReturnCode, LocalTypes
    <2>6. MailboxTypes'
      BY <1>15 DEF Finish, ReturnCode, mailbox, MailboxTypes
    <2>7. Numbered'
      BY <1>15 DEF Finish, ReturnCode, Goto, Numbered, LocalTypes
    <2> QED BY <2>5, <2>6, <2>7
  <1>16. ASSUME NEW p \in Procs, Return(p) \/ Crash(p) PROVE TypeOK' /\ Numbered'
    <2>1. Forget(p)
      BY <1>16 DEF Return, Crash
    <2>2. smn_io_error' \in [Procs -> BOOLEAN] /\ flock' \in LockProcs \cup {NoProc}
      BY <1>16 DEF Return, Crash, smn_io_take_error, smu_unlock, LocalTypes
    <2>3. LocalTypes' /\ Numbered'
      BY <2>1, <2>2, ForgetTypes DEF TypeOK, LocalTypes
    <2>4. MailboxTypes'
      BY <1>16 DEF Return, Crash, mailbox, MailboxTypes
    <2> QED BY <2>3, <2>4
  <1>17. ASSUME NEW p \in Procs, RawWrite(p) PROVE TypeOK' /\ Numbered'
    <2>1. pc' \in [Procs -> Inside \cup {"idle", "lock", "ret"}]
      BY <1>17 DEF RawWrite, Goto, Inside, LocalTypes
    <2>2. pc[p] # "idle" /\ (DriverRuns(p) \/ UNCHANGED mailbox)
      BY <1>17 DEF RawWrite, Goto
    <2>3. /\ rep' \in [code : Answers \cup {"Timeout"}, txn : 0 .. MaxTxn]
          /\ arg' \in [Args -> Vals]
          /\ msg' \in 0 .. MaxTxn
          /\ exec' \in [msg : 0 .. MaxTxn, args : [Args -> Vals]]
          /\ slot' \in [owner : Procs \cup {NoProc}, code : Codes, txn : 0 .. MaxTxn]
          /\ runs' \in [Txns -> Nat]
      BY <2>2, DriverTypes DEF TypeOK
    <2>4. LocalTypes'
      BY <1>17, <2>1 DEF RawWrite, LocalTypes
    <2>5. MailboxTypes'
      BY <1>17, <2>2, <2>3 DEF RawWrite, mailbox, MailboxTypes
    <2>6. Numbered'
      BY <1>17 DEF RawWrite, Goto, Numbered, LocalTypes
    <2> QED BY <2>4, <2>5, <2>6
  <1>18. ASSUME NEW p \in Procs, RawWriteError(p) PROVE TypeOK' /\ Numbered'
    <2>1. pc' \in [Procs -> Inside \cup {"idle", "lock", "ret"}]
      BY <1>18 DEF RawWriteError, ReturnCode, Goto, Inside, LocalTypes
    <2>2. flock' \in LockProcs \cup {NoProc}
      BY <1>18 DEF RawWriteError, ReturnCode, smu_unlock, LocalTypes
    <2>3. response' \in [Procs -> Codes]
      BY <1>18 DEF RawWriteError, ReturnCode, Codes, Answers, LocalTypes
    <2>4. pc[p] # "idle" /\ (DriverRuns(p) \/ UNCHANGED mailbox)
      BY <1>18 DEF RawWriteError, ReturnCode, Goto
    <2>5. /\ rep' \in [code : Answers \cup {"Timeout"}, txn : 0 .. MaxTxn]
          /\ arg' \in [Args -> Vals]
          /\ msg' \in 0 .. MaxTxn
          /\ exec' \in [msg : 0 .. MaxTxn, args : [Args -> Vals]]
          /\ slot' \in [owner : Procs \cup {NoProc}, code : Codes, txn : 0 .. MaxTxn]
          /\ runs' \in [Txns -> Nat]
      BY <2>4, DriverTypes DEF TypeOK
    <2>6. LocalTypes'
      BY <1>18, <2>1, <2>2, <2>3 DEF RawWriteError, ReturnCode, LocalTypes
    <2>7. MailboxTypes'
      BY <1>18, <2>4, <2>5 DEF RawWriteError, ReturnCode, mailbox, MailboxTypes
    <2>8. Numbered'
      BY <1>18 DEF RawWriteError, ReturnCode, Goto, Numbered, LocalTypes
    <2> QED BY <2>6, <2>7, <2>8
  <1>19. CASE SmuStart
    <2>1. msg \in Txns /\ runs[msg] + 1 \in Nat
      BY <1>19 DEF SmuStart, Txns, MailboxTypes
    <2>2. exec' \in [msg : 0 .. MaxTxn, args : [Args -> Vals]] /\ msg' \in 0 .. MaxTxn
      BY <1>19, BoundsAssumption DEF SmuStart, MailboxTypes
    <2>3. runs' \in [Txns -> Nat]
      BY <1>19, <2>1 DEF SmuStart, MailboxTypes
    <2>4. LocalTypes' /\ Numbered'
      BY <1>19 DEF SmuStart, locals, LocalTypes, Numbered
    <2> QED BY <1>19, <2>2, <2>3, <2>4 DEF SmuStart, MailboxTypes
  <1>20. ASSUME NEW c \in Answers, SmuAnswer(c) PROVE TypeOK' /\ Numbered'
    <2>1. exec.msg \in 0 .. MaxTxn /\ Res(exec.msg) \in Vals
      BY ValsType DEF MailboxTypes
    <2>2. rep' \in [code : Answers \cup {"Timeout"}, txn : 0 .. MaxTxn]
      BY <1>20, <2>1 DEF SmuAnswer
    <2>3. arg' \in [Args -> Vals]
      BY <1>20, <2>1 DEF SmuAnswer, MailboxTypes
    <2>4. exec' \in [msg : 0 .. MaxTxn, args : [Args -> Vals]]
      BY <1>20, ValsType DEF SmuAnswer
    <2>5. LocalTypes' /\ Numbered'
      BY <1>20 DEF SmuAnswer, locals, LocalTypes, Numbered
    <2> QED BY <1>20, <2>2, <2>3, <2>4, <2>5 DEF SmuAnswer, MailboxTypes
  <1>21. CASE UNCHANGED vars
    BY <1>21 DEF vars, locals, mailbox, LocalTypes, MailboxTypes, Numbered
  <1> QED BY <1>1, <1>2, <1>3, <1>4, <1>5, <1>6, <1>7, <1>8, <1>9, <1>10, <1>11,
             <1>12, <1>13, <1>14, <1>15, <1>16, <1>17, <1>18, <1>19, <1>20, <1>21
          DEF Next, Step, Smu, Done

\* Every behaviour keeps every variable in its type, for any number of processes,
\* calls and argument registers (nb_smu_ops.c:79-273).
THEOREM TypeCorrect == Spec => []TypeOK
  <1>1. Init => TypeOK /\ Numbered
    BY TypeInit, NumberedInit
  <1> QED BY <1>1, TypeNext, PTL DEF Spec

-----------------------------------------------------------------------------
\* The flock.  With the type of flock, LockHeldInside is inductive: a process
\* enters with the lock free, and ReturnCode and Crash are the only ways out.

\* A step that leaves pc and flock alone, or moves p within its transaction.
LEMMA StayInside ==
    ASSUME LocalTypes, LockHeldInside, NEW p \in Procs, NEW at \in Inside, NEW to \in Inside,
           Goto(p, at, to), UNCHANGED flock
    PROVE  LockHeldInside'
  BY ProcsAssumption DEF Goto, LockHeldInside, LocalTypes

LEMMA LeaveInside ==
    ASSUME LocalTypes, LockHeldInside, NEW p \in Procs,
           NEW to \in {"ret", "idle"}, pc' = [pc EXCEPT ![p] = to], smu_unlock(p)
    PROVE  LockHeldInside'
  BY ProcsAssumption DEF smu_unlock, LockHeldInside, LocalTypes, Inside

LEMMA LockInit == Init => LockHeldInside
  BY ProcsAssumption DEF Init, LockHeldInside, Inside

LEMMA LockNext == TypeOK /\ LockHeldInside /\ [Next]_vars => LockHeldInside'
  <1> SUFFICES ASSUME TypeOK, LockHeldInside, [Next]_vars PROVE LockHeldInside'
    OBVIOUS
  <1>1. LocalTypes
    BY DEF TypeOK
  <1>2. ASSUME NEW p \in Procs, NEW k \in Kinds, Call(p, k) PROVE LockHeldInside'
    BY <1>1, <1>2 DEF Call, Goto, LockHeldInside, LocalTypes, Inside
  <1>3. ASSUME NEW p \in Procs, LockAcquire(p) PROVE LockHeldInside'
    BY <1>1, <1>3, ProcsAssumption DEF LockAcquire, Begin, Goto, LockHeldInside, LocalTypes, Inside
  <1>4. ASSUME NEW p \in Procs, LockUnavailable(p) PROVE LockHeldInside'
    BY <1>1, <1>4, ProcsAssumption DEF LockUnavailable, Begin, Goto, LockHeldInside, LocalTypes,
                                             Inside
  <1>5. ASSUME NEW p \in Procs, LockTimeout(p) PROVE LockHeldInside'
    BY <1>1, <1>5 DEF LockTimeout, Goto, LockHeldInside, LocalTypes, Inside
  <1>6. ASSUME NEW p \in Procs,
               \/ RawWrite(p) \/ RawUnavailable(p) \/ ClearRep(p) \/ WriteArg(p)
               \/ RingDoorbell(p) \/ WaitAnswered(p) \/ ReadBack(p)
        PROVE  LockHeldInside'
    <2>1. UNCHANGED flock
      BY <1>6 DEF RawWrite, RawUnavailable, ClearRep, WriteArg, RingDoorbell, WaitAnswered, ReadBack
    <2>2. \E at, to \in Inside : Goto(p, at, to)
      BY <1>6 DEF RawWrite, RawUnavailable, ClearRep, WriteArg, RingDoorbell, WaitAnswered,
                  ReadBack, Inside
    <2> QED BY <1>1, <2>1, <2>2, StayInside
  <1>7. ASSUME NEW p \in Procs, NEW at, NEW c, ReturnCode(p, at, c) PROVE LockHeldInside'
    BY <1>1, <1>7, LeaveInside DEF ReturnCode, Goto
  <1>8. ASSUME NEW p \in Procs, RawWriteError(p) \/ RawRead(p) \/ WaitTimeout(p) \/ Finish(p)
        PROVE  LockHeldInside'
    BY <1>7, <1>8 DEF RawWriteError, RawRead, WaitTimeout, Finish
  <1>9. ASSUME NEW p \in Procs, CheckWrites(p) \/ VerifyArg(p) PROVE LockHeldInside'
    <2>1. \/ (Goto(p, "check", "ring") \/ Goto(p, "verify", "ring")) /\ UNCHANGED flock
          \/ ReturnCode(p, "check", "Failed")
          \/ ReturnCode(p, "verify", "Failed")
      BY <1>9 DEF CheckWrites, VerifyArg, smn_reg_read
    <2>2. {"check", "verify", "ring"} \subseteq Inside
      BY DEF Inside
    <2> QED BY <1>1, <1>7, <2>1, <2>2, StayInside
  <1>10. ASSUME NEW p \in Procs, WaitReadError(p) PROVE LockHeldInside'
    <2>1. UNCHANGED flock
      BY <1>10 DEF WaitReadError
    <2>2. UNCHANGED pc \/ \E at, to \in Inside : Goto(p, at, to)
      BY <1>10 DEF WaitReadError, Inside
    <2>3. CASE UNCHANGED pc
      BY <2>1, <2>3 DEF LockHeldInside
    <2> QED BY <1>1, <2>1, <2>2, <2>3, StayInside
  <1>11. ASSUME NEW p \in Procs, Return(p) PROVE LockHeldInside'
    BY <1>1, <1>11 DEF Return, Forget, LockHeldInside, LocalTypes, Inside
  <1>12. ASSUME NEW p \in Procs, Crash(p) PROVE LockHeldInside'
    BY <1>1, <1>12, LeaveInside DEF Crash, Forget
  <1>13. CASE Smu \/ UNCHANGED vars
    BY <1>13 DEF Smu, SmuStart, SmuAnswer, vars, locals, LockHeldInside
  <1> QED BY <1>2, <1>3, <1>4, <1>5, <1>6, <1>8, <1>9, <1>10, <1>11, <1>12, <1>13
          DEF Next, Step, Done

\* In every behaviour, a process that can lock holds the lock exactly while it is
\* inside its transaction, whichever way it leaves (nb_smu_ops.c:79-130).
THEOREM LockCorrect == Spec => []LockHeldInside
  <1>1. TypeOK /\ LockHeldInside /\ [Next]_vars => LockHeldInside'
    BY LockNext
  <1> QED BY <1>1, TypeCorrect, LockInit, PTL DEF Spec

-----------------------------------------------------------------------------
\* A transaction runs at most once.  The strengthening says where a transaction
\* can still be: not called yet, with a caller that has not sent it, in the
\* doorbell register, or started.

BeforeDoorbell == {"lock", "raw", "clear", "args", "check", "verify", "ring"}

\* Nothing of a transaction has reached the SMU.
Unsent(t) == runs[t] = 0 /\ msg # t

Calls ==
    /\ \A p \in Procs : pc[p] # "idle" => txn[p] \in Txns /\ txn[p] < next
    /\ \A p, q \in Procs : pc[p] # "idle" /\ pc[q] # "idle" /\ txn[p] = txn[q] => p = q

OnceInv ==
    /\ Calls
    /\ \A t \in Txns : t >= next => Unsent(t)
    /\ \A p \in Procs : pc[p] \in BeforeDoorbell => Unsent(txn[p])
    /\ \A t \in Txns : runs[t] <= 1 /\ (msg = t => runs[t] = 0)

LEMMA OnceInit == Init => OnceInv
  <1> SUFFICES ASSUME Init PROVE OnceInv
    OBVIOUS
  <1> QED BY DEF Init, OnceInv, Calls, Unsent, BeforeDoorbell, Txns

\* A step of p that neither calls nor touches the doorbell, and after which p is
\* still before the doorbell only if it was before it.
LEMMA OnceQuiet ==
    ASSUME LocalTypes, OnceInv, NEW p \in Procs, UNCHANGED <<txn, msg, runs, next>>,
           NEW to, pc' = [pc EXCEPT ![p] = to], pc[p] # "idle",
           to \in BeforeDoorbell => pc[p] \in BeforeDoorbell
    PROVE  OnceInv'
  <1>1. Calls'
    BY DEF OnceInv, Calls, LocalTypes
  <1>2. \A q \in Procs : pc'[q] \in BeforeDoorbell => Unsent(txn[q])'
    BY DEF OnceInv, Unsent, LocalTypes
  <1>3. \A t \in Txns : Unsent(t)' <=> Unsent(t)
    BY DEF Unsent
  <1> QED BY <1>1, <1>2, <1>3 DEF OnceInv

\* The driver, or the doorbell, sends the transaction of p, which leaves "raw" or
\* "ring" with it.
LEMMA OnceSent ==
    ASSUME LocalTypes, MailboxTypes, OnceInv, NEW p \in Procs,
           pc[p] \in BeforeDoorbell, UNCHANGED <<txn, next>>,
           NEW to, pc' = [pc EXCEPT ![p] = to], to \notin BeforeDoorbell, to # "idle",
           \/ runs' = runs /\ msg' \in {msg, txn[p]}
           \/ runs' = [runs EXCEPT ![txn[p]] = @ + 1] /\ msg' = 0
    PROVE  OnceInv'
  <1>1. txn[p] \in Txns /\ txn[p] < next /\ Unsent(txn[p]) /\ pc[p] # "idle"
    BY DEF OnceInv, Calls, BeforeDoorbell
  <1>2. Calls'
    BY <1>1 DEF OnceInv, Calls, LocalTypes
  <1>3. \A t \in Txns : t # txn[p] /\ Unsent(t) => Unsent(t)'
    BY <1>1, BoundsAssumption DEF Unsent, MailboxTypes, Txns
  <1>4. \A t \in Txns : t >= next' => Unsent(t)'
    BY <1>1, <1>3 DEF OnceInv, Txns, MailboxTypes
  <1>5. \A q \in Procs : pc'[q] \in BeforeDoorbell => Unsent(txn[q])'
    <2> SUFFICES ASSUME NEW q \in Procs, pc'[q] \in BeforeDoorbell PROVE Unsent(txn[q])'
      OBVIOUS
    <2>1. q # p /\ pc[q] \in BeforeDoorbell
      BY DEF LocalTypes
    <2>2. pc[q] # "idle" /\ txn[q] # txn[p] /\ txn[q] \in Txns /\ Unsent(txn[q])
      BY <1>1, <2>1 DEF OnceInv, Calls, BeforeDoorbell
    <2> QED BY <1>3, <2>2 DEF Unsent
  <1>6. \A t \in Txns : runs'[t] <= 1 /\ (msg' = t => runs'[t] = 0)
    BY <1>1, BoundsAssumption DEF OnceInv, Unsent, MailboxTypes, Txns
  <1> QED BY <1>2, <1>4, <1>5, <1>6 DEF OnceInv

LEMMA DriverSends ==
    ASSUME NEW p \in Procs, DriverRuns(p) \/ UNCHANGED mailbox
    PROVE  \/ runs' = runs /\ msg' \in {msg, txn[p]}
           \/ runs' = [runs EXCEPT ![txn[p]] = @ + 1] /\ msg' = 0
  BY DEF mailbox, DriverRuns, DriverAnswered, DriverAnsweredLate,
        DriverTimedOut, DriverFailed

LEMMA OnceNext == TypeOK /\ OnceInv /\ [Next]_vars => OnceInv'
  <1> SUFFICES ASSUME TypeOK, OnceInv, [Next]_vars PROVE OnceInv'
    OBVIOUS
  <1>1. LocalTypes /\ MailboxTypes
    BY DEF TypeOK
  <1> USE <1>1
  <1>2. ASSUME NEW p \in Procs, NEW k \in Kinds, Call(p, k) PROVE OnceInv'
    <2>1. next \in Txns /\ next' = next + 1 /\ next \in Nat /\ pc[p] = "idle"
      BY <1>2, BoundsAssumption DEF Call, Goto, MailboxTypes, Txns
    <2>2. pc' = [pc EXCEPT ![p] = "lock"] /\ txn' = [txn EXCEPT ![p] = next]
      BY <1>2 DEF Call, Goto
    <2>3. UNCHANGED <<msg, runs>>
      BY <1>2 DEF Call, mailbox
    <2>4. Calls'
      <3>1. \A q \in Procs : pc'[q] # "idle" => txn'[q] \in Txns /\ txn'[q] < next'
        BY <2>1, <2>2 DEF OnceInv, Calls, LocalTypes, Txns
      <3>2. \A q \in Procs : q # p /\ pc'[q] # "idle" => txn'[q] # txn'[p]
        BY <2>1, <2>2 DEF OnceInv, Calls, LocalTypes, Txns
      <3>3. \A q, r \in Procs : q # p /\ r # p /\ pc'[q] # "idle" /\ pc'[r] # "idle"
                                  /\ txn'[q] = txn'[r] => q = r
        BY <2>2 DEF OnceInv, Calls, LocalTypes
      <3> QED BY <3>1, <3>2, <3>3 DEF Calls
    <2>5. \A t \in Txns : Unsent(t)' <=> Unsent(t)
      BY <2>3 DEF Unsent
    <2>6. \A t \in Txns : t >= next' => Unsent(t)'
      BY <2>1, <2>5 DEF OnceInv, Txns
    <2>7. \A q \in Procs : pc'[q] \in BeforeDoorbell => Unsent(txn[q])'
      BY <2>1, <2>2, <2>3 DEF OnceInv, Unsent, LocalTypes, Txns
    <2> QED BY <2>3, <2>4, <2>6, <2>7 DEF OnceInv
  <1>3. ASSUME NEW p \in Procs,
               \/ LockAcquire(p) \/ LockUnavailable(p) \/ LockTimeout(p)
               \/ RawUnavailable(p) \/ RawRead(p) \/ ClearRep(p) \/ WriteArg(p)
               \/ CheckWrites(p) \/ VerifyArg(p) \/ WaitAnswered(p) \/ WaitTimeout(p)
               \/ ReadBack(p) \/ Finish(p)
        PROVE  OnceInv'
    <2> USE DEF LockAcquire, LockUnavailable, LockTimeout, Begin, RawUnavailable, RawRead, ClearRep,
                WriteArg, CheckWrites, VerifyArg, WaitAnswered, WaitTimeout, ReadBack, Finish
    <2>1. UNCHANGED <<txn, msg, runs, next>>
      BY <1>3 DEF mailbox
    <2>2. \E to : /\ pc' = [pc EXCEPT ![p] = to]
                  /\ pc[p] # "idle"
                  /\ to \in BeforeDoorbell => pc[p] \in BeforeDoorbell
      BY <1>3 DEF Goto, ReturnCode, smn_reg_read, BeforeDoorbell
    <2> QED BY <2>1, <2>2, OnceQuiet
  <1>4. ASSUME NEW p \in Procs, WaitReadError(p) PROVE OnceInv'
    <2>1. UNCHANGED <<txn, msg, runs, next>>
      BY <1>4 DEF WaitReadError, mailbox
    <2>2. UNCHANGED pc \/ \E to : /\ pc' = [pc EXCEPT ![p] = to]
                                  /\ pc[p] # "idle"
                                  /\ to \notin BeforeDoorbell
      BY <1>4 DEF WaitReadError, Goto, BeforeDoorbell
    <2>3. CASE UNCHANGED pc
      BY <2>1, <2>3 DEF OnceInv, Calls, Unsent
    <2> QED BY <2>1, <2>2, <2>3, OnceQuiet
  <1>5. ASSUME NEW p \in Procs, RawWrite(p) \/ RawWriteError(p) PROVE OnceInv'
    <2>1. /\ pc[p] = "raw" /\ UNCHANGED <<txn, next>>
          /\ pc' = [pc EXCEPT ![p] = "rawread"] \/ pc' = [pc EXCEPT ![p] = "ret"]
      BY <1>5 DEF RawWrite, RawWriteError, ReturnCode, Goto
    <2>2. DriverRuns(p) \/ UNCHANGED mailbox
      BY <1>5 DEF RawWrite, RawWriteError
    <2>3. "raw" \in BeforeDoorbell /\ "rawread" \notin BeforeDoorbell /\ "ret" \notin BeforeDoorbell
      BY DEF BeforeDoorbell
    <2> QED BY <2>1, <2>2, <2>3, DriverSends, OnceSent
  <1>6. ASSUME NEW p \in Procs, RingDoorbell(p) PROVE OnceInv'
    <2>1. /\ pc[p] = "ring" /\ UNCHANGED <<txn, next, runs>>
          /\ pc' = [pc EXCEPT ![p] = "wait"] /\ msg' \in {msg, txn[p]}
      BY <1>6 DEF RingDoorbell, Goto, smn_reg_write
    <2>2. "ring" \in BeforeDoorbell /\ "wait" \notin BeforeDoorbell
      BY DEF BeforeDoorbell
    <2> QED BY <2>1, <2>2, OnceSent
  <1>7. ASSUME NEW p \in Procs, Return(p) \/ Crash(p) PROVE OnceInv'
    <2>1. UNCHANGED <<msg, runs, next>>
      BY <1>7 DEF Return, Crash, mailbox
    <2>2. pc' = [pc EXCEPT ![p] = "idle"] /\ txn' = [txn EXCEPT ![p] = 0]
      BY <1>7 DEF Return, Crash, Forget
    <2>3. Calls'
      BY <2>1, <2>2 DEF OnceInv, Calls, LocalTypes
    <2>4. \A q \in Procs : pc'[q] \in BeforeDoorbell => Unsent(txn[q])'
      BY <2>1, <2>2 DEF OnceInv, Unsent, LocalTypes, BeforeDoorbell
    <2> QED BY <2>1, <2>3, <2>4 DEF OnceInv, Unsent
  <1>8. CASE SmuStart
    <2>1. msg \in Txns /\ runs[msg] = 0 /\ msg' = 0
      BY <1>8 DEF SmuStart, OnceInv, MailboxTypes, Txns
    <2>2. runs' = [runs EXCEPT ![msg] = @ + 1] /\ UNCHANGED <<pc, txn, next>>
      BY <1>8 DEF SmuStart, locals
    <2>3. \A t \in Txns : Unsent(t) => Unsent(t)'
      BY <2>1, <2>2 DEF Unsent, MailboxTypes, Txns
    <2>4. \A t \in Txns : runs'[t] <= 1 /\ (msg' = t => runs'[t] = 0)
      BY <2>1, <2>2 DEF OnceInv, MailboxTypes, Txns
    <2>5. Calls'
      BY <2>2 DEF OnceInv, Calls
    <2>6. \A q \in Procs : pc'[q] \in BeforeDoorbell => Unsent(txn[q])'
      <3> SUFFICES ASSUME NEW q \in Procs, pc'[q] \in BeforeDoorbell PROVE Unsent(txn[q])'
        OBVIOUS
      <3>1. txn[q] \in Txns /\ Unsent(txn[q])
        BY <2>2 DEF OnceInv, Calls, BeforeDoorbell
      <3> QED BY <2>2, <2>3, <3>1 DEF Unsent
    <2> QED BY <2>2, <2>3, <2>4, <2>5, <2>6 DEF OnceInv
  <1>9. ASSUME UNCHANGED <<pc, txn, msg, runs, next>> PROVE OnceInv'
    BY <1>9 DEF OnceInv, Calls, Unsent
  <1>10. ASSUME NEW c \in Answers, SmuAnswer(c) PROVE OnceInv'
    BY <1>9, <1>10 DEF SmuAnswer, locals
  <1>11. CASE UNCHANGED vars
    BY <1>9, <1>11 DEF vars, locals, mailbox
  <1> QED BY <1>2, <1>3, <1>4, <1>5, <1>6, <1>7, <1>8, <1>10, <1>11 DEF Next, Step, Smu, Done

\* In every behaviour no call makes the SMU run its command twice, whether over
\* the driver, over the registers, or after a crash, and with or without the lock
\* (nb_smu_ops.c:184-212, osdep_linux_smu_kernel_module.c:264-273).
THEOREM OnceCorrect == Spec => []AtMostOnce
  <1>1. TypeOK /\ OnceInv /\ [Next]_vars => OnceInv'
    BY OnceNext
  <1>2. OnceInv => AtMostOnce
    BY DEF OnceInv, AtMostOnce
  <1> QED BY <1>1, <1>2, TypeCorrect, OnceInit, PTL DEF Spec

=============================================================================

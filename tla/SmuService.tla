----------------------------- MODULE SmuService -----------------------------
(***************************************************************************)
(* What smu_service_req() and smu_service_test() promise to processes that *)
(* share one SMU and a lock: they take turns; a command reaches the SMU    *)
(* only in its caller's turn and runs at most once; and a request that is  *)
(* answered OK has run and, where a failed read is reported, brings its own*)
(* results, provided that nothing was owed to an earlier caller when its   *)
(* turn began.  A caller that waits too long for its turn is told Busy and *)
(* never gets it; the SMU may answer Busy too, to one that had its turn.   *)
(***************************************************************************)
EXTENDS Naturals

CONSTANTS
    Procs, NoProc, Txns, Kinds, Codes,
    Sure            \* the processes whose failed reads are reported

VARIABLES
    cur, op,        \* the call that each process is in, 0 for none, and its kind
    used,           \* the calls made so far
    turn,           \* the process whose turn it is
    alone,          \* did its turn begin with nothing owed?
    owed,           \* commands sent and not answered
    ran,            \* commands that the SMU has started
    reply           \* what the caller is told

vars == <<cur, op, used, turn, alone, owed, ran, reply>>

NoReply == [code |-> "none", own |-> FALSE]

Init ==
    /\ cur = [p \in Procs |-> 0]
    /\ op = [p \in Procs |-> "req"]
    /\ used = {}
    /\ turn = NoProc
    /\ alone = [p \in Procs |-> FALSE]
    /\ owed = {} /\ ran = {}
    /\ reply = [p \in Procs |-> NoReply]

Invoke(p, t, k) ==
    /\ cur[p] = 0
    /\ t \notin used
    /\ used' = used \cup {t}
    /\ cur' = [cur EXCEPT ![p] = t]
    /\ op' = [op EXCEPT ![p] = k]
    /\ UNCHANGED <<turn, alone, owed, ran, reply>>

Waiting(p) == cur[p] # 0 /\ reply[p] = NoReply

Begin(p) ==
    /\ turn = NoProc
    /\ turn' = p
    /\ Waiting(p)
    /\ alone' = [alone EXCEPT ![p] = owed = {}]
    /\ UNCHANGED <<cur, op, used, owed, ran, reply>>

\* The caller waited too long for its turn.
Refuse(p) ==
    /\ turn # p
    /\ UNCHANGED turn
    /\ Waiting(p)
    /\ \E own \in BOOLEAN : reply' = [reply EXCEPT ![p] = [code |-> "Busy", own |-> own]]
    /\ UNCHANGED <<cur, op, used, alone, owed, ran>>

\* A command is sent once.  It takes the place of one that was never started, and
\* the answer to an earlier one may be taken with it.
Sends(t) ==
    /\ t \notin owed \cup ran
    /\ owed' \in {{t} \cup (owed \cap ran), {t}}
    /\ UNCHANGED ran

\* A command is sent, started and answered in one step, with nothing running.
Executes(t) ==
    /\ t \notin owed \cup ran
    /\ owed \cap ran = {}
    /\ owed' = {}
    /\ ran' = ran \cup {t}

Submit(p) ==
    /\ turn = p
    /\ Waiting(p)
    /\ Sends(cur[p]) \/ Executes(cur[p])
    /\ UNCHANGED <<cur, op, used, turn, alone, reply>>

Run(t) ==
    /\ t \in owed \ ran
    /\ ran' = ran \cup {t}
    /\ UNCHANGED <<cur, op, used, turn, alone, owed, reply>>

Settle(t) ==
    /\ t \in owed \cap ran
    /\ owed' = owed \ {t}
    /\ UNCHANGED <<cur, op, used, turn, alone, ran, reply>>

\* What may be said of a call that had its turn.
Truthful(p, code, own) ==
    (code = "OK" /\ op[p] = "req" /\ alone[p])
        => cur[p] \in ran /\ (p \in Sure => own)

\* The turn ends with a reply; a call may fail in the act of sending.
Reply(p) ==
    /\ turn = p
    /\ turn' = NoProc
    /\ Waiting(p)
    /\ \E code \in Codes, own \in BOOLEAN :
         /\ Truthful(p, code, own)
         /\ reply' = [reply EXCEPT ![p] = [code |-> code, own |-> own]]
         /\ \/ UNCHANGED <<owed, ran>>
            \/ code = "Failed" /\ (Sends(cur[p]) \/ Executes(cur[p]))
    /\ UNCHANGED <<cur, op, used, alone>>

\* The call is over: it has its reply, or its process is killed.
Leave(p) ==
    /\ cur[p] # 0
    /\ cur' = [cur EXCEPT ![p] = 0]
    /\ op' = [op EXCEPT ![p] = "req"]
    /\ alone' = [alone EXCEPT ![p] = FALSE]
    /\ reply' = [reply EXCEPT ![p] = NoReply]
    /\ turn' = IF turn = p THEN NoProc ELSE turn
    /\ UNCHANGED <<used, owed, ran>>

Next ==
    \/ \E p \in Procs :
         \/ \E t \in Txns, k \in Kinds : Invoke(p, t, k)
         \/ Begin(p) \/ Refuse(p) \/ Submit(p) \/ Reply(p) \/ Leave(p)
    \/ \E t \in Txns : Run(t) \/ Settle(t)

Spec == Init /\ [][Next]_vars

=============================================================================

---------------------------- MODULE SmnRegisters ----------------------------
(***************************************************************************)
(* What smn_reg_read() and smn_reg_write() promise to SmuMailbox: an access*)
(* takes effect in one step, on the register that it names, or it fails and*)
(* says so; only a read over PCI may fail and return all ones without a    *)
(* word.  The firmware changes registers as well.                          *)
(***************************************************************************)
EXTENDS Naturals, Sequences

CONSTANTS
    Procs, Regs, Vals,
    Blind,          \* the processes whose failed reads may go unreported
    AllOnes         \* what they are then told

VARIABLES
    regs,       \* the registers
    call,       \* the access that each process is in: <<op, register, value>>, or <<>>
    result      \* what it returns: <<value, did it fail?>>, or <<>>

vars == <<regs, call, result>>

Calls == {"read", "write"} \X Regs \X Vals

Init ==
    /\ regs \in [Regs -> Vals]
    /\ call = [p \in Procs |-> <<>>]
    /\ result = [p \in Procs |-> <<>>]

Invoke(p) ==
    /\ call[p] = <<>>
    /\ \E c \in Calls : call' = [call EXCEPT ![p] = c]
    /\ UNCHANGED <<regs, result>>

Pending(p) == call[p] # <<>> /\ result[p] = <<>>

Written(p) ==
    /\ call[p][1] = "write"
    /\ regs' = [regs EXCEPT ![call[p][2]] = call[p][3]]

Read(p) ==
    /\ Pending(p) /\ call[p][1] = "read"
    /\ result' = [result EXCEPT ![p] = <<regs[call[p][2]], FALSE>>]
    /\ UNCHANGED <<regs, call>>

Write(p) ==
    /\ Pending(p) /\ Written(p)
    /\ \E v \in Vals : result' = [result EXCEPT ![p] = <<v, FALSE>>]
    /\ UNCHANGED call

\* A failed write may have had its effect, a failed read returns anything.
Fail(p) ==
    /\ Pending(p)
    /\ Written(p) \/ UNCHANGED regs
    /\ \E v \in Vals : result' = [result EXCEPT ![p] = <<v, TRUE>>]
    /\ UNCHANGED call

\* The read has failed, and the caller cannot tell all ones from a register's value.
Misread(p) ==
    /\ p \in Blind
    /\ Pending(p) /\ call[p][1] = "read"
    /\ result' = [result EXCEPT ![p] = <<AllOnes, FALSE>>]
    /\ UNCHANGED <<regs, call>>

\* The access is over: it returns, or its process is killed.
Leave(p) ==
    /\ call[p] # <<>>
    /\ call' = [call EXCEPT ![p] = <<>>]
    /\ result' = [result EXCEPT ![p] = <<>>]
    /\ UNCHANGED regs

Firmware ==
    /\ \E r \in Regs, v \in Vals : regs' = [regs EXCEPT ![r] = v]
    /\ UNCHANGED <<call, result>>

Next ==
    \/ \E p \in Procs :
         \/ Invoke(p) \/ Read(p) \/ Misread(p) \/ Write(p) \/ Fail(p) \/ Leave(p)
    \/ Firmware

Spec == Init /\ [][Next]_vars

=============================================================================

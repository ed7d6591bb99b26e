--------------------------- MODULE HandlesProofs ---------------------------
(***************************************************************************)
(* Proofs about Handles, for any handles and processors.                   *)
(***************************************************************************)
EXTENDS Handles, FiniteSetTheorems, TLAPS

\* A handle has a backend from its opening to its end.
Owned ==
    /\ ry \notin open
    /\ \A h \in Handles :
         made[h] # "none" <=> (h \in open \/ (h = ry /\ pc \in {"mp1", "psmu", "undo"}))

\* is_smu without a handle of the driver is what a failure has left, and then the
\* driver is still there.
Choice ==
    ~mixed =>
        /\ failed => driver /\ is_smu
        /\ pc = "kmod" => driver /\ is_smu /\ open = {}
        /\ pc = "mem" => ~is_smu
        /\ is_smu => failed \/ pc = "kmod" \/ \E h \in Handles : made[h] = "kmod"

\* A handle of the driver is alone.
Alone ==
    ~mixed => \A g, h \in Handles : made[g] = "kmod" /\ made[h] # "none" => g = h

\* What a handle may hold by then.
MayHold(h) ==
    IF made[h] = "kmod" THEN {"ry", "mp1", "psmu", "values", "os"} \cup KmodFiles
    ELSE IF made[h] = "mem" THEN {"ry", "mp1", "psmu", "values", "os", "pci"}
    ELSE IF h = ry THEN {"ry"} ELSE {}

Held ==
    ~mixed => /\ \A h \in Handles : held[h] \subseteq MayHold(h)
              /\ phy_map # NoHandle => phy_map \in open /\ made[phy_map] = "mem"

Inv == Owned /\ Choice /\ Alone /\ BackendOfHandle /\ Held

LEMMA ModelFamilies ==
    ASSUME NEW p \in Processors
    PROVE  cpuid_load_family(p) \in Families \cup {"UNKNOWN"}
  BY DEF cpuid_load_family, Models, Families, Mobile, Newer, Renoirs, Zen1, Desktop,
         Phoenixes, Strixes

\* Types: every variable keeps its type.
THEOREM TypeCorrect == Spec => []TypeOK
<1>1. Init => TypeOK
  BY HandleAssumption DEF Init, TypeOK
<1>2. TypeOK /\ [Next]_vars => TypeOK'
  <2> SUFFICES ASSUME TypeOK, [Next]_vars PROVE TypeOK'
    OBVIOUS
  <2> USE HandleAssumption DEF TypeOK, machine, boxes, vars
  <2>1. CASE DriverComes \/ DriverGoes
    BY <2>1 DEF DriverComes, DriverGoes
  <2>2. CASE DetectDriver
    BY <2>2 DEF DetectDriver
  <2>3. CASE OpenKmod
    BY <2>3 DEF OpenKmod, Resources
  <2>4. CASE OpenMem
    BY <2>4 DEF OpenMem, Resources
  <2>5. CASE OpenFails
    BY <2>5 DEF OpenFails
  <2>6. CASE GetMp1
    BY <2>6 DEF GetMp1, Resources
  <2>7. CASE GetPsmu
    BY <2>7 DEF GetPsmu, Resources
  <2>8. CASE GetSmuFails
    BY <2>8 DEF GetSmuFails
  <2>9. CASE Undo
    BY <2>9 DEF Undo, Cleanup
  <2>10. ASSUME NEW h \in Handles, OpenRy(h) PROVE TypeOK'
    <3>1. cpuid_family' \in Families \cup {"UNKNOWN", "WAIT_FOR_LOAD"}
      BY <2>10, ModelFamilies DEF OpenRy
    <3> QED
      BY <2>10, <3>1 DEF OpenRy, Resources
  <2>11. ASSUME NEW h \in Handles, Close(h) PROVE TypeOK'
    BY <2>11 DEF Close, Cleanup
  <2>12. ASSUME NEW h \in Handles, InitTable(h) PROVE TypeOK'
    BY <2>12 DEF InitTable, Resources
  <2>13. CASE UNCHANGED vars
    BY <2>13
  <2> QED
    BY <2>1, <2>2, <2>3, <2>4, <2>5, <2>6, <2>7, <2>8, <2>9, <2>10, <2>11, <2>12, <2>13
    DEF Next
<1> QED
  BY <1>1, <1>2, PTL DEF Spec

-----------------------------------------------------------------------------
\* A handle that is closed, or undone, takes is_smu with it: what is left are handles
\* of /dev/mem, or none.
LEMMA CleanupSafe ==
    ASSUME TypeOK, Inv, NEW h \in Handles, made[h] # "none", Cleanup(h), UNCHANGED mixed,
           UNCHANGED driver, pc' = "idle", ry' = NoHandle, pc \in {"idle", "undo"},
           open' = open \ {h}, pc = "undo" => h = ry
    PROVE  Inv'
<1> USE DEF TypeOK, Cleanup
<1>1. \A g \in Handles : made'[g] = IF g = h THEN "none" ELSE made[g]
  OBVIOUS
<1>2. Owned'
  BY <1>1, HandleAssumption DEF Inv, Owned
<1>3. ~mixed => \A g \in Handles : made'[g] # "kmod"
  BY <1>1 DEF Inv, Alone, BackendOfHandle
<1>4. Choice' /\ Alone' /\ BackendOfHandle'
  BY <1>3 DEF Choice, Alone, BackendOfHandle
<1>5. ASSUME ~mixed PROVE \A g \in Handles : held'[g] \subseteq MayHold(g)'
  <2>1. CASE made[h] = "kmod"
    <3>1. held[h] \subseteq {"ry", "mp1", "psmu", "values", "os"} \cup KmodFiles /\ is_smu
      BY <1>5, <2>1 DEF Inv, Held, MayHold, BackendOfHandle
    <3>2. held'[h] = {}
      BY <3>1 DEF Released
    <3>3. \A g \in Handles \ {h} : held'[g] = held[g] /\ g # ry'
      BY HandleAssumption
    <3> QED
      BY <1>1, <1>5, <3>2, <3>3 DEF Inv, Held, MayHold, Owned
  <2>2. CASE made[h] = "mem"
    <3>1. held[h] \subseteq {"ry", "mp1", "psmu", "values", "os", "pci"} /\ ~is_smu
      BY <1>5, <2>2 DEF Inv, Held, MayHold, BackendOfHandle
    <3>2. held'[h] = {}
      BY <3>1 DEF Released
    <3>3. \A g \in Handles \ {h} : held'[g] = held[g] /\ g # ry'
      BY HandleAssumption
    <3> QED
      BY <1>1, <1>5, <3>2, <3>3 DEF Inv, Held, MayHold, Owned
  <2> QED
    BY <2>1, <2>2
<1>6. ~mixed /\ phy_map' # NoHandle => phy_map' \in open' /\ made'[phy_map'] = "mem"
  <2>1. CASE is_smu
    BY <2>1, <1>1 DEF Inv, Held, BackendOfHandle
  <2>2. CASE ~is_smu
    BY <2>2
  <2> QED
    BY <2>1, <2>2
<1> QED
  BY <1>2, <1>4, <1>5, <1>6 DEF Inv, Held

LEMMA InvStep == FoundDriverStays /\ TypeOK /\ Inv /\ [Next]_vars => Inv'
<1> SUFFICES ASSUME FoundDriverStays, TypeOK, Inv, [Next]_vars PROVE Inv'
  OBVIOUS
<1> USE HandleAssumption DEF TypeOK, Inv, machine, boxes, vars
<1>1. CASE DriverComes
  BY <1>1 DEF DriverComes, Owned, Choice, Alone, BackendOfHandle, Held, MayHold
<1>2. CASE DriverGoes
  BY <1>2 DEF DriverGoes, Owned, Choice, Alone, BackendOfHandle, Held, MayHold
<1>3. CASE DetectDriver
  <2>1. Owned' /\ Alone' /\ Held'
    BY <1>3 DEF DetectDriver, Owned, Alone, Held, MayHold
  <2>2. ASSUME ~mixed' PROVE ~mixed /\ (open = {} \/ (~driver /\ \A h \in open : made[h] # "kmod"))
    BY <1>3, <2>2 DEF DetectDriver, Beside
  <2>3. ASSUME ~mixed' PROVE \A h \in Handles : made[h] # "kmod"
    BY <1>3, <2>2, <2>3 DEF DetectDriver, Owned
  <2>4. Choice'
    BY <1>3, <2>2, <2>3 DEF DetectDriver, Choice
  <2>5. BackendOfHandle'
    <3>1. ASSUME ~mixed', NEW h \in Handles, made[h] # "none" PROVE ~driver /\ ~is_smu
      BY <1>3, <2>2, <2>3, <3>1 DEF DetectDriver, Owned, BackendOfHandle
    <3> QED
      BY <1>3, <2>3, <3>1 DEF DetectDriver, BackendOfHandle
  <2> QED
    BY <2>1, <2>4, <2>5
<1>4. CASE OpenKmod
  <2> USE <1>4 DEF OpenKmod
  <2>0. made[ry] = "none" /\ \A h \in Handles : made'[h] = IF h = ry THEN "kmod" ELSE made[h]
    BY DEF Owned
  <2>1. Owned'
    BY <2>0 DEF Owned
  <2>2. ~mixed => \A h \in Handles \ {ry} : made[h] = "none"
    BY DEF Choice, Owned
  <2>3. Choice' /\ Alone' /\ BackendOfHandle'
    BY <2>0, <2>2 DEF Choice, Alone, BackendOfHandle
  <2>4. Held'
    <3>1. ASSUME ~mixed, NEW h \in Handles PROVE held'[h] \subseteq MayHold(h)'
      <4>1. CASE h = ry
        BY <2>0, <3>1, <4>1 DEF Held, MayHold
      <4>2. CASE h # ry
        BY <2>0, <3>1, <4>2 DEF Held, MayHold
      <4> QED
        BY <4>1, <4>2
    <3> QED
      BY <3>1, <2>0 DEF Held
  <2> QED
    BY <2>1, <2>3, <2>4
<1>5. CASE OpenMem
  <2> USE <1>5 DEF OpenMem
  <2>0. made[ry] = "none" /\ \A h \in Handles : made'[h] = IF h = ry THEN "mem" ELSE made[h]
    BY DEF Owned
  <2>1. Owned'
    BY <2>0 DEF Owned
  <2>2. ~mixed => ~is_smu /\ \A h \in Handles : made[h] # "kmod"
    BY DEF Choice, BackendOfHandle
  <2>3. Choice' /\ Alone' /\ BackendOfHandle'
    BY <2>0, <2>2 DEF Choice, Alone, BackendOfHandle
  <2>4. Held'
    <3>1. ASSUME ~mixed, NEW h \in Handles PROVE held'[h] \subseteq MayHold(h)'
      <4>1. CASE h = ry
        BY <2>0, <3>1, <4>1 DEF Held, MayHold
      <4>2. CASE h # ry
        BY <2>0, <3>1, <4>2 DEF Held, MayHold
      <4> QED
        BY <4>1, <4>2
    <3> QED
      BY <3>1, <2>0 DEF Held, Owned
  <2> QED
    BY <2>1, <2>3, <2>4
<1>6. CASE OpenFails
  <2> USE <1>6 DEF OpenFails
  <2>1. Owned' /\ Alone' /\ BackendOfHandle'
    BY DEF Owned, Alone, BackendOfHandle
  <2>2. Choice'
    BY DEF Choice
  <2>3. Held'
    BY DEF Held, MayHold, Owned
  <2> QED
    BY <2>1, <2>2, <2>3
<1>7. CASE GetMp1 \/ GetPsmu \/ GetSmuFails
  <2>1. Owned' /\ Choice' /\ Alone' /\ BackendOfHandle'
    BY <1>7 DEF GetMp1, GetPsmu, GetSmuFails, Owned, Choice, Alone, BackendOfHandle
  <2>2. made[ry] # "none" /\ UNCHANGED <<made, phy_map, mixed>> /\ open \subseteq open'
        /\ \A h \in Handles :
             held'[h] \subseteq held[h] \cup (IF h = ry THEN {"mp1", "psmu"} ELSE {})
    BY <1>7 DEF GetMp1, GetPsmu, GetSmuFails, Owned
  <2>3. \A h \in Handles : MayHold(h)' = MayHold(h)
    BY <1>7, <2>2 DEF GetMp1, GetPsmu, GetSmuFails, MayHold
  <2>4. Held'
    <3>1. ASSUME ~mixed, NEW h \in Handles PROVE held'[h] \subseteq MayHold(h)
      <4>1. CASE h = ry
        BY <2>2, <3>1, <4>1 DEF Held, MayHold
      <4>2. CASE h # ry
        BY <2>2, <3>1, <4>2 DEF Held
      <4> QED
        BY <4>1, <4>2
    <3> QED
      BY <3>1, <2>2, <2>3 DEF Held
  <2> QED
    BY <2>1, <2>4
<1>8. CASE Undo
  BY <1>8, CleanupSafe DEF Undo, Owned
<1>9. ASSUME NEW h \in Handles, OpenRy(h) PROVE Inv'
  <2> USE <1>9 DEF OpenRy
  <2>1. Owned' /\ Choice' /\ Alone' /\ BackendOfHandle'
    BY DEF Owned, Choice, Alone, BackendOfHandle
  <2>2. Held'
    <3>1. ASSUME ~mixed, NEW g \in Handles PROVE held'[g] \subseteq MayHold(g)'
      BY <3>1 DEF Held, MayHold, Owned
    <3> QED
      BY <3>1 DEF Held
  <2> QED
    BY <2>1, <2>2
<1>10. ASSUME NEW h \in Handles, Close(h) PROVE Inv'
  BY <1>10, CleanupSafe DEF Close, Owned
<1>11. ASSUME NEW h \in Handles, InitTable(h) PROVE Inv'
  <2> USE <1>11 DEF InitTable
  <2>1. Owned' /\ Choice' /\ Alone' /\ BackendOfHandle'
    BY DEF Owned, Choice, Alone, BackendOfHandle
  <2>2. made[h] # "none"
    BY DEF Owned
  <2>3. ASSUME ~mixed, NEW g \in Handles PROVE held'[g] \subseteq MayHold(g)'
    <3>1. held'[g] \subseteq held[g] \cup (IF g = h THEN {"values"} ELSE {})
      OBVIOUS
    <3> QED
      BY <3>1, <2>2, <2>3 DEF Held, MayHold
  <2>4. ~mixed /\ phy_map' # NoHandle => phy_map' \in open /\ made[phy_map'] = "mem"
    BY <2>2 DEF Held, BackendOfHandle
  <2> QED
    BY <2>1, <2>3, <2>4 DEF Held
<1>12. CASE UNCHANGED vars
  BY <1>12 DEF Owned, Choice, Alone, BackendOfHandle, Held, MayHold
<1> QED
  BY <1>1, <1>2, <1>3, <1>4, <1>5, <1>6, <1>7, <1>8, <1>9, <1>10, <1>11, <1>12 DEF Next

LEMMA InvAlways == ASSUME FoundDriverStays PROVE Spec => []Inv
<1>1. Init => Inv
  BY HandleAssumption
  DEF Init, Inv, Owned, Choice, Alone, BackendOfHandle, Held, MayHold
<1>2. FoundDriverStays /\ TypeOK /\ Inv /\ [Next]_vars => Inv'
  BY InvStep
<1> QED
  BY <1>1, <1>2, TypeCorrect, PTL DEF Spec

\* Backend: when a driver that was found stays until it has been opened, every access
\* of a handle goes to the backend that made it.
THEOREM BackendCorrect == ASSUME FoundDriverStays PROVE Spec => []BackendOfHandle
<1>1. Inv => BackendOfHandle
  BY DEF Inv
<1> QED
  BY <1>1, InvAlways, PTL

\* Release: and nothing is left of a handle that is closed or could not be opened.
THEOREM ReleaseCorrect == ASSUME FoundDriverStays PROVE Spec => []NothingLeft
<1>1. TypeOK /\ Inv => NothingLeft
  BY DEF TypeOK, Inv, Owned, Held, MayHold, NothingLeft
<1> QED
  BY <1>1, InvAlways, TypeCorrect, PTL

-----------------------------------------------------------------------------
\* The registers of the two mailboxes.

\* The six arguments of a mailbox lie one word apart.
Arguments(base) == {base + 4 * k : k \in 0 .. 5}

LEMMA SixArguments ==
    ASSUME NEW base \in Nat
    PROVE  IsFiniteSet(Arguments(base)) /\ Cardinality(Arguments(base)) = 6
<1> DEFINE place == [k \in 0 .. 5 |-> base + 4 * k]
<1>1. place \in Bijection(0 .. 5, Arguments(base))
  <2>1. \A j, k \in 0 .. 5 : base + 4 * j = base + 4 * k => j = k
    OBVIOUS
  <2>2. place \in [0 .. 5 -> Arguments(base)]
    BY DEF Arguments
  <2>3. \A x \in Arguments(base) : \E k \in 0 .. 5 : place[k] = x
    BY DEF Arguments
  <2> QED
    BY <2>1, <2>2, <2>3 DEF Bijection, Injection, Surjection, IsInjective
<1>2. IsFiniteSet(0 .. 5) /\ Cardinality(0 .. 5) = 6
  <2>1. 0 \in Int /\ 5 \in Int
    OBVIOUS
  <2>2. IsFiniteSet(0 .. 5) /\ Cardinality(0 .. 5) = IF 0 > 5 THEN 0 ELSE 5 - 0 + 1
    BY <2>1, FS_Interval, Zenon
  <2> QED
    BY <2>2
<1> QED
  BY <1>1, <1>2, FS_Bijection DEF ExistsBijection

\* A mailbox has eight registers, if neither the message nor the response lies among
\* the arguments.
LEMMA EightRegisters ==
    ASSUME NEW m, m.arg_base \in Nat, m.msg # m.rep,
           m.msg \notin Arguments(m.arg_base), m.rep \notin Arguments(m.arg_base)
    PROVE  IsFiniteSet(Registers(m)) /\ Cardinality(Registers(m)) = 8
<1> DEFINE A == Arguments(m.arg_base)
<1>1. IsFiniteSet(A) /\ Cardinality(A) = 6
  BY SixArguments
<1>2. Registers(m) = (A \cup {m.rep}) \cup {m.msg}
  BY DEF Registers, Arguments
<1> HIDE DEF A
<1>3. m.rep \notin A /\ m.msg \notin A \cup {m.rep}
  BY DEF A
<1>4. IsFiniteSet(A \cup {m.rep}) /\ Cardinality(A \cup {m.rep}) = 7
  BY <1>1, <1>3, FS_AddElement
<1> DEFINE B == A \cup {m.rep}
<1> HIDE DEF B
<1>5. IsFiniteSet(B \cup {m.msg}) /\ Cardinality(B \cup {m.msg}) = 8
  BY <1>3, <1>4, FS_AddElement DEF B
<1> QED
  BY <1>2, <1>5 DEF B

\* The mailboxes of every family.
LEMMA MailboxesApart ==
    ASSUME NEW f
    PROVE  /\ Cardinality(Registers(Mp1Mailbox(f)) \cup Registers(PsmuMailbox(f))) = 16
           /\ NoMailbox \notin {Mp1Mailbox(f), PsmuMailbox(f)}
<1> DEFINE m == Mp1Mailbox(f)
           p == PsmuMailbox(f)
<1>1. \/ f \in Desktop /\ m = Mailbox(\h3B10530, \h3B1057C, \h3B109C4)
      \/ f \notin Desktop /\ m \in {Mailbox(\h3B10528, \h3B10578, \h3B10998),
                                    Mailbox(\h3B10928, \h3B10978, \h3B10998),
                                    Mailbox(\h3B10528, \h3B10564, \h3B10998)}
  BY DEF Mp1Mailbox, Desktop, Strixes, Phoenixes
<1>2. p = IF f \in Desktop THEN Mailbox(\h3B10524, \h3B10570, \h3B10A40)
          ELSE Mailbox(\h3B10a20, \h3B10a80, \h3B10a88)
  BY DEF PsmuMailbox
<1> HIDE DEF m, p
<1>3. IsFiniteSet(Registers(m)) /\ Cardinality(Registers(m)) = 8
  <2>1. /\ m.arg_base \in Nat /\ m.msg # m.rep
        /\ m.msg \notin Arguments(m.arg_base) /\ m.rep \notin Arguments(m.arg_base)
    BY <1>1 DEF Mailbox, Arguments
  <2> QED
    BY <2>1, EightRegisters
<1>4. IsFiniteSet(Registers(p)) /\ Cardinality(Registers(p)) = 8
  <2>1. /\ p.arg_base \in Nat /\ p.msg # p.rep
        /\ p.msg \notin Arguments(p.arg_base) /\ p.rep \notin Arguments(p.arg_base)
    BY <1>2 DEF Mailbox, Arguments
  <2> QED
    BY <2>1, EightRegisters
<1>5. Registers(m) \cap Registers(p) = {}
  BY <1>1, <1>2 DEF Mailbox, Registers
<1>6. Cardinality(Registers(m) \cup Registers(p)) = 16
  BY <1>3, <1>4, <1>5, FS_Union, FS_EmptySet
<1>7. NoMailbox \notin {m, p}
  BY <1>1, <1>2 DEF NoMailbox, Mailbox
<1> QED
  BY <1>6, <1>7 DEF m, p

\* A handle has the mailboxes of one family.
Boxes ==
    /\ ry \notin open
    /\ pc = "psmu" => mp1[ry] = Mp1Mailbox(cpuid_family)
    /\ \A h \in open : \E f : mp1[h] = Mp1Mailbox(f) /\ psmu[h] = PsmuMailbox(f)

LEMMA BoxesStep == TypeOK /\ Boxes /\ [Next]_vars => Boxes'
<1> SUFFICES ASSUME TypeOK, Boxes, [Next]_vars PROVE Boxes'
  OBVIOUS
<1> USE HandleAssumption DEF TypeOK, Boxes, boxes, vars, machine
<1>1. CASE DriverComes \/ DriverGoes \/ DetectDriver \/ OpenKmod \/ OpenMem \/ OpenFails
           \/ GetSmuFails \/ UNCHANGED vars
  BY <1>1 DEF DriverComes, DriverGoes, DetectDriver, OpenKmod, OpenMem, OpenFails, GetSmuFails
<1>2. CASE GetMp1
  <2>1. mp1'[ry'] = Mp1Mailbox(cpuid_family') /\ UNCHANGED <<ry, open, psmu>>
    BY <1>2 DEF GetMp1
  <2>2. \A h \in open : mp1'[h] = mp1[h]
    BY <1>2 DEF GetMp1
  <2> QED
    BY <2>1, <2>2
<1>3. CASE GetPsmu
  <2>1. psmu'[ry] = PsmuMailbox(cpuid_family) /\ mp1'[ry] = Mp1Mailbox(cpuid_family)
    BY <1>3 DEF GetPsmu
  <2>2. \A h \in open : psmu'[h] = psmu[h] /\ mp1'[h] = mp1[h]
    BY <1>3 DEF GetPsmu
  <2>3. open' = open \cup {ry} /\ ry' = NoHandle /\ ry # NoHandle /\ pc' = "idle"
    BY <1>3 DEF GetPsmu
  <2> QED
    BY <2>1, <2>2, <2>3
<1>4. CASE Undo
  BY <1>4 DEF Undo, Cleanup
<1>5. ASSUME NEW h \in Handles, OpenRy(h) \/ InitTable(h) PROVE Boxes'
  BY <1>5 DEF OpenRy, InitTable
<1>6. ASSUME NEW h \in Handles, Close(h) PROVE Boxes'
  BY <1>6 DEF Close, Cleanup
<1> QED
  BY <1>1, <1>2, <1>3, <1>4, <1>5, <1>6 DEF Next

\* The mailboxes of every handle are apart, on every processor and whatever happens to
\* the driver (nb_smu_ops.c:17-43, 274-345).
THEOREM RegistersCorrect == Spec => []RegistersApart
<1>1. Init => Boxes
  BY HandleAssumption DEF Init, Boxes
<1>2. Boxes => RegistersApart
  BY MailboxesApart DEF Boxes, RegistersApart
<1> QED
  BY <1>1, <1>2, BoxesStep, TypeCorrect, PTL DEF Spec

=============================================================================

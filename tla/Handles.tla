------------------------------ MODULE Handles ------------------------------
(***************************************************************************)
(* The life of ryzen_access handles in one process: init_ryzenadj() and    *)
(* cleanup_ryzenadj() of lib/api.c, the CPU family that cpuid.c detects,   *)
(* the backend that osdep_linux.c chooses and dispatches to, and what each *)
(* backend acquires and releases.  The choice (is_smu) and the window of   *)
(* /dev/mem are one per process; the driver comes and goes by itself.      *)
(***************************************************************************)
EXTENDS Messages, Integers, FiniteSets

CONSTANTS
    Handles, NoHandle,      \* ryzen_access objects, and NULL
    Processors,             \* what CPUID may say
    FoundDriverStays        \* bound: a driver that was found is not unloaded before it
                            \* has been opened

ASSUME HandleAssumption == NoHandle \notin Handles
ASSUME DriverAssumption == FoundDriverStays \in BOOLEAN

\* The processors of each family, as CPUID's family and model.
Models == [
    RAVEN |-> {<<\h17, 17>>}, PICASSO |-> {<<\h17, 24>>}, DALI |-> {<<\h17, 32>>},
    RENOIR |-> {<<\h17, 96>>}, LUCIENNE |-> {<<\h17, 104>>},
    VANGOGH |-> {<<\h17, 144>>, <<\h17, 145>>}, MENDOCINO |-> {<<\h17, 160>>},
    CEZANNE |-> {<<\h19, 80>>}, REMBRANDT |-> {<<\h19, 64>>, <<\h19, 68>>},
    DRAGONRANGE |-> {<<\h19, 97>>}, PHOENIX |-> {<<\h19, 116>>, <<\h19, 120>>},
    HAWKPOINT |-> {<<\h19, 117>>}, STRIXPOINT |-> {<<\h1A, 32>>, <<\h1A, 36>>},
    FIRERANGE |-> {<<\h1A, 68>>}, KRACKANPOINT |-> {<<\h1A, 96>>},
    STRIXHALO |-> {<<\h1A, 112>>}]

\* The extended fields of CPUID are added to the family and put above the model.
cpuid_load_family(processor) ==
    LET model == <<processor.base_family + processor.ext_family,
                   processor.base_model + 16 * processor.ext_model>>
    IN  IF processor.amd /\ \E f \in DOMAIN Models : model \in Models[f]
          THEN CHOOSE f \in DOMAIN Models : model \in Models[f] ELSE "UNKNOWN"

\* The registers of a mailbox: message, response and the first of six arguments.
Mailbox(msg, rep, arg_base) == [msg |-> msg, rep |-> rep, arg_base |-> arg_base]
NoMailbox == Mailbox(0, 0, 0)

Mp1Mailbox(family) ==
    CASE family \in {"REMBRANDT", "VANGOGH", "MENDOCINO"} \cup Phoenixes ->
            Mailbox(\h3B10528, \h3B10578, \h3B10998)
      [] family \in Strixes -> Mailbox(\h3B10928, \h3B10978, \h3B10998)
      [] family \in Desktop -> Mailbox(\h3B10530, \h3B1057C, \h3B109C4)
      [] OTHER -> Mailbox(\h3B10528, \h3B10564, \h3B10998)

\* Mutant: the response register of MP1 is pasted into the other mailbox.
PsmuMailbox_Pasted(family) ==
    IF family \in Desktop THEN Mailbox(\h3B10524, \h3B1057C, \h3B10A40)
    ELSE Mailbox(\h3B10a20, \h3B10a80, \h3B10a88)

PsmuMailbox(family) ==
    IF family \in Desktop THEN Mailbox(\h3B10524, \h3B10570, \h3B10A40)
    ELSE Mailbox(\h3B10a20, \h3B10a80, \h3B10a88)

Registers(m) == {m.msg, m.rep} \cup {m.arg_base + 4 * k : k \in 0 .. 5}

\* What a handle may hold: its memory, descriptors of the driver, PCI access.
KmodFiles == {"smn", "raw", "table"}
Resources == {"ry", "os", "pci", "mp1", "psmu", "values"} \cup KmodFiles

VARIABLES
    cpu, cpuid_family,      \* the processor; its family, once it was asked for
    driver,                 \* is a compatible ryzen_smu loaded?
    pc, ry,                 \* where init_ryzenadj() is, on which handle
    open,                   \* the handles that the program has
    made,                   \* which backend created the os_access of a handle
    held,                   \* what each handle holds
    mp1, psmu,              \* the mailboxes of each handle
    is_smu,                 \* the backend that every access is dispatched to
    phy_map,                \* the handle that mapped the window of /dev/mem
    failed, mixed           \* history: the driver was found and could not be opened;
                            \* a handle was opened beside one that uses the driver,
                            \* or the other way round

machine == <<cpu, driver>>
boxes == <<mp1, psmu>>
vars == <<machine, cpuid_family, pc, ry, open, made, held, boxes, is_smu, phy_map,
          failed, mixed>>

Init ==
    /\ cpu \in Processors /\ cpuid_family = "WAIT_FOR_LOAD"
    /\ driver \in BOOLEAN
    /\ pc = "idle" /\ ry = NoHandle
    /\ open = {}
    /\ made = [h \in Handles |-> "none"]
    /\ held = [h \in Handles |-> {}]
    /\ mp1 = [h \in Handles |-> NoMailbox] /\ psmu = [h \in Handles |-> NoMailbox]
    /\ is_smu = FALSE
    /\ phy_map = NoHandle
    /\ failed = FALSE /\ mixed = FALSE

-----------------------------------------------------------------------------
\* ryzen_smu is loaded or unloaded.
DriverComes ==
    /\ ~driver
    /\ driver' = TRUE
    /\ UNCHANGED <<cpu, cpuid_family, pc, ry, open, made, held, boxes, is_smu, phy_map,
                   failed, mixed>>

DriverGoes ==
    /\ driver
    /\ FoundDriverStays => pc # "kmod" /\ ~failed
    /\ driver' = FALSE
    /\ UNCHANGED <<cpu, cpuid_family, pc, ry, open, made, held, boxes, is_smu, phy_map,
                   failed, mixed>>

\* init_ryzenadj(): NULL for an unsupported processor, or without memory.
OpenRy(h) ==
    /\ pc = "idle" /\ h \notin open
    /\ cpuid_family' = IF cpuid_family = "WAIT_FOR_LOAD" THEN cpuid_load_family(cpu)
                       ELSE cpuid_family
    /\ \/ UNCHANGED <<pc, ry, held>>
       \/ /\ cpuid_family' # "UNKNOWN"
          /\ pc' = "detect" /\ ry' = h
          /\ held' = [held EXCEPT ![h] = @ \cup {"ry"}]
    /\ UNCHANGED <<machine, open, made, boxes, is_smu, phy_map, failed, mixed>>

\* The driver is used for one of two handles.
Beside == open # {} /\ (driver \/ \E h \in open : made[h] = "kmod")

\* init_os_access_obj(): without the driver is_smu keeps the value that it has.
DetectDriver ==
    /\ pc = "detect"
    /\ pc' = IF driver THEN "kmod" ELSE "mem"
    /\ is_smu' = (is_smu \/ driver)
    /\ mixed' = (mixed \/ Beside)
    /\ UNCHANGED <<machine, cpuid_family, ry, open, made, held, boxes, phy_map, failed>>

\* init_os_access_obj_kmod(): only smn is needed, the other files may be missing.
OpenKmod ==
    /\ pc = "kmod" /\ driver
    /\ \E files \in SUBSET KmodFiles :
         /\ "smn" \in files
         /\ held' = [held EXCEPT ![ry] = @ \cup {"os"} \cup files]
    /\ made' = [made EXCEPT ![ry] = "kmod"]
    /\ pc' = "mp1"
    /\ UNCHANGED <<machine, cpuid_family, ry, open, boxes, is_smu, phy_map, failed,
                   mixed>>

\* init_os_access_obj_mem(): PCI access to the root complex.
OpenMem ==
    /\ pc = "mem"
    /\ held' = [held EXCEPT ![ry] = @ \cup {"os", "pci"}]
    /\ made' = [made EXCEPT ![ry] = "mem"]
    /\ pc' = "mp1"
    /\ UNCHANGED <<machine, cpuid_family, ry, open, boxes, is_smu, phy_map, failed,
                   mixed>>

\* Either backend undoes what it did; init_ryzenadj() frees the handle, and is_smu
\* stays as it is.
OpenFails ==
    /\ pc \in {"kmod", "mem"}
    /\ held' = [held EXCEPT ![ry] = {}]
    /\ failed' = (failed \/ pc = "kmod")
    /\ pc' = "idle" /\ ry' = NoHandle
    /\ UNCHANGED <<machine, cpuid_family, open, made, boxes, is_smu, phy_map, mixed>>

\* get_smu(TYPE_MP1)
GetMp1 ==
    /\ pc = "mp1"
    /\ mp1' = [mp1 EXCEPT ![ry] = Mp1Mailbox(cpuid_family)]
    /\ held' = [held EXCEPT ![ry] = @ \cup {"mp1"}]
    /\ pc' = "psmu"
    /\ UNCHANGED <<machine, cpuid_family, ry, open, made, psmu, is_smu, phy_map, failed,
                   mixed>>

\* get_smu(TYPE_PSMU), the last thing that a handle needs.
GetPsmu ==
    /\ pc = "psmu"
    /\ psmu' = [psmu EXCEPT ![ry] = PsmuMailbox(cpuid_family)]
    /\ held' = [held EXCEPT ![ry] = @ \cup {"psmu"}]
    /\ open' = open \cup {ry}
    /\ pc' = "idle" /\ ry' = NoHandle
    /\ UNCHANGED <<machine, cpuid_family, made, mp1, is_smu, phy_map, failed, mixed>>

\* No memory, or the SMU does not pass smu_service_test().
GetSmuFails ==
    /\ pc \in {"mp1", "psmu"}
    /\ pc' = "undo"
    /\ UNCHANGED <<machine, cpuid_family, ry, open, made, held, boxes, is_smu, phy_map,
                   failed, mixed>>

-----------------------------------------------------------------------------
\* Mutant: a descriptor that is optional is forgotten.
Released_ForgetsRaw ==
    IF is_smu THEN {"os", "smn", "table"} ELSE {"os", "pci"}

\* What free_os_access_obj() releases; it goes by is_smu and not by the handle.
Released == IF is_smu THEN {"os"} \cup KmodFiles ELSE {"os", "pci"}

\* Mutant: the next handle is dispatched like this one.
Cleanup_KeepsChoice(h) ==
    /\ held' = [held EXCEPT ![h] = @ \ ({"ry", "mp1", "psmu", "values"} \cup Released)]
    /\ made' = [made EXCEPT ![h] = "none"]
    /\ mp1' = [mp1 EXCEPT ![h] = NoMailbox] /\ psmu' = [psmu EXCEPT ![h] = NoMailbox]
    /\ phy_map' = IF is_smu THEN phy_map ELSE NoHandle
    /\ failed' = FALSE
    /\ UNCHANGED is_smu

\* cleanup_ryzenadj(): the window goes with any handle of /dev/mem, and is_smu is
\* reset for all of them.
Cleanup(h) ==
    /\ held' = [held EXCEPT ![h] = @ \ ({"ry", "mp1", "psmu", "values"} \cup Released)]
    /\ made' = [made EXCEPT ![h] = "none"]
    /\ mp1' = [mp1 EXCEPT ![h] = NoMailbox] /\ psmu' = [psmu EXCEPT ![h] = NoMailbox]
    /\ phy_map' = IF is_smu THEN phy_map ELSE NoHandle
    /\ is_smu' = FALSE /\ failed' = FALSE

\* Mutant: a handle that could not be opened is returned all the same.
Undo_Returned ==
    /\ pc = "undo"
    /\ Cleanup(ry)
    /\ pc' = "idle"
    /\ UNCHANGED <<machine, cpuid_family, ry, open, mixed>>

Undo ==
    /\ pc = "undo"
    /\ Cleanup(ry)
    /\ pc' = "idle" /\ ry' = NoHandle
    /\ UNCHANGED <<machine, cpuid_family, open, mixed>>

Close(h) ==
    /\ pc = "idle" /\ h \in open
    /\ Cleanup(h)
    /\ open' = open \ {h}
    /\ UNCHANGED <<machine, cpuid_family, pc, ry, mixed>>

\* init_table() (PmTable): /dev/mem is mapped anew, then the values are allocated
\* anew; each may fail, and so may what comes before.
InitTable(h) ==
    /\ pc = "idle" /\ h \in open
    /\ phy_map' \in IF is_smu THEN {phy_map} ELSE {phy_map, NoHandle, h}
    /\ \/ UNCHANGED held
       \/ /\ is_smu \/ phy_map' = h
          /\ \E values \in {{}, {"values"}} :
               held' = [held EXCEPT ![h] = (@ \ {"values"}) \cup values]
    /\ UNCHANGED <<machine, cpuid_family, pc, ry, open, made, boxes, is_smu, failed,
                   mixed>>

Next ==
    \/ DriverComes \/ DriverGoes
    \/ DetectDriver \/ OpenKmod \/ OpenMem \/ OpenFails
    \/ GetMp1 \/ GetPsmu \/ GetSmuFails \/ Undo
    \/ \E h \in Handles : OpenRy(h) \/ Close(h) \/ InitTable(h)

Spec == Init /\ [][Next]_vars

-----------------------------------------------------------------------------
\* The type of every variable.
TypeOK ==
    /\ cpu \in Processors /\ driver \in BOOLEAN
    /\ cpuid_family \in Families \cup {"UNKNOWN", "WAIT_FOR_LOAD"}
    /\ pc \in {"idle", "detect", "kmod", "mem", "mp1", "psmu", "undo"}
    /\ ry \in Handles \cup {NoHandle} /\ (ry = NoHandle <=> pc = "idle")
    /\ open \subseteq Handles
    /\ made \in [Handles -> {"none", "kmod", "mem"}]
    /\ held \in [Handles -> SUBSET Resources]
    /\ DOMAIN mp1 = Handles /\ DOMAIN psmu = Handles
    /\ is_smu \in BOOLEAN /\ failed \in BOOLEAN /\ mixed \in BOOLEAN
    /\ phy_map \in Handles \cup {NoHandle}

\* Every access of a handle goes to the backend that made it, whatever handles were
\* opened and closed before and whether the driver has come or gone since; unless
\* two were open at once and one of them used the driver (osdep_linux.c:8-88).
BackendOfHandle ==
    ~mixed => \A h \in Handles : made[h] # "none" => (is_smu <=> made[h] = "kmod")

\* A handle that is closed or that could not be opened leaves nothing behind, neither
\* memory nor a descriptor nor PCI access nor a window that shows its table
\* (api.c:16-72, osdep_linux.c:77-88).
NothingLeft ==
    ~mixed => /\ \A h \in Handles \ (open \cup {ry}) : held[h] = {}
              /\ phy_map # NoHandle => phy_map \in open

\* A handle's two mailboxes share no register, so that neither a response nor an
\* argument of one is taken for the other's (nb_smu_ops.c:17-43, 274-345).
RegistersApart ==
    \A h \in open :
        /\ Cardinality(Registers(mp1[h]) \cup Registers(psmu[h])) = 16
        /\ NoMailbox \notin {mp1[h], psmu[h]}

\* "no compatible ryzen_smu kernel module found, fallback to /dev/mem"
\* (osdep_linux.c:64): a handle that falls back is accessed through /dev/mem.
FallbackUsesMem ==
    ~mixed => \A h \in Handles : made[h] = "mem" => ~is_smu

=============================================================================

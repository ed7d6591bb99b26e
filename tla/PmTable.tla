------------------------------- MODULE PmTable -------------------------------
(***************************************************************************)
(* The power metric table of one handle: init_table(), refresh_table() and *)
(* the lazily initialising getters of lib/api.c, over the /dev/mem window  *)
(* of osdep_linux_mem.c or the pm_table file of ryzen_smu.  Each SMU       *)
(* request, mapping, allocation and copy is a step and may fail; other     *)
(* tools make the SMU rewrite the table in DRAM at any time.               *)
(*                                                                         *)
(* Sizes are numbers, because they must agree; the contents are reduced to *)
(* whether they are still all zero and whether DRAM holds something newer  *)
(* than the buffer.                                                        *)
(***************************************************************************)
EXTENDS Naturals

CONSTANTS
    Backend,        \* "mem" or "kmod": is_using_smu_driver()
    SizeOf,         \* the size of each known table version
    SmuVersions,    \* the versions that an SMU may report
    UnknownSize,    \* the size assumed for every other version (0x1000)
    AllOnes,        \* what a result that PCI failed to read is: no version
    MaxTableSize,   \* RYZENADJ_MAX_TABLE_SIZE
    WordSize,       \* sizeof(float)
    PageSize,
    PageOffset,     \* where in its page the table starts
    KmodSize        \* pm_table_size of the driver, 0 when it exports no table

Known == DOMAIN SizeOf
Versions == Known \cup {0, AllOnes} \cup SmuVersions

ASSUME BackendAssumption == Backend \in {"mem", "kmod"}
ASSUME VersionAssumption ==
    /\ SizeOf \in [Known -> Nat]
    /\ 0 \notin Known /\ AllOnes \notin Known \cup {0}
ASSUME SizeAssumption ==
    /\ UnknownSize \in Nat
    /\ MaxTableSize \in Nat
    /\ WordSize \in Nat \ {0}
    /\ PageSize \in Nat \ {0}
    /\ PageOffset \in 0 .. PageSize - 1
    /\ KmodSize \in 0 .. MaxTableSize     \* get_pm_table_size() drops the others
\* The sizes of the switch pass the plausibility test of init_table_locked(), which
\* therefore never refuses one: the test guards against later additions.
Plausible(size) == size # 0 /\ size % WordSize = 0 /\ size <= MaxTableSize
ASSUME PlausibleAssumption ==
    Plausible(UnknownSize) /\ \A ver \in Known : Plausible(SizeOf[ver])

Size(ver) == IF ver \in Known THEN SizeOf[ver] ELSE UnknownSize

\* Mutant: the old window of one page, whatever the table needs.
Avail_OnePage(size) == PageSize - PageOffset

\* phy_table_avail() of a window that init_mem_obj_mem() maps for size bytes.
Avail(size) ==
    LET want == IF size \in 1 .. MaxTableSize THEN size ELSE MaxTableSize
    IN  ((PageOffset + want + PageSize - 1) \div PageSize) * PageSize - PageOffset

Responses == {"OK", "Timeout", "UnknownCmd", "CmdRejectedPrereq", "CmdRejectedBusy", "Failed"}
Errors == {"none", "SMU_TIMEOUT", "SMU_UNSUPPORTED", "SMU_REJECTED", "MEMORY_ACCESS"}

\* _return_translated_smu_error
Translated(resp) ==
    CASE resp = "Timeout" -> "SMU_TIMEOUT"
      [] resp = "UnknownCmd" -> "SMU_UNSUPPORTED"
      [] OTHER -> "SMU_REJECTED"

VARIABLES
    pc, op, err,            \* where the API call is, which one, its result
    table_init_busy,        \* inside init_table()
    second, tries,          \* init's second refresh; transfers of this request
    table_ver, table_size, table_addr,
    alloc, empty,           \* bytes of *table_values, 0 for NULL; all zero?
    window,                 \* readable bytes of the mapping, 0 when unmapped
    dramEmpty, ahead, booted, \* DRAM: no table yet; newer than the buffer; the
                            \* SMU has served a transfer since boot
    smu_ver,                \* the version that this machine's SMU reports
    renewed, inited         \* history: this call brought newer values; the last
                            \* init_table() returned 0

control == <<pc, op, err, table_init_busy, second, tries>>
table == <<table_ver, table_size, table_addr>>
buffer == <<alloc, empty, renewed>>
dram == <<dramEmpty, ahead, booted, smu_ver>>
vars == <<control, table, buffer, window, dram, inited>>

Init ==
    /\ pc = "idle" /\ op = "none" /\ err = "none"
    /\ table_init_busy = FALSE /\ second = FALSE /\ tries = 0
    /\ table_ver = 0 /\ table_size = 0 /\ table_addr = 0
    /\ alloc = 0 /\ empty = TRUE
    /\ window = 0
    /\ dramEmpty \in BOOLEAN /\ ahead = FALSE /\ booted = ~dramEmpty
    /\ smu_ver \in SmuVersions
    /\ renewed = FALSE /\ inited = FALSE

-----------------------------------------------------------------------------
\* init_table() refuses to be entered from itself.
EnterInit ==
    IF table_init_busy
      THEN /\ pc' = "ret" /\ err' = "MEMORY_ACCESS"
           /\ UNCHANGED <<table_init_busy, inited>>
      ELSE /\ pc' = "version" /\ table_init_busy' = TRUE /\ inited' = FALSE
           /\ UNCHANGED err

Call(o) ==
    /\ pc = "idle"
    /\ op' = o
    /\ renewed' = FALSE
    /\ IF o = "init" \/ alloc = 0            \* _lazy_init_table
         THEN EnterInit
         ELSE /\ pc' = IF o = "refresh" THEN "compare" ELSE "ret"
              /\ UNCHANGED <<err, table_init_busy, inited>>
    /\ UNCHANGED <<second, tries, table, alloc, empty, window, dram>>

\* init_table_locked() returns e; a refresh_table() that called it goes on.
InitReturns(e) ==
    /\ table_init_busy' = FALSE
    /\ second' = FALSE
    /\ inited' = (e = "none")
    /\ err' = e
    /\ pc' = IF e = "none" /\ op = "refresh" THEN "compare" ELSE "ret"
    /\ UNCHANGED op

\* Mutant: init_table_locked() takes the first refresh for good.
RefreshReturns_Once(e) ==
    IF table_init_busy
      THEN InitReturns(e)
      ELSE /\ pc' = "ret" /\ err' = e
           /\ UNCHANGED <<op, table_init_busy, second, inited>>

\* refresh_table() returns e, to the caller or to init_table_locked(), which calls
\* it once more when the table came back empty.
RefreshReturns(e) ==
    IF table_init_busy
      THEN IF e = "none" /\ empty' /\ ~second
             THEN /\ pc' = "compare" /\ second' = TRUE
                  /\ UNCHANGED <<op, err, table_init_busy, inited>>
             ELSE InitReturns(e)
      ELSE /\ pc' = "ret" /\ err' = e
           /\ UNCHANGED <<op, table_init_busy, second, inited>>

-----------------------------------------------------------------------------
\* init_table_locked()

\* The version and the size are stored before the response is looked at; a failed
\* request leaves 0 in its argument, or the result when another one was unreadable;
\* over PCI an unreadable result is all ones, and the request does not fail.
RequestVersion(resp, ver) ==
    /\ pc = "version"
    /\ ver \in {smu_ver, 0, AllOnes}
    /\ resp = "Timeout" => ver = 0
    /\ Backend = "kmod" => ver # AllOnes
    /\ table_ver' = ver
    /\ table_size' = Size(ver)
    /\ IF resp = "OK" /\ ver # 0
         THEN pc' = "address" /\ UNCHANGED <<op, err, table_init_busy, second, inited>>
         ELSE InitReturns(IF resp = "OK" THEN "SMU_UNSUPPORTED" ELSE Translated(resp))
    /\ UNCHANGED <<tries, table_addr, buffer, window, dram>>

RequestAddress(resp, addr) ==
    /\ pc = "address"
    /\ table_addr' = addr
    /\ IF resp = "OK" /\ addr # 0
         THEN pc' = "map" /\ UNCHANGED <<op, err, table_init_busy, second, inited>>
         ELSE InitReturns(IF resp = "OK" THEN "SMU_UNSUPPORTED" ELSE Translated(resp))
    /\ UNCHANGED <<tries, table_ver, table_size, buffer, window, dram>>

\* init_mem_obj_mem() unmaps the previous window before it maps the new one.
MapWindow ==
    /\ pc = "map" /\ Backend = "mem"
    /\ window' = Avail(table_size)
    /\ pc' = "alloc"
    /\ UNCHANGED <<op, err, table_init_busy, second, tries, table, buffer, dram, inited>>

MapFails ==
    /\ pc = "map" /\ Backend = "mem"
    /\ window' = 0
    /\ InitReturns("MEMORY_ACCESS")
    /\ UNCHANGED <<tries, table, buffer, dram>>

\* The size that ryzen_smu reports is authoritative when it is plausible.
AdoptKmodSize ==
    /\ pc = "map" /\ Backend = "kmod"
    /\ table_size' = IF Plausible(KmodSize) THEN KmodSize ELSE table_size
    /\ pc' = "alloc"
    /\ UNCHANGED <<op, err, table_init_busy, second, tries, table_ver, table_addr,
                   buffer, window, dram, inited>>

\* Mutant: the buffer is as large as the version says, not the driver.
Allocate_ByVersion ==
    /\ pc = "alloc"
    /\ alloc' = Size(table_ver) /\ empty' = TRUE /\ ahead' = ~dramEmpty
    /\ pc' = "compare"
    /\ UNCHANGED <<op, err, table_init_busy, second, tries, table, renewed, window,
                   dramEmpty, booted, smu_ver, inited>>

\* free(table_values) and calloc
Allocate ==
    /\ pc = "alloc"
    /\ alloc' = table_size /\ empty' = TRUE /\ ahead' = ~dramEmpty
    /\ pc' = "compare"
    /\ UNCHANGED <<op, err, table_init_busy, second, tries, table, renewed, window,
                   dramEmpty, booted, smu_ver, inited>>

\* Mutant: the early return leaves the guard up.
AllocateFails_KeepsGuard ==
    /\ pc = "alloc"
    /\ alloc' = 0 /\ empty' = TRUE
    /\ err' = "MEMORY_ACCESS"
    /\ pc' = "ret"
    /\ UNCHANGED <<op, table_init_busy, second, inited, tries, table, renewed, window, dram>>

\* Mutant: without a buffer the refresh starts the initialisation over.
AllocateFails_StartsOver ==
    /\ pc = "alloc"
    /\ alloc' = 0 /\ empty' = TRUE
    /\ pc' = "version"
    /\ UNCHANGED <<op, err, table_init_busy, second, inited, tries, table, renewed,
                   window, dram>>

AllocateFails ==
    /\ pc = "alloc"
    /\ alloc' = 0 /\ empty' = TRUE
    /\ InitReturns("MEMORY_ACCESS")
    /\ UNCHANGED <<tries, table, renewed, window, dram>>

-----------------------------------------------------------------------------
\* refresh_table()

\* Mutant: the comparison always says "different".
SameAsWindow_Never == FALSE

\* compare_pm_table(): "different" when the window cannot be read; the first words
\* may also happen to be the same in a newer table.
SameAsWindow == window # 0 /\ ~ahead
PerhapsSame == window # 0

\* The transfer is asked for unless DRAM already holds something newer.
AskTransfer ==
    /\ pc = "compare" /\ Backend = "mem"
    /\ empty \/ PerhapsSame
    /\ pc' = "transfer" /\ tries' = 1
    /\ UNCHANGED <<op, err, table_init_busy, second, table, buffer, window, dram, inited>>

SkipTransfer ==
    /\ pc = "compare"
    /\ Backend = "kmod" \/ (~empty /\ ~SameAsWindow)
    /\ pc' = "copy"
    /\ UNCHANGED <<op, err, table_init_busy, second, tries, table, buffer, window,
                   dram, inited>>

\* The SMU rewrites the table in DRAM, except on its first transfer since boot,
\* which it may answer with OK without doing anything (Raven and Picasso).
SmuTransfers ==
    /\ booted' = TRUE /\ smu_ver' = smu_ver
    /\ \/ dramEmpty' = FALSE /\ ahead' = TRUE
       \/ ~booted /\ UNCHANGED <<dramEmpty, ahead>>

\* Mutant: one retry too many.
RequestTransfer_OneMore(resp) ==
    /\ pc = "transfer"
    /\ \/ resp = "OK" /\ SmuTransfers /\ pc' = "copy"
          /\ UNCHANGED <<op, err, table_init_busy, second, tries, inited>>
       \/ resp = "CmdRejectedPrereq" /\ tries < 4 /\ tries' = tries + 1
          /\ UNCHANGED <<pc, op, err, table_init_busy, second, inited, dram>>
       \/ resp # "OK" /\ (resp = "CmdRejectedPrereq" => tries = 4)
          /\ UNCHANGED <<tries, dram>>
          /\ RefreshReturns(Translated(resp))
    /\ UNCHANGED <<table, buffer, window>>

\* request_transfer_table(): a rejection is retried twice.
RequestTransfer(resp) ==
    /\ pc = "transfer"
    /\ \/ resp = "OK" /\ SmuTransfers /\ pc' = "copy"
          /\ UNCHANGED <<op, err, table_init_busy, second, tries, inited>>
       \/ resp = "CmdRejectedPrereq" /\ tries < 3 /\ tries' = tries + 1
          /\ UNCHANGED <<pc, op, err, table_init_busy, second, inited, dram>>
       \/ resp # "OK" /\ (resp = "CmdRejectedPrereq" => tries = 3)
          /\ UNCHANGED <<tries, dram>>
          /\ RefreshReturns(Translated(resp))
    /\ UNCHANGED <<table, buffer, window>>

\* The bytes that copy_pm_table() is willing to copy.
Readable == IF Backend = "mem" THEN window ELSE KmodSize

\* memcpy() from the window, or a read of the pm_table file, for which the driver
\* has the SMU rewrite the table.
CopyTable ==
    /\ pc = "copy"
    /\ Readable # 0 /\ table_size <= Readable
    /\ IF Backend = "mem"
         THEN empty' = dramEmpty /\ renewed' = (renewed \/ ahead) /\ UNCHANGED dramEmpty
         ELSE empty' = FALSE /\ renewed' = TRUE /\ dramEmpty' = FALSE
    /\ ahead' = FALSE
    /\ RefreshReturns("none")
    /\ UNCHANGED <<tries, table, alloc, window, booted, smu_ver>>

\* Nothing to read, too little of it, or a read that breaks off half way.
CopyFails ==
    /\ pc = "copy"
    /\ Readable = 0 \/ table_size > Readable \/ Backend = "kmod"
    /\ empty' \in {empty, empty /\ (Readable = 0 \/ table_size > Readable)}
    /\ UNCHANGED <<tries, table, alloc, renewed, window, dram>>
    /\ RefreshReturns("MEMORY_ACCESS")

-----------------------------------------------------------------------------
Return ==
    /\ pc = "ret"
    /\ pc' = "idle" /\ op' = "none" /\ err' = "none" /\ renewed' = FALSE
    /\ UNCHANGED <<table_init_busy, second, tries, table, alloc, empty, window,
                   dram, inited>>

\* Another tool has the SMU transfer its table.
OtherTool == SmuTransfers /\ UNCHANGED <<control, table, buffer, window, inited>>

Step ==
    \/ \E resp \in Responses, ver \in Versions : RequestVersion(resp, ver)
    \/ \E resp \in Responses, addr \in {0, 1} : RequestAddress(resp, addr)
    \/ MapWindow \/ MapFails \/ AdoptKmodSize
    \/ Allocate \/ AllocateFails
    \/ AskTransfer \/ SkipTransfer
    \/ \E resp \in Responses : RequestTransfer(resp)
    \/ CopyTable \/ CopyFails
    \/ Return

Next == (\E o \in {"init", "refresh", "get"} : Call(o)) \/ Step \/ OtherTool

Spec == Init /\ [][Next]_vars

\* The calls are sequential code whose every SMU request returns (SmuMailbox).
FairSpec == Spec /\ WF_vars(Step)

-----------------------------------------------------------------------------
\* Where the call is, and the flags.
ControlTypes ==
    /\ pc \in {"idle", "version", "address", "map", "alloc", "compare", "transfer",
               "copy", "ret"}
    /\ op \in {"none", "init", "refresh", "get"}
    /\ err \in Errors
    /\ table_init_busy \in BOOLEAN /\ second \in BOOLEAN
    /\ empty \in BOOLEAN
    /\ dramEmpty \in BOOLEAN /\ ahead \in BOOLEAN /\ booted \in BOOLEAN
    /\ renewed \in BOOLEAN /\ inited \in BOOLEAN
    /\ smu_ver \in SmuVersions

\* The counter and the sizes.
SizeTypes ==
    /\ tries \in 0 .. 3
    /\ table_ver \in Versions /\ table_size \in Nat /\ table_addr \in {0, 1}
    /\ alloc \in 0 .. MaxTableSize
    /\ window \in Nat

\* The type of every variable: no buffer exceeds the cap of the code, and no
\* transfer is asked for more than three times.
TypeOK == ControlTypes /\ SizeTypes

\* The window that init_table() has mapped covers the table; and as long as the last
\* init_table() succeeded, the size that every getter is bounded by and every copy
\* uses is the size of the buffer, and the /dev/mem window covers it
\* (api.c:326-395, osdep_linux_mem.c:107-137).
SizeIsBuffer ==
    /\ (pc = "alloc" /\ Backend = "mem") => window >= table_size
    /\ inited => /\ alloc # 0
                 /\ table_size = alloc
                 /\ Backend = "mem" => window >= alloc

\* Over ryzen_smu no copy writes past the end of the buffer, not even the refresh after
\* an init_table() that failed half way, because only as much is read as the driver's
\* table has (api.c:455).  Over /dev/mem the window bounds a copy, not the buffer.
CopyInBounds ==
    (pc = "copy" /\ Readable # 0 /\ table_size <= Readable) => table_size <= alloc

\* init_table() returns 0 only with a table that holds values: its second refresh
\* makes up for the first transfer after boot, which the SMU answers with OK and
\* does not do (api.c:383-392).
InitBringsValues ==
    (pc = "ret" /\ op = "init" /\ err = "none") => ~empty

\* After a successful init_table(), a refresh_table() that returns 0 has brought
\* values that are newer than those it found: it skips the transfer only when
\* another tool has just made it (api.c:439-460).
RefreshRenews ==
    (pc = "ret" /\ op = "refresh" /\ err = "none" /\ inited) => renewed

\* Between calls the guard against recursion is down, so that no failure makes
\* every later init_table() fail as well (api.c:312-323).
GuardReleased == pc \in {"idle", "ret"} => ~table_init_busy /\ ~second

\* Every call returns, through all its retries and the lazy initialisation.
CallReturns == pc # "idle" ~> pc = "idle"

=============================================================================

# RyzenAdj in TLA+

RyzenAdj changes the power limits of AMD mobile processors by sending messages
to the SMU, the processor's power management firmware.  It is a C library
(`lib/`), a command line program (`main.c`), a parser (`argparse.c`), two
operating system layers and some scripts.  This directory holds TLA+ modules of
it, the TLC configurations that check them on small instances, and proofs of
their main results.

    tlc -config Mailbox.cfg MCSmuMailbox          a run; PROJECT.json lists them
    tlapm SmuMailboxProofs.tla                    proofs about the mailbox
    tlapm SmuServiceProofs.tla                    ... its service and the refinement
    tlapm SmnAccessProofs.tla                     ... a register access
    tlapm PmTableProofs.tla                       ... the table
    tlapm GettersProofs.tla                       ... the getters
    tlapm HandlesProofs.tla                       ... handles and backends
    tlapm ArgParseProofs.tla                      ... the parser's steps
    tlapm CliProofs.tla                           ... a run of the program

## 1. The system

| Component | Source | State | Operations |
|---|---|---|---|
| SMU mailbox | `lib/nb_smu_ops.c` | lock file descriptor; the registers of the SMU (message, response, six arguments) | `smu_service_req`, `smu_service_test`, `get_smu`, `smu_lock`, `smu_unlock` |
| OS layer, Linux | `lib/linux/*.c` | `is_smu`, `smn_io_error`, descriptors of ryzen_smu's files, `/dev/mem` mapping, PCI handle | register read and write, raw command, mapping, copy, comparison |
| OS layer, Windows | `lib/win32/*` | driver handle, mapping | the same, without lock, raw command or error flag |
| PM table | `lib/api.c:98-461` | `table_ver`, `table_size`, `table_addr`, `table_values`, `table_init_busy` | `init_table`, `refresh_table`, `get_table_*` |
| Setters | `lib/api.c:463-1552` | none | 43 `set_*`, one or two messages by CPU family |
| Getters | `lib/api.c:1554-2910` | none | one float of the table, by table version |
| Handle | `lib/api.c:12-80` | `struct _ryzen_access` | `init_ryzenadj`, `cleanup_ryzenadj` |
| CPU detection | `lib/cpuid.c` | cached family | `get_cpu_family` |
| Program | `main.c` | options, `err`, `any_adjust_applied` | open, table, settings, dump, info, close |
| Argument parser | `argparse.c` | cursor in `argv` | `argparse_parse` |
| Scripts | `win32/readjustService.ps1`, `examples/*` | last seen values | monitor and set again |

**How they interact.**  The program calls the library.  A setter or the table
calls `smu_service_req`, which takes a file lock that all processes using this
library share, and then either has ryzen_smu run the command (`smu_raw_cmd`) or
performs the transaction itself with SMN register accesses: clear the response,
write six arguments, ring the doorbell, poll the response, read six arguments
back.  The SMU runs asynchronously; for the table it writes DRAM, which the OS
layer reads through a `/dev/mem` window or ryzen_smu's `pm_table` file.

**What is hard.**  The mailbox is shared by processes, and its registers are
accessed one at a time, each access itself in two steps on a register pair that is
shared as well; accesses can fail and say so only through a flag that is looked at
later; the lock can be unavailable; a request that times out leaves its
command behind; a process can be killed at any point.  For the table, two
sources of its size, a buffer, a mapping and the firmware's habit of not doing
the first transfer after boot have to agree along every error path.  For the
program, some forty settings can fail independently and the exit code is one.

**What makes each part correct.**

* Mailbox: a request runs at most once, with its own arguments, and an OK brings
  its own results; the lock is held exactly during the transaction; busy means that
  nothing ran, unless the SMU said so itself; every call returns.
* PM table: the size that bounds reads and copies is that of the buffer and is
  covered by the mapping; a successful `init_table` has values, a successful
  `refresh_table` newer ones; no error path leaves the guard against recursion up.
* Setters: the number sent on a family is that setting's and no other's.
* Program: every option is attempted, the exit code is 0 only if all were
  accepted, tables show values from the right moment, the handle is closed.
* Register access: the data transferred is that of the register the access selected.
* Getters: no read beyond the buffer; each getter has a word of its own, on every
  version; a value lies behind its limit.
* Handles: an access goes to the backend that made the handle; what is closed, or
  could not be opened, holds nothing; the two mailboxes share no register.
* Argument parser: an option has its own value, a line with a word that is not allowed is
  refused before anything is touched, and what is accepted is heeded.

`PROJECT.json` lists the hazards with their lines under `hazards`, each with the
property that would catch it or the reason why there is none yet.

## 2. The modules

| Module | Models | Bounded by |
|---|---|---|
| `SmuService` | what the mailbox promises: turns, once, truthful answers | `Txns` |
| `SmuMailbox` | processes in `smu_service_req` / `smu_service_test`, flock, both transports, firmware; implements `SmuService` | `MaxTxn` calls, `TestTxns` |
| `SmnRegisters` | what a register access promises: one step | nothing (finite) |
| `SmnAccess` | select and data of an access, over PCI and over ryzen_smu; implements `SmnRegisters` | nothing (finite) |
| `PmTable` | `init_table`, `refresh_table`, lazy initialisation, window, buffer, copy | nothing (finite) |
| `TableLayout` | sizes of the versions, byte of every getter | |
| `Getters` | the bounded read of every getter, on a table of `PmTable` | |
| `Handles` | `init_ryzenadj`, `cleanup_ryzenadj`, CPU detection, choice and release of the backend, `get_smu` | `FoundDriverStays` |
| `Messages` | message numbers of all setters and of the library's own requests, by family | |
| `ArgParse` | `argparse_parse` on the options of `main` | `WordMax`, for `UINT32_MAX` |
| `Cli` | one run of the program, from the command line to the exit code | `Starts`, the command lines |
| `MC*` | instances: processors, command lines, table sizes | |
| `*Proofs` | theorems about the module in the name | nothing |

### SmuMailbox

`pc[p]` is where the call of process `p` is; `txn`, `i`, `args`, `response` are
its locals (`i` is `x` of the loops), `smn_io_error` the static flag of
`osdep_linux.c`, `flock` the holder of the lock file.  `rep`, `arg`, `msg` are the
registers; `exec` is the command the firmware works on; `slot` the one result slot
of ryzen_smu's `smu_raw_cmd`.  `runs` counts, per call, how often the SMU started
it; `clean` records that nothing was owed when the transaction began (no command
waiting, none being worked on).  Both are history: no action reads them.

Data is abstracted to provenance: `Arg(t)` is what call `t` writes, `Res(t)` what
the SMU answers it, `Junk` everything else.  That is what the properties tell
apart: whose arguments ran, whose results came back.

Each register access is one action, so everything can happen between two of
them.  A failed write may or may not have taken effect.  A failed read sets
`smn_io_error` and returns the 0 of ryzen_smu or, over PCI when the address could not be
written, the content of the register that was selected before.  A PCI data read that
fails returns all ones and sets no flag (`osdep_linux_mem.c:157`); `smn_reg_read` has that
case for `PciProcs`.  Waiting loops are one action per way out of them: a poll that reads 0 and
comes before the deadline changes nothing.  Time is not modelled: a deadline may
pass at any moment, also at once.  That is more than the code can do (the
limits are two seconds for the lock and one for the answer), so safety results
carry over.

`LockProcs` are the processes that can open and lock `/run/lock/ryzenadj.lock`; the
others run unlocked, as `smu_lock` lets them.  `RawProcs` are those with a
`smu_raw_cmd` file, `PciProcs` those that access the SMN over PCI (a handle of the
`/dev/mem` backend).  `Answers` are the SMU's: `Busy` is `REP_MSG_CmdRejectedBusy`, which the
library also returns on its own (lock timeout, `EAGAIN`), `Failed` every other error.  One mailbox is modelled.  A handle uses two (MP1 and PSMU),
under the same lock and error flag but with registers of their own, so a
transaction on the other one only holds the lock, which `LockTimeout` covers.

ryzen_smu, the kernel and the firmware are not in this repository.  They are
modelled from what the code and its comments rely on, and marked `external`:
the driver runs a raw command under its own mutex and stores the result for the
last writer; the kernel releases the flock of a killed process; the firmware
starts whatever is in the mailbox when it looks and answers in its own time, or
never.

**The refinement.**  `SmuService` has calls, a turn, the commands that are owed and
those that ran, and replies.  `ImplementsService` maps the lock to the turn, `msg`
and `exec.msg` to what is owed, `runs` to what ran, and the locals of a call that
returns to its reply.  A reply to a request says OK only if it has run and, for the
callers in `Sure` (those not over PCI), only with its own results, if nothing was owed when
its turn began.  A call that waits too long is told Busy and has no turn; one that had its
turn may be told Busy as well, since the SMU may say so.
The service promises nothing about the answer to a test (`smu_service_test` ignores
the error flag, so that it can take an old response for its own).

### SmnAccess

`SmuMailbox` takes a register access to be one step.  In the code it is two: the
address is written, then the data is read or written, on an index/data pair of PCI
configuration space or through ryzen_smu's `smn` attribute, which keeps the selected
address for everybody.  `selected` is that address, one per bus.  A process is
`inside` between `smu_lock` and `smu_unlock`; it makes accesses there, which may
fail at each step, and may be killed at any point, which leaves its register
selected.  Over PCI a failed selection does not stop a read, which then returns the
register selected before; over ryzen_smu it does.  `UnlockedAssumption` is what a
process without the lock needs: a bus that nobody else uses.  The module shows that
under it, `SmnRegisters` is implemented: an access takes effect in one step, on the
register it names, or fails and sets the error flag.  Its `Blind` processes, those over PCI,
may instead be answered `AllOnes` without a flag, which is what `pci_read_long` returns
when it fails (`Misread`).

### PmTable

One handle, sequential calls (`op`), each request, mapping, allocation and copy a
step that may fail.  Sizes are numbers; contents are reduced to "all zero"
(`empty`), "DRAM is newer than the buffer" (`ahead`).  `window` is the number of
readable bytes from the table's address on, computed as `init_mem_obj_mem` does.
A failed `request_table_ver_and_size` stores a version and a size all the same,
and so does the model.  Over `/dev/mem` an OK may come with the all ones of a result that
PCI could not read: `AllOnes` is then the version, which no switch knows.  `OtherTool` is any other program that makes the SMU
rewrite the table.  `renewed` and `inited` are history.

The plausibility test of `init_table_locked` is an assumption here
(`PlausibleAssumption`): every size of the switch passes it, TLC evaluates that
for the instance, and the driver's size is tested by an action, as in the code.

### TableLayout and Getters

`TableLayout` is the data of the switch statements: `SizeByVersion`, which
`VersionSizes` tabulates for the versions of the switch, and for every getter the byte
it passes for each group of case labels (`<<getter, versions, byte>>`).
`Getters` extends `PmTable` with `Readings`: for the version that the table has now,
the word that every getter reads, or `NaN` where `_read_float_value` refuses or the
getter does not know the version.  Getters with a core number are expanded, since
their offset grows with it.  The getters have no state of their own; they are
evaluated in every state of the table.

`SharedWord` lists the pairs that the source itself reads from one word (a limit that
serves two getters, for instance), and `CoresInTable` the number of cores a table has
entries for.  Beyond it a core's getter reads another array, since its only bound is 15;
the property does not cover those.

### Handles

A process with several handles.  `held` is what each handle owns (its memory, the
descriptors of ryzen_smu, PCI access, mailboxes, values), `made` the backend that made
its access object, `is_smu` and `phy_map` the two statics that all handles share.
Opening is one action per call of `init_ryzenadj` that can fail, closing is
`cleanup_ryzenadj` through `is_smu`, as in `free_os_access_obj`.  The driver is loaded
and unloaded at any time.  `mixed` records that two handles were open at once of which
one used the driver: the code keeps one choice per process and does not claim to
support that, so the properties exclude it.  `FoundDriverStays` excludes an unload
between finding the driver and opening it, which `HandlesFallback` is about.
`cpuid_load_family` is a function of CPUID's fields, `Mp1Mailbox` and `PsmuMailbox` give
the register addresses of each family.

### Messages, ArgParse and Cli

`Messages` is the switch statement of each setter as a table from family to the
messages it tries; a family that is missing is unsupported.  `s ++ t` are two cases of
one switch, of which the first that applies is taken.

`ArgParse` reads a command line word by word.  A word is a record: a long option
with its `no-` prefix and the text behind `=`, a cluster of short options, `--`, or a plain
text (`AnyWord`).  A text is a number with a sign, something that is no number, or empty
(`AnyText`); numbers are compared with `WordMax`, so that a small one stands for `UINT32_MAX`.  `optvalue` is
kept as the code keeps it, with the word that it came from, and `uses` records which
word each option took its value from.  The parser's other option types, which `main`
does not use, are left out.

`Cli` starts from a family and a command line (`Starts`; `StartsAssumption` says only that
they are a family and a sequence of words) and follows `main`: parsing, conflicts, open,
table, every option in the order of `Order`, dump, info, close.  `step` is the place in
`Order` that `main` has reached.  A setting is the messages
left to try (`tries`) and its result so far (`adjerr`).  Each request may get any
response; a timeout leaves open whether the SMU carried it out (`oc`).

## 3. The runs

| Run | Checks | On |
|---|---|---|
| `Mailbox` | `TypeOK LockHeldInside OwnArguments OkIsOwn BusyIsTrue ImplementsService` | 3 processes that lock: 2 over `smu_raw_cmd` or, whenever it is refused, ryzen_smu's registers, 1 over PCI; 2 calls, each of which may be a test; 3 argument registers; all accesses may fail, processes may be killed |
| `MailboxLive` | `AtMostOnce Returns` | 3 processes, one of them without the lock and over PCI; 2 calls, all failures, crashes |
| `SmnAccess` | `TypeOK SelectedIsOwn ImplementsRegisters` | 2 processes that lock over PCI, 1 without the lock over ryzen_smu; 2 registers, 3 values, one of them all ones |
| `PmTableMem` | `TypeOK SizeIsBuffer InitBringsValues RefreshRenews GuardReleased GettersAnswer OneWordOneQuantity LimitBesideValue CallReturns` | `/dev/mem`, every version of the source, a table that crosses a page |
| `PmTableKmod` | `SizeIsBuffer CopyInBounds GettersInBuffer` | ryzen_smu with a size that is smaller than some versions' and larger than others' |
| `Handles` | `TypeOK BackendOfHandle NothingLeft RegistersApart` | 2 handles, every supported processor and unsupported neighbours |
| `CliRun` | `TypeOK ExitTellsAll DumpShowsBefore OcBeforeClocks OneMeaning NothingOnBadLine OwnValue Heeded Exits` | every option alone and all combinations of the dependent ones on every family; every line of up to three words over an alphabet of 18 on one family |

Five more runs are of kind `violation`; section 4.

**Bounds.**  The three processes of `Mailbox` have every pair of transports meet: the
driver's with itself, with its registers, and both with PCI.  The second call, by
any of them, meets a mailbox that the first has left in any state (timed out, crashed,
half written) or is still using.  A third would meet nothing else: the mailbox holds one
command, and the SMU works on one, which two calls can fill; the theorems of section 5 hold
for any number.  Three argument registers have a first, a last and one
between.  `MailboxLive` asks about one call at a time,
so two calls are enough for the other to interfere, and one register, since the number
of rounds does not matter there; its third process lets two contend for the lock while
one runs without it.  Symmetry is used only between processes of the same
transport and lock, and not with liveness.  `SmnAccess` needs a second register and a second value
so that a wrong one can be told from the right one, and all ones as a third.  The table runs use the sizes of the
source in bytes; the table starts at half a page, so that the larger versions cross it and
the smaller do not, and the driver's size, 2304, lies between them.  Two handles suffice
because `is_smu` and the window are single variables that the last handle to open or
close decides.  A word of a command line can spoil the next word only through `optvalue`,
`at` and the value it takes, so three words are an option, what it does to the second
one, and a value for that.  The alphabet has every kind of word, with numbers at
`WordMax` and one above it.  Every option alone and all 255 combinations of the dependent ones
cover how settings meet: through `err`, `any_adjust_applied`, overclocking and the conflicts.

**Fairness.**  `WF_vars(Step(p))` for each process, `WF_vars(Step)` and
`WF_vars(Run)`: code that can run does.  Both waits compare a monotonic clock with
a deadline, so a wait that can give up is never stuck.  A failing poll is outside
of `Step`: nothing says that polls fail, and one that returned another register
would otherwise be a way out that fairness forces.  Nothing is assumed of the SMU, of
other processes, or of the lock coming free.

## 4. What the code does and its comments do not say

Five runs of kind `violation` check a sentence of the repository and find it
violated; `findings` in `PROJECT.json` quotes each sentence.

* `MailboxLate`: the lock is to "serialise whole transactions", but one that timed
  out leaves its command, and its late answer passes for the next one's.
  `OkIsOwn` and `OwnArguments` hold because they start from a `clean` mailbox;
  this run shows that the condition is needed.
* `MailboxUnflagged`: `smn_io_take_error` is to report any register access that failed, but a
  PCI data read that fails sets no flag, and a request is answered OK with all ones for a
  result.  It is why `OkIsOwn` vouches for all results only over ryzen_smu.
* `PmTableReinit`: over `/dev/mem`, a second `init_table` whose version request fails has
  already replaced version and size by what that request brought (version 0 and 4096
  bytes, say), while the buffer is still the smaller one of the first; the next
  `refresh_table` copies 4096 bytes into it.  `GettersInBuffer` holds after a success,
  `AccessesBounded` not in general.  Over ryzen_smu the same early store puts the size of
  the switch in place of the driver's: if that was smaller, the getters read past the buffer, which
  is bounded by `table_size`; copies stay within it (`CopyInBounds`), as only as much is read
  as the driver's table has.  No run shows that variant.
* `HandlesFallback`: if the driver disappears between detection and opening, the next
  handle is made by `/dev/mem` and accessed as the driver's.
* `FlagValue`: in `--info=5 --stapm-limit` the flag leaves its value to the option.

Five more disagreements are visible in the code without a run of their own.  `get_gfx_temp`
of the 0x5D tables passes 0x4C8 (`api.c:2744`), where the comment on their layout has the
temperature at 0x4BC (`api.c:2671`), and `get_fclk` of version 0x3F0000 passes 0x3C5, which reads
the word at 0x3C4, where the comment on its line says 956, which is 0x3BC (`api.c:2765`).
The comment
of `smu_lock` says "if the lock cannot be taken we fail instead of racing"
(`nb_smu_ops.c:90`), and lines 105-116 go on unlocked when the file cannot be opened or
`flock` is unsupported, which a second comment there says; `LockProcs` models it.  A poll
that cannot read the register counts as "not answered yet" and ends as `REP_MSG_Timeout`
(`nb_smu_ops.c:153`), which `nb_smu_ops.h:43` reserves for an SMU that did not answer.
`smu_service_test` does not look at the error flag (`nb_smu_ops.c:251-264`).  And
`compare_pm_table_mem` answers -1 without a mapping (`osdep_linux_mem.c:195`), which its
caller takes for "different" and so skips the transfer (`api.c:446`).

## 5. What is proved

For all values of the constants that satisfy the `ASSUME`s of the modules (finite
or not: any set of processes, any number of calls and registers, any sizes).

**SmuMailboxProofs.**

* `TypeCorrect`: `Spec => []TypeOK`.  `TypeOK` is not inductive alone, because a
  process that indexes `runs` by its transaction must have one: `Numbered` says
  that `txn[p]` is not 0 outside `idle`.
* `LockCorrect`: `Spec => []LockHeldInside`.  With the type of `flock` it is
  inductive; every way out goes through `ReturnCode` or `Crash`, and lemmas
  `StayInside` and `LeaveInside` deal with all actions.
* `OnceCorrect`: `Spec => []AtMostOnce`.  The invariant is `OnceInv`: calls have
  distinct numbers below `next`, and a call that has not yet sent its command has
  never run, is not in the mailbox and is not being worked on.  A command in the
  mailbox has not run.  The lock plays no part, which is why the theorem holds for
  processes that run without it.

**SmuServiceProofs.**  Every theorem here assumes `LockProcs = Procs`: with a process that
runs unlocked the properties are not true, since it writes the same argument and
response registers (`SelectedCorrect` below is where such a process is covered).  Processes
may go over ryzen_smu and over PCI in any mixture.  The
invariant `Inv` adds four parts to those above.  `ExecRan`: the command that the SMU works
on has been counted.  `Stages`: which locals go with which program counter, and that the
driver's result slot belongs to the process that is about to read it.  `Mine(p)`: what p
may rely on in a turn that began on a quiet mailbox, stage by stage (nothing in the
mailbox before the doorbell; without a failed write the response is cleared and the
arguments before `i` are written; at the doorbell all are; while p waits, only its own
command is in the mailbox, with its arguments, and any answer is its own; what was read
back without a failure are its results).  `Turns`: `Mine(p)` for every p with `clean[p]`.
The argument is lemma `OneInside`: with the flock nobody else is inside, so only p and the
firmware move what `Mine(p)` is about (`OwnTurn`, and one `...Turn` lemma per action).

* `ArgumentsCorrect` and `OkCorrect` follow from `Inv`: an OK that began on a quiet mailbox
  has run once, and each result is its own or, over PCI only, all ones.
* `BusyCorrect`: `Spec => [][...]_vars` of `BusyIsTrue`, by cases on the steps that return.  A call
  that is told Busy has not reached the SMU, or the response register holds the SMU's Busy to
  this very command; the third way, a slot that another process has overwritten, is
  what `Stages` excludes.
* `ServiceImplemented`: `Spec => Service!Spec`.  `LockAcquire` is `Begin`, `LockTimeout` is
  `Refuse`; the doorbell, and the driver, are `Submit` (`IntoDoorbell`, `DriverServes`);
  each way out of the lock is `Reply`, whose truth is `OkIsOwn'` (`Replies`); `Return` and
  `Crash` are `Leave`; the firmware is `Run` and `Settle`; all else stutters.

**SmnAccessProofs.**  `Inv` is `TypeOK`, `SelectedIsOwn` and `Holder` (a process that
can lock is inside exactly while it holds the lock).  Lemma `Apart` is the argument:
two processes that are inside at once are on different buses, by `Holder` if both lock
and by `UnlockedAssumption` otherwise.

* `TypeCorrect` and `SelectedCorrect`: a selection lasts until its data is transferred.
* `RegistersImplemented`: `Spec => Registers!Spec`.  A transfer of data is the abstract
  access, on the register that is selected, which is the one that the call names; the
  selection is a stutter, unless it fails; every error path is an abstract failure, but for a
  PCI data read, which is `Misread`.

**PmTableProofs.**  One inductive invariant, `Inv`, gives all theorems but `CopyCorrect`, which
adds a second one:

* `GuardCorrect` from `Guarded`: the guard is up exactly where `init_table_locked` is,
  `second` only within it, and nothing is initialised meanwhile.
* `SizeCorrect` from `Sized`: the size is positive and capped from the version on, the
  window covers it once mapped (lemma `WindowCovers`, from `RoundUp`), and buffer,
  size and window agree as soon as the buffer is allocated.
* `InitCorrect` and `RefreshCorrect` from `Filled`: both refreshes of `init_table`
  find an empty buffer and so ask for a transfer, the second after the SMU has
  served one, which is the one that is done; a later refresh that skips the transfer
  has a window and so knows that DRAM is ahead.
* `CopyCorrect`, for the ryzen_smu backend with a driver size that is plausible or
  0: `DriverSized`, the buffer has the driver's size from its first allocation on.
  Over `/dev/mem` the same is not true (`PmTableReinit` shows why).
* `TypeCorrect`: `Spec => []TypeOK`; `alloc <= MaxTableSize` needs `Sized`, since the
  buffer takes its size from `table_size`.

**GettersProofs.**  `SourceSizes` says that the table has the sizes of the switch, and
`WordSize = 4` that its words are floats; both are so in this code, and constants only
because `PmTable` is proved for any sizes.

* `GettersCorrect`: `Spec => []GettersInBuffer`, for all sizes, from `SizeCorrect`'s
  invariant, the division of `_read_float_value` (`WordInBounds`) and lemmas on the offsets
  of every layout.
* `AnswerCorrect`, under both: `Spec => []GettersAnswer`.  The versions of the switch fall
  into generations of one size (`Generations`, `SizesOfSource`); the fields of the front of the
  table fit the smallest of them, the others and the last core the tables of the
  versions that have them (`LayoutFits`).
* `PairsCorrect`, under `WordSize = 4`: `Spec => []LimitBesideValue`.  A limit and its value
  are declared in the same group of fields (`KindsOfPairs`, `LimitNames`, `OtherNames`),
  and within a group four bytes apart (`Beside`).
* `WordsCorrect`, under `WordSize = 4`: `Spec => []OneWordOneQuantity`.  The kinds of fields
  follow one another in a table, so that only neighbours need to be compared (`PlainApart`, from one
  lemma per kind); the words of the cores are spaced (`CoresSpaced`) and hold no plain
  field (`PlainOutside`).

**HandlesProofs.**  `TypeCorrect`; and, when `FoundDriverStays`, `BackendCorrect` and
`ReleaseCorrect` from one invariant: without `mixed`, at most the handles of one backend
are open, `is_smu` says which (`Choice`, `Alone`), and a handle holds only what its
backend releases (`Held`).  `RegistersCorrect`, with no such condition: `Spec =>
[]RegistersApart`, from `Boxes`, a handle's two mailboxes are those of one family, and
`MailboxesApart`, the register addresses of every family counted.

**ArgParseProofs.**  Lemmas for the theorems about `ArgParse` that `CliProofs` states, since a run
of the program is what parses.  `ParseStep` sorts the parser's steps: it stops, counts a
flag, or takes a value, from the next word or from what is left of one; `OptionReads` says
what the last two write down.  Then one lemma per invariant:

* `TypeStep`: `ParserTypeOK` is inductive.  `AnyWord` is every word that the model knows,
  so no alphabet bounds it.
* `HeedStep`: `HeedInv` is `Checked` (every value passed its option's checks), `Accounted` (the
  words up to here belong to options), `NotAhead` (those from here on belong to nobody, nor
  does what is left in `optvalue` come from there) and `Latest` (the last value of an option
  is the one that is stored, or it has none and was never stored).
* `OwnStep`: `OwnInv` is `OwnValue` and `Behind`: between two words nothing is left in
  `optvalue`, and what was read lies behind.  `Behind` is inductive only on lines that give no
  value to a flag (`FlagsBare`): `--info=5` leaves it there, which is finding `FlagValue`.
* `FineStep`: `FineInv` says that the words up to here are `Fine`, a definition of the allowed
  words that looks at the line alone and not at what the parser did, and that what is left of a
  cluster are its last letters behind flags (`Rest`).  It needs `Behind`, so it too is
  about lines with `FlagsBare`.

**CliProofs.**  For every machine, every command line of any length and whatever the SMU
answers.  `Inv` follows `main` from phase to phase: before the settings nothing was done
(`Untouched`); between two settings the options given up to `step` were attempted, and
`err` is 0 exactly if all of them were accepted (`Between`); inside a setter the same but
for its own option, whose messages are over or not (`InSetter`); after the settings the
account is settled (`Settled`).

* `ExitCorrect` from `Settled`; no option has two places in `Order` (`OrderAssumption`, lemma
  `UptoNext`).
* `DumpCorrect` from `ReadBefore`: no refresh lies between opening and the dump's first column.
* `OcCorrect` from `OcStays`: enable_oc comes before the options that need it, and the check of
  conflicts leaves no line with disable_oc as well.
* `TypeCorrect`: `Spec => []TypeOK`.  The messages left to try are one of a list of at most two
  (`Attempts`), for which every table of `Messages` is one of messages (`OperationTables`); an
  option that is attempted is one in `Order` because of `InSetter`.
* `HeededCorrect` from `HeedInv`.  Once the line is read only the flags for the table are
  cleared, which are no option with a value (`ParserSteps`).
* `OwnCorrect` from `OwnInv`, for command lines with `FlagsBare`.
* `BadLineCorrect` from `FineInv`, for the same lines, and `Begun`: `main` goes on only behind a line
  that was read up to its end or to `--`, so that the words in front of `--` are those that
  were read (`FrontRead`).  On `--info=5 --coall` the property is false, by finding `FlagValue`.
* `MeaningCorrect`: `Spec => []OneMeaning`.  The tables have an inverse, `Meaning`, written out for
  the five groups of families that share their numbers; `OperationMeanings` checks each of the
  48 tables against it, and `OneSender` follows.  `Trying` says that what is left to try are
  messages of the setter that is running.

The prover cannot do liveness under fairness and `ENABLED` (`Returns`,
`CallReturns`, `Exits`), nor induction over data.  These stay with TLC.

## 6. What is only model-checked

The liveness properties.  Every invariant and refinement of a passing run is also a theorem; some
with a hypothesis that the run's instance satisfies and section 5 states: `LockProcs = Procs`,
`FoundDriverStays`, a driver size that is plausible or absent, `SourceSizes` and `WordSize = 4`,
and, for `OwnValue` and `NothingOnBadLine`, lines with `FlagsBare`.  The `violation` runs show what happens without some of them
(`HandlesFallback`, `PmTableReinit`, `FlagValue`).

Every property of a passing run has a mutant in `PROJECT.json`: a changed action, defined just
before the one it replaces, that a plausible mistake would produce and that TLC finds with
the property.

## 7. Not modelled

* Threads of one process: the library does not say that it can be used by several, and
  the flock does not separate them (the descriptor is one per process).
* The values of settings, and so the `* 256` of the skin temperature setters, which wraps
  around at 32 bits: what a value means is the firmware's.
* The arguments that a retried transfer passes, which the rejected request has read back
  (`api.c:289`): as far as this code shows the SMU ignores them.
* A table *address* that PCI could not read: `init_mem_obj_mem` would map what lies at all ones, or
  fail (`api.c:199-252`); the address is not modelled, only the bytes behind it.
* A table that is copied while the SMU writes it (`osdep_linux_mem.c:185`): contents are
  reduced to new or old, and the code cannot tell a torn copy either.
* Programs that access SMN over PCI without the flock (`osdep_linux_mem.c:155`): nothing in
  this code can exclude them.
* Failures of the clock (`nb_smu_ops.c:62`): deadlines may already pass at any moment.
* The information header of the program and the text it prints; option types of
  `argparse.c` that `main` does not use.
* The Windows layer: no lock, no raw command, no error flag, over closed drivers.  As far as it
  goes, it is a mailbox with `LockProcs = {}` and `RawProcs = {}`.
* `readjustService.ps1` and the examples: loops of library calls that users adapt.  Build
  files and installers have no state.

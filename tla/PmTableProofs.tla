---------------------------- MODULE PmTableProofs ----------------------------
(***************************************************************************)
(* Proofs about PmTable, for any sizes, any set of table versions and      *)
(* either backend.                                                         *)
(***************************************************************************)
EXTENDS PmTable, TLAPS

-----------------------------------------------------------------------------
\* The arithmetic of sizes.

LEMMA Division ==
    ASSUME NEW a \in Nat, NEW n \in Nat \ {0}
    PROVE  /\ a \div n \in Nat
           /\ a = n * (a \div n) + (a % n)
           /\ a % n \in 0 .. n - 1
  OBVIOUS

\* Rounding up to whole pages loses nothing.
LEMMA RoundUp ==
    ASSUME NEW a \in Nat, NEW n \in Nat \ {0}
    PROVE  ((a + n - 1) \div n) * n \in Nat /\ ((a + n - 1) \div n) * n >= a
  <1>1. a + n - 1 \in Nat
    OBVIOUS
  <1> QED BY <1>1, Division

\* Every size that the switch yields is one that the code accepts.
LEMMA SizeInRange ==
    ASSUME NEW ver
    PROVE  Size(ver) \in 1 .. MaxTableSize
  BY VersionAssumption, SizeAssumption, PlausibleAssumption DEF Size, Plausible

\* The window of init_mem_obj_mem() covers the table, wherever it starts in its
\* page (osdep_linux_mem.c:107-137).
LEMMA WindowCovers ==
    ASSUME NEW size \in 1 .. MaxTableSize
    PROVE  Avail(size) \in Nat /\ Avail(size) >= size
  <1>1. PageOffset + size \in Nat /\ PageSize \in Nat \ {0} /\ PageOffset \in Nat
    BY SizeAssumption
  <1>2. ((PageOffset + size + PageSize - 1) \div PageSize) * PageSize >= PageOffset + size
    BY <1>1, RoundUp
  <1>3. ((PageOffset + size + PageSize - 1) \div PageSize) * PageSize \in Nat
    BY <1>1, RoundUp
  <1>4. Avail(size) = ((PageOffset + size + PageSize - 1) \div PageSize) * PageSize - PageOffset
    BY DEF Avail
  <1> HIDE DEF Avail
  <1> QED BY <1>1, <1>2, <1>3, <1>4

\* A response that is not OK becomes an error, never 0.
LEMMA TranslatedError ==
    ASSUME NEW resp
    PROVE  Translated(resp) \in Errors \ {"none"}
  BY DEF Translated, Errors

-----------------------------------------------------------------------------
\* The invariant.

Initialising == {"address", "map", "alloc"}
Refreshing == {"compare", "transfer", "copy"}

\* The buffer, the size and the window agree.
Fits == alloc # 0 /\ table_size = alloc /\ (Backend = "mem" => window >= alloc)

\* Who is inside init_table(), and in which of its two refreshes.
Guarded ==
    /\ GuardReleased
    /\ second => table_init_busy
    /\ pc \in {"version"} \cup Initialising => table_init_busy /\ ~second
    /\ pc \in Refreshing /\ ~table_init_busy => op = "refresh"
    /\ table_init_busy => ~inited

\* The sizes on their way from the version to the buffer.
Sized ==
    /\ table_size <= MaxTableSize
    /\ pc \in Initialising => table_size # 0
    /\ (pc = "alloc" /\ Backend = "mem") => window >= table_size
    /\ (inited \/ (table_init_busy /\ pc \in Refreshing)) => Fits

\* What is known of the table in DRAM: both refreshes of init_table() find an empty
\* buffer and so ask for a transfer; the second transfer is one that is done.
Filled ==
    /\ table_init_busy /\ pc \in {"compare", "transfer"} => empty
    /\ Backend = "mem" =>
         /\ inited => booted
         /\ table_init_busy /\ pc = "copy" => booted
         /\ second => booted
         /\ second /\ pc = "copy" => ~dramEmpty
         /\ inited /\ pc = "copy" => ahead \/ renewed

\* The inductive invariant.
Inv == Guarded /\ Sized /\ Filled /\ InitBringsValues /\ RefreshRenews

-----------------------------------------------------------------------------
\* A call that fails, in init_table() or in a refresh of its own, returns with the
\* guard down, and never makes init_table() a success.
Failed ==
    /\ pc' = "ret" /\ err' \in Errors \ {"none"} /\ op' = op
    /\ table_init_busy' = FALSE /\ second' = FALSE
    /\ inited' \in BOOLEAN /\ (inited' => inited)

LEMMA InitFails ==
    ASSUME NEW e \in Errors \ {"none"}, InitReturns(e)
    PROVE  Failed
  <1>1. inited' = FALSE
    BY DEF InitReturns
  <1>2. pc' = "ret" /\ err' \in Errors \ {"none"} /\ op' = op
    BY DEF InitReturns
  <1>3. table_init_busy' = FALSE /\ second' = FALSE
    BY DEF InitReturns
  <1> QED BY <1>1, <1>2, <1>3 DEF Failed

LEMMA RefreshFails ==
    ASSUME ControlTypes, Guarded, NEW e \in Errors \ {"none"}, RefreshReturns(e)
    PROVE  Failed
  <1>1. CASE table_init_busy
    BY <1>1, InitFails DEF RefreshReturns
  <1>2. CASE ~table_init_busy
    <2>1. second' = FALSE /\ table_init_busy' = FALSE
      BY <1>2 DEF RefreshReturns, Guarded, ControlTypes
    <2>2. inited' \in BOOLEAN /\ (inited' => inited)
      BY <1>2 DEF RefreshReturns, ControlTypes
    <2>3. pc' = "ret" /\ err' \in Errors \ {"none"} /\ op' = op
      BY <1>2 DEF RefreshReturns
    <2> QED BY <2>1, <2>2, <2>3 DEF Failed
  <1> QED BY <1>1, <1>2

LEMMA TypeInit == Init => TypeOK
  <1>1. Init => ControlTypes
    BY DEF Init, ControlTypes, Errors
  <1>2. Init => SizeTypes
    BY SizeAssumption DEF Init, SizeTypes, Versions
  <1> QED BY <1>1, <1>2 DEF TypeOK

LEMMA InvInit == Init => Inv
  BY SizeAssumption DEF Init, Inv, Guarded, GuardReleased, Sized, Fits, Filled,
     InitBringsValues, RefreshRenews, Initialising, Refreshing

LEMMA InvNext == TypeOK /\ Inv /\ [Next]_vars => TypeOK' /\ Inv'
  <1> SUFFICES ASSUME TypeOK, Inv, [Next]_vars PROVE TypeOK' /\ Inv'
    OBVIOUS
  <1> USE DEF Inv, control, table, buffer, dram
  <1>0. ControlTypes /\ SizeTypes
    BY DEF TypeOK
  <1>1. ASSUME NEW o \in {"init", "refresh", "get"}, Call(o) PROVE TypeOK' /\ Inv'
    <2>1. CASE o = "init" \/ alloc = 0
      <3>1. ControlTypes'
        BY <1>1, <2>1, <1>0 DEF Call, EnterInit, ControlTypes, Errors
      <3>2. SizeTypes'
        BY <1>1, <2>1, <1>0 DEF Call, SizeTypes
      <3>3. Guarded'
        BY <1>1, <2>1, <1>0 DEF Call, EnterInit, Guarded, GuardReleased
      <3>4. Sized'
        BY <1>1, <2>1, <1>0 DEF Call, EnterInit, Sized, Guarded, Initialising,
           Refreshing
      <3>5. Filled'
        BY <1>1, <2>1, <1>0 DEF Call, EnterInit, Filled
      <3>6. InitBringsValues' /\ RefreshRenews'
        BY <1>1, <2>1, <1>0 DEF Call, EnterInit, InitBringsValues, RefreshRenews
      <3> QED BY <3>1, <3>2, <3>3, <3>4, <3>5, <3>6 DEF TypeOK
    <2>2. CASE ~(o = "init" \/ alloc = 0)
      <3>1. ControlTypes'
        BY <1>1, <2>2, <1>0 DEF Call, ControlTypes
      <3>2. SizeTypes'
        BY <1>1, <2>2, <1>0 DEF Call, SizeTypes
      <3>3. Guarded'
        BY <1>1, <2>2, <1>0 DEF Call, Guarded, GuardReleased, Initialising, Refreshing
      <3>4. Sized'
        BY <1>1, <2>2, <1>0 DEF Call, Sized, Fits, Guarded, GuardReleased,
           Initialising
      <3>5. Filled'
        BY <1>1, <2>2, <1>0 DEF Call, Filled, Guarded, GuardReleased
      <3>6. InitBringsValues' /\ RefreshRenews'
        BY <1>1, <2>2, <1>0 DEF Call, InitBringsValues, RefreshRenews
      <3> QED BY <3>1, <3>2, <3>3, <3>4, <3>5, <3>6 DEF TypeOK
    <2> QED BY <2>1, <2>2
  <1>2. ASSUME NEW resp \in Responses, NEW ver \in Versions, RequestVersion(resp, ver)
        PROVE  TypeOK' /\ Inv'
    <2>1. Size(ver) \in 1 .. MaxTableSize /\ MaxTableSize \in Nat
      BY SizeInRange, SizeAssumption
    <2>2. \/ Failed
          \/ pc' = "address" /\ UNCHANGED <<op, err, table_init_busy, second, inited>>
      BY <1>2, InitFails, TranslatedError DEF RequestVersion, Errors
    <2>3. /\ pc = "version" /\ table_ver' \in Versions /\ table_size' = Size(ver)
          /\ UNCHANGED <<tries, table_addr, buffer, window, dram>>
      BY <1>2 DEF RequestVersion
    <2>4. CASE Failed
      <3>1. ControlTypes'
        BY <2>1, <2>3, <2>4, <1>0 DEF Failed, ControlTypes
      <3>2. SizeTypes'
        BY <2>1, <2>3, <2>4, <1>0 DEF SizeTypes
      <3>3. Guarded'
        BY <2>1, <2>3, <2>4, <1>0 DEF Failed, Guarded, GuardReleased,
           Initialising, Refreshing
      <3>4. Sized'
        BY <2>1, <2>3, <2>4, <1>0 DEF Failed, Sized, Guarded
      <3>5. Filled'
        BY <2>1, <2>3, <2>4, <1>0 DEF Failed, Filled
      <3>6. InitBringsValues' /\ RefreshRenews'
        BY <2>1, <2>3, <2>4, <1>0 DEF Failed, InitBringsValues, RefreshRenews
      <3> QED BY <3>1, <3>2, <3>3, <3>4, <3>5, <3>6 DEF TypeOK
    <2>5. CASE pc' = "address" /\ UNCHANGED <<op, err, table_init_busy, second, inited>>
      <3>1. ControlTypes'
        BY <2>1, <2>3, <2>5, <1>0 DEF ControlTypes
      <3>2. SizeTypes'
        BY <2>1, <2>3, <2>5, <1>0 DEF SizeTypes
      <3>3. Guarded'
        BY <2>1, <2>3, <2>5, <1>0 DEF Guarded, GuardReleased
      <3>4. Sized'
        BY <2>1, <2>3, <2>5, <1>0 DEF Sized, Guarded, Refreshing
      <3>5. Filled'
        BY <2>1, <2>3, <2>5, <1>0 DEF Filled
      <3>6. InitBringsValues' /\ RefreshRenews'
        BY <2>1, <2>3, <2>5, <1>0 DEF InitBringsValues, RefreshRenews
      <3> QED BY <3>1, <3>2, <3>3, <3>4, <3>5, <3>6 DEF TypeOK
    <2> QED BY <2>2, <2>4, <2>5
  <1>3. ASSUME NEW resp \in Responses, NEW addr \in {0, 1}, RequestAddress(resp, addr)
        PROVE  TypeOK' /\ Inv'
    <2>1. \/ Failed
          \/ pc' = "map" /\ UNCHANGED <<op, err, table_init_busy, second, inited>>
      BY <1>3, InitFails, TranslatedError DEF RequestAddress, Errors
    <2>2. /\ pc = "address" /\ table_addr' \in {0, 1}
          /\ UNCHANGED <<tries, table_ver, table_size, buffer, window, dram>>
      BY <1>3 DEF RequestAddress
    <2>3. CASE Failed
      <3>1. ControlTypes'
        BY <2>2, <2>3, <1>0 DEF Failed, ControlTypes
      <3>2. SizeTypes'
        BY <2>2, <2>3, <1>0 DEF SizeTypes
      <3>3. Guarded'
        BY <2>2, <2>3, <1>0 DEF Failed, Guarded, GuardReleased, Initialising,
           Refreshing
      <3>4. Sized'
        BY <2>2, <2>3, <1>0 DEF Failed, Sized, Guarded, Initialising
      <3>5. Filled'
        BY <2>2, <2>3, <1>0 DEF Failed, Filled
      <3>6. InitBringsValues' /\ RefreshRenews'
        BY <2>2, <2>3, <1>0 DEF Failed, InitBringsValues, RefreshRenews
      <3> QED BY <3>1, <3>2, <3>3, <3>4, <3>5, <3>6 DEF TypeOK
    <2>4. CASE pc' = "map" /\ UNCHANGED <<op, err, table_init_busy, second, inited>>
      <3>1. ControlTypes'
        BY <2>2, <2>4, <1>0 DEF ControlTypes
      <3>2. SizeTypes'
        BY <2>2, <2>4, <1>0 DEF SizeTypes
      <3>3. Guarded'
        BY <2>2, <2>4, <1>0 DEF Guarded, GuardReleased, Initialising
      <3>4. Sized'
        BY <2>2, <2>4, <1>0 DEF Sized, Guarded, Initialising, Refreshing
      <3>5. Filled'
        BY <2>2, <2>4, <1>0 DEF Filled
      <3>6. InitBringsValues' /\ RefreshRenews'
        BY <2>2, <2>4, <1>0 DEF InitBringsValues, RefreshRenews
      <3> QED BY <3>1, <3>2, <3>3, <3>4, <3>5, <3>6 DEF TypeOK
    <2> QED BY <2>1, <2>3, <2>4
  <1>4. CASE MapWindow
    <2>1. Avail(table_size) \in Nat /\ Avail(table_size) >= table_size
      BY <1>4, <1>0, WindowCovers, SizeAssumption DEF MapWindow, Sized,
         Initialising, SizeTypes
    <2>2. ControlTypes'
      BY <1>4, <2>1, <1>0 DEF MapWindow, ControlTypes
    <2>3. SizeTypes'
      BY <1>4, <2>1, <1>0 DEF MapWindow, SizeTypes
    <2>4. Guarded'
      BY <1>4, <2>1, <1>0 DEF MapWindow, Guarded, GuardReleased, Initialising
    <2>5. Sized'
      BY <1>4, <2>1, <1>0 DEF MapWindow, Sized, Guarded, Initialising, Refreshing
    <2>6. Filled'
      BY <1>4, <2>1, <1>0 DEF MapWindow, Filled
    <2>7. InitBringsValues' /\ RefreshRenews'
      BY <1>4, <2>1, <1>0 DEF MapWindow, InitBringsValues, RefreshRenews
    <2> QED BY <2>2, <2>3, <2>4, <2>5, <2>6, <2>7 DEF TypeOK
  <1>5. CASE MapFails
    <2>1. Failed
      BY <1>5, InitFails DEF MapFails, Errors
    <2>2. /\ pc = "map" /\ window' = 0
          /\ UNCHANGED <<tries, table, buffer, dram>>
      BY <1>5 DEF MapFails
    <2>3. ControlTypes'
      BY <2>1, <2>2, <1>0 DEF Failed, ControlTypes
    <2>4. SizeTypes'
      BY <2>1, <2>2, <1>0 DEF SizeTypes
    <2>5. Guarded'
      BY <2>1, <2>2, <1>0 DEF Failed, Guarded, GuardReleased, Initialising, Refreshing
    <2>6. Sized'
      BY <2>1, <2>2, <1>0 DEF Failed, Sized, Guarded, Initialising
    <2>7. Filled'
      BY <2>1, <2>2, <1>0 DEF Failed, Filled
    <2>8. InitBringsValues' /\ RefreshRenews'
      BY <2>1, <2>2, <1>0 DEF Failed, InitBringsValues, RefreshRenews
    <2> QED BY <2>3, <2>4, <2>5, <2>6, <2>7, <2>8 DEF TypeOK
  <1>6. CASE AdoptKmodSize
    <2>1. /\ pc = "map" /\ Backend = "kmod" /\ pc' = "alloc"
          /\ UNCHANGED <<op, err, table_init_busy, second, tries, table_ver, table_addr,
                         buffer, window, dram, inited>>
      BY <1>6 DEF AdoptKmodSize
    <2>2. table_size' \in 1 .. MaxTableSize /\ Backend # "mem" /\ MaxTableSize \in Nat
      BY <1>6, <1>0, SizeAssumption DEF AdoptKmodSize, Plausible, Sized,
         Initialising, SizeTypes
    <2>3. ControlTypes'
      BY <2>1, <2>2, <1>0 DEF ControlTypes
    <2>4. SizeTypes'
      BY <2>1, <2>2, <1>0 DEF SizeTypes
    <2>5. Guarded'
      BY <2>1, <2>2, <1>0 DEF Guarded, GuardReleased, Initialising
    <2>6. Sized'
      BY <2>1, <2>2, <1>0 DEF Sized, Guarded, Initialising, Refreshing
    <2>7. Filled'
      BY <2>1, <2>2, <1>0 DEF Filled
    <2>8. InitBringsValues' /\ RefreshRenews'
      BY <2>1, <2>2, <1>0 DEF InitBringsValues, RefreshRenews
    <2> QED BY <2>3, <2>4, <2>5, <2>6, <2>7, <2>8 DEF TypeOK
  <1>7. CASE Allocate
    <2>1. ControlTypes'
      BY <1>7, <1>0 DEF Allocate, ControlTypes
    <2>2. SizeTypes'
      BY <1>7, <1>0, SizeAssumption DEF Allocate, SizeTypes, Sized
    <2>3. Guarded'
      BY <1>7, <1>0 DEF Allocate, Guarded, GuardReleased, Initialising
    <2>4. Sized'
      BY <1>7, <1>0, SizeAssumption DEF Allocate, Sized, Fits, Initialising
    <2>5. Filled'
      BY <1>7, <1>0 DEF Allocate, Filled
    <2>6. InitBringsValues' /\ RefreshRenews'
      BY <1>7, <1>0 DEF Allocate, InitBringsValues, RefreshRenews
    <2> QED BY <2>1, <2>2, <2>3, <2>4, <2>5, <2>6 DEF TypeOK
  <1>8. CASE AllocateFails
    <2>1. Failed
      BY <1>8, InitFails DEF AllocateFails, Errors
    <2>2. /\ pc = "alloc" /\ alloc' = 0 /\ empty' = TRUE
          /\ UNCHANGED <<tries, table, renewed, window, dram>>
      BY <1>8 DEF AllocateFails
    <2>3. alloc' \in 0 .. MaxTableSize
      BY <2>2, SizeAssumption
    <2>4. ControlTypes'
      BY <2>1, <2>2, <2>3, <1>0 DEF Failed, ControlTypes
    <2>5. SizeTypes'
      BY <2>1, <2>2, <2>3, <1>0 DEF SizeTypes
    <2>6. Guarded'
      BY <2>1, <2>2, <2>3, <1>0 DEF Failed, Guarded, GuardReleased,
         Initialising, Refreshing
    <2>7. Sized'
      BY <2>1, <2>2, <2>3, <1>0 DEF Failed, Sized, Guarded, Initialising
    <2>8. Filled'
      BY <2>1, <2>2, <2>3, <1>0 DEF Failed, Filled
    <2>9. InitBringsValues' /\ RefreshRenews'
      BY <2>1, <2>2, <2>3, <1>0 DEF Failed, InitBringsValues, RefreshRenews
    <2> QED BY <2>4, <2>5, <2>6, <2>7, <2>8, <2>9 DEF TypeOK
  <1>9. CASE AskTransfer
    <2>1. ControlTypes'
      BY <1>9, <1>0 DEF AskTransfer, ControlTypes
    <2>2. SizeTypes'
      BY <1>9, <1>0 DEF AskTransfer, SizeTypes
    <2>3. Guarded'
      BY <1>9, <1>0 DEF AskTransfer, Guarded, GuardReleased, Initialising, Refreshing
    <2>4. Sized'
      BY <1>9, <1>0 DEF AskTransfer, Sized, Fits, Initialising, Refreshing
    <2>5. Filled'
      BY <1>9, <1>0 DEF AskTransfer, Filled
    <2>6. InitBringsValues' /\ RefreshRenews'
      BY <1>9, <1>0 DEF AskTransfer, InitBringsValues, RefreshRenews
    <2> QED BY <2>1, <2>2, <2>3, <2>4, <2>5, <2>6 DEF TypeOK
  <1>10. CASE SkipTransfer
    <2>1. ControlTypes'
      BY <1>10, <1>0 DEF SkipTransfer, SameAsWindow, ControlTypes
    <2>2. SizeTypes'
      BY <1>10, <1>0 DEF SkipTransfer, SameAsWindow, SizeTypes
    <2>3. Guarded'
      BY <1>10, <1>0 DEF SkipTransfer, SameAsWindow, Guarded, GuardReleased,
         Initialising, Refreshing
    <2>4. Sized'
      BY <1>10, <1>0 DEF SkipTransfer, SameAsWindow, Sized, Fits, Initialising,
         Refreshing
    <2>5. Filled'
      BY <1>10, <1>0 DEF SkipTransfer, SameAsWindow, Filled, Sized, Fits,
         Guarded, SizeTypes
    <2>6. InitBringsValues' /\ RefreshRenews'
      BY <1>10, <1>0 DEF SkipTransfer, SameAsWindow, InitBringsValues, RefreshRenews
    <2> QED BY <2>1, <2>2, <2>3, <2>4, <2>5, <2>6 DEF TypeOK
  <1>11. ASSUME NEW resp \in Responses, RequestTransfer(resp) PROVE TypeOK' /\ Inv'
    <2>1. pc = "transfer" /\ UNCHANGED <<table, buffer, window>>
      BY <1>11 DEF RequestTransfer
    <2>2. CASE /\ SmuTransfers /\ pc' = "copy"
               /\ UNCHANGED <<op, err, table_init_busy, second, tries, inited>>
      <3>1. /\ booted' = TRUE /\ dramEmpty' \in BOOLEAN /\ ahead' \in BOOLEAN
            /\ smu_ver' = smu_ver
            /\ booted => dramEmpty' = FALSE /\ ahead' = TRUE
        BY <1>0, <2>2 DEF SmuTransfers, ControlTypes
      <3>2. ControlTypes' /\ SizeTypes'
        BY <1>0, <2>1, <2>2, <3>1 DEF ControlTypes, SizeTypes
      <3>3. Guarded' /\ Sized'
        BY <1>0, <2>1, <2>2 DEF Guarded, GuardReleased, Sized, Fits,
           Initialising, Refreshing
      <3>4. Filled'
        BY <1>0, <2>1, <2>2, <3>1 DEF Filled
      <3>5. InitBringsValues' /\ RefreshRenews'
        BY <2>2 DEF InitBringsValues, RefreshRenews
      <3> QED BY <3>2, <3>3, <3>4, <3>5 DEF TypeOK
    <2>3. CASE /\ tries < 3 /\ tries' = tries + 1
               /\ UNCHANGED <<pc, op, err, table_init_busy, second, inited, dram>>
      <3>1. ControlTypes'
        BY <1>0, <2>1, <2>3 DEF ControlTypes
      <3>2. SizeTypes'
        BY <1>0, <2>1, <2>3 DEF SizeTypes
      <3>3. Inv'
        BY <2>1, <2>3 DEF Guarded, GuardReleased, Sized, Fits, Filled,
           InitBringsValues, RefreshRenews
      <3> QED BY <3>1, <3>2, <3>3 DEF TypeOK
    <2>4. CASE UNCHANGED <<tries, dram>> /\ RefreshReturns(Translated(resp))
      <3>1. Failed
        BY <1>0, <2>4, RefreshFails, TranslatedError
      <3>2. ControlTypes' /\ SizeTypes'
        BY <1>0, <2>1, <2>4, <3>1 DEF Failed, ControlTypes, SizeTypes
      <3>3. Guarded' /\ Sized'
        BY <1>0, <2>1, <3>1 DEF Failed, Guarded, GuardReleased, Sized, Fits,
           Initialising, Refreshing
      <3>4. Filled'
        BY <1>0, <2>1, <2>4, <3>1 DEF Failed, Filled
      <3>5. InitBringsValues' /\ RefreshRenews'
        BY <3>1 DEF Failed, InitBringsValues, RefreshRenews
      <3> QED BY <3>2, <3>3, <3>4, <3>5 DEF TypeOK
    <2> QED BY <1>11, <2>2, <2>3, <2>4 DEF RequestTransfer
  <1>12. CASE CopyTable
    <2>1. ControlTypes'
      BY <1>12, <1>0 DEF CopyTable, RefreshReturns, InitReturns, ControlTypes, Errors
    <2>2. SizeTypes'
      BY <1>12, <1>0 DEF CopyTable, RefreshReturns, InitReturns, SizeTypes
    <2>3. Guarded'
      BY <1>12, <1>0 DEF CopyTable, RefreshReturns, InitReturns, Guarded,
         GuardReleased, Initialising, Refreshing
    <2>4. Sized'
      BY <1>12, <1>0 DEF CopyTable, RefreshReturns, InitReturns, Sized, Fits,
         Initialising, Refreshing
    <2>5. Filled'
      BY <1>12, <1>0 DEF CopyTable, RefreshReturns, InitReturns, Filled
    <2>6. InitBringsValues' /\ RefreshRenews'
      BY <1>12, <1>0 DEF CopyTable, RefreshReturns, InitReturns,
         InitBringsValues, RefreshRenews, Filled, Guarded, Refreshing
    <2> QED BY <2>1, <2>2, <2>3, <2>4, <2>5, <2>6 DEF TypeOK
  <1>13. CASE CopyFails
    <2>1. Failed
      BY <1>13, <1>0, RefreshFails DEF CopyFails, Errors
    <2>2. /\ pc = "copy" /\ empty' \in BOOLEAN
          /\ UNCHANGED <<tries, table, alloc, renewed, window, dram>>
      BY <1>13, <1>0 DEF CopyFails, ControlTypes
    <2>3. ControlTypes'
      BY <2>1, <2>2, <1>0 DEF Failed, ControlTypes
    <2>4. SizeTypes'
      BY <2>1, <2>2, <1>0 DEF SizeTypes
    <2>5. Guarded'
      BY <2>1, <2>2, <1>0 DEF Failed, Guarded, GuardReleased, Initialising, Refreshing
    <2>6. Sized'
      BY <2>1, <2>2, <1>0 DEF Failed, Sized, Fits, Initialising
    <2>7. Filled'
      BY <2>1, <2>2, <1>0 DEF Failed, Filled
    <2>8. InitBringsValues' /\ RefreshRenews'
      BY <2>1, <2>2, <1>0 DEF Failed, InitBringsValues, RefreshRenews
    <2> QED BY <2>3, <2>4, <2>5, <2>6, <2>7, <2>8 DEF TypeOK
  <1>14. CASE Return
    <2>1. ControlTypes'
      BY <1>14, <1>0 DEF Return, ControlTypes, Errors
    <2>2. SizeTypes'
      BY <1>14, <1>0 DEF Return, SizeTypes
    <2>3. Guarded'
      BY <1>14, <1>0 DEF Return, Guarded, GuardReleased, Initialising, Refreshing
    <2>4. Sized'
      BY <1>14, <1>0 DEF Return, Sized, Fits, Guarded, GuardReleased, Initialising
    <2>5. Filled'
      BY <1>14, <1>0 DEF Return, Filled
    <2>6. InitBringsValues' /\ RefreshRenews'
      BY <1>14, <1>0 DEF Return, InitBringsValues, RefreshRenews
    <2> QED BY <2>1, <2>2, <2>3, <2>4, <2>5, <2>6 DEF TypeOK
  <1>15. CASE OtherTool
    <2>1. /\ booted' = TRUE /\ dramEmpty' \in BOOLEAN /\ ahead' \in BOOLEAN
          /\ smu_ver' = smu_ver
      BY <1>15, <1>0 DEF OtherTool, SmuTransfers, ControlTypes
    <2>2. UNCHANGED <<control, table, buffer, window, inited>>
      BY <1>15 DEF OtherTool
    <2>3. ControlTypes' /\ SizeTypes'
      BY <1>0, <2>1, <2>2 DEF ControlTypes, SizeTypes
    <2>4. Guarded' /\ Sized' /\ InitBringsValues' /\ RefreshRenews'
      BY <2>2 DEF Guarded, GuardReleased, Sized, Fits, InitBringsValues, RefreshRenews
    <2>5. \/ dramEmpty' = FALSE /\ ahead' = TRUE
          \/ UNCHANGED <<dramEmpty, ahead>>
      BY <1>15 DEF OtherTool, SmuTransfers
    <2>6. Filled'
      BY <1>0, <2>1, <2>2, <2>5 DEF Filled
    <2> QED BY <2>3, <2>4, <2>6 DEF TypeOK
  <1>16. CASE UNCHANGED vars
    <2>1. ControlTypes' /\ SizeTypes'
      BY <1>0, <1>16 DEF vars, ControlTypes, SizeTypes
    <2>2. Inv'
      BY <1>16 DEF vars, Guarded, GuardReleased, Sized, Fits, Filled,
         InitBringsValues, RefreshRenews
    <2> QED BY <2>1, <2>2 DEF TypeOK
  <1> QED
    BY <1>1, <1>2, <1>3, <1>4, <1>5, <1>6, <1>7, <1>8, <1>9, <1>10, <1>11, <1>12,
       <1>13, <1>14, <1>15, <1>16 DEF Next, Step

LEMMA InvAlways == Spec => [](TypeOK /\ Inv)
  BY TypeInit, InvInit, InvNext, PTL DEF Spec

\* Every variable keeps its type: no more than three transfers are asked for, and
\* no buffer is larger than the cap of the code (api.c:254-300, 340-371).
THEOREM TypeCorrect == Spec => []TypeOK
  BY InvAlways, PTL

\* After an init_table() that succeeded, size, buffer and window agree, on either
\* backend and for every table of sizes (api.c:326-395, osdep_linux_mem.c:107-137).
THEOREM SizeCorrect == Spec => []SizeIsBuffer
  <1>1. Inv => SizeIsBuffer
    BY DEF Inv, Sized, Fits, SizeIsBuffer
  <1> QED BY <1>1, InvAlways, PTL

\* No way out of init_table() leaves its guard up (api.c:312-323).
THEOREM GuardCorrect == Spec => []GuardReleased
  <1>1. Inv => GuardReleased
    BY DEF Inv, Guarded
  <1> QED BY <1>1, InvAlways, PTL

\* An init_table() that returns 0 has a table with values, although the first
\* transfer after boot may be answered and not done (api.c:383-392).
THEOREM InitCorrect == Spec => []InitBringsValues
  <1>1. Inv => InitBringsValues
    BY DEF Inv
  <1> QED BY <1>1, InvAlways, PTL

\* A refresh_table() that returns 0 has brought newer values, with or without a
\* transfer of its own (api.c:439-460).
THEOREM RefreshCorrect == Spec => []RefreshRenews
  <1>1. Inv => RefreshRenews
    BY DEF Inv
  <1> QED BY <1>1, InvAlways, PTL

-----------------------------------------------------------------------------
\* Over ryzen_smu, whose size is adopted whenever it is plausible, the buffer has
\* that size from the first allocation on, whatever later calls do.
DriverSized ==
    /\ alloc \in {0, KmodSize}
    /\ pc = "alloc" => table_size = KmodSize
    /\ pc \in Refreshing => alloc # 0

LEMMA DriverSizedNext ==
    ASSUME Backend = "kmod", Plausible(KmodSize), TypeOK, Inv, DriverSized, [Next]_vars
    PROVE  DriverSized'
  <1>0. KmodSize # 0
    BY DEF Plausible
  <1>1. ASSUME NEW o \in {"init", "refresh", "get"}, Call(o) PROVE DriverSized'
    BY <1>1 DEF Call, EnterInit, DriverSized, Refreshing
  <1>2. ASSUME NEW resp \in Responses, NEW ver \in Versions, RequestVersion(resp, ver)
        PROVE  DriverSized'
    <2>1. pc' \in {"address", "ret"}
      BY <1>2, InitFails, TranslatedError DEF RequestVersion, Failed, Errors
    <2> QED BY <1>2, <2>1 DEF RequestVersion, buffer, DriverSized, Refreshing
  <1>3. ASSUME NEW resp \in Responses, NEW addr \in {0, 1}, RequestAddress(resp, addr)
        PROVE  DriverSized'
    <2>1. pc' \in {"map", "ret"}
      BY <1>3, InitFails, TranslatedError DEF RequestAddress, Failed, Errors
    <2> QED BY <1>3, <2>1 DEF RequestAddress, buffer, DriverSized, Refreshing
  <1>4. ASSUME MapWindow \/ MapFails PROVE DriverSized'
    BY <1>4 DEF MapWindow, MapFails
  <1>5. CASE AdoptKmodSize
    BY <1>5 DEF AdoptKmodSize, buffer, DriverSized, Refreshing
  <1>6. CASE Allocate
    BY <1>0, <1>6 DEF Allocate, DriverSized
  <1>7. CASE AllocateFails
    <2>1. pc' = "ret"
      BY <1>7, InitFails DEF AllocateFails, Failed, Errors
    <2> QED BY <1>7, <2>1 DEF AllocateFails, DriverSized, Refreshing
  <1>8. ASSUME AskTransfer \/ SkipTransfer PROVE DriverSized'
    BY <1>8 DEF AskTransfer, SkipTransfer, buffer, DriverSized, Refreshing
  <1>9. ASSUME NEW resp \in Responses, RequestTransfer(resp) PROVE DriverSized'
    <2>1. pc' \in {"copy", "transfer", "ret"}
      BY <1>9, RefreshFails, TranslatedError DEF RequestTransfer, Failed, Inv, TypeOK
    <2> QED BY <1>9, <2>1 DEF RequestTransfer, buffer, DriverSized, Refreshing
  <1>10. CASE CopyTable
    <2>1. pc' \in {"compare", "ret"}
      BY <1>10 DEF CopyTable, RefreshReturns, InitReturns
    <2> QED BY <1>10, <2>1 DEF CopyTable, DriverSized, Refreshing
  <1>11. CASE CopyFails
    <2>1. pc' = "ret"
      BY <1>11, RefreshFails DEF CopyFails, Failed, Errors, Inv, TypeOK
    <2> QED BY <1>11, <2>1 DEF CopyFails, DriverSized, Refreshing
  <1>12. CASE Return
    BY <1>12 DEF Return, DriverSized, Refreshing
  <1>13. ASSUME OtherTool \/ UNCHANGED vars PROVE DriverSized'
    BY <1>13 DEF OtherTool, vars, control, table, buffer, DriverSized
  <1> QED
    BY <1>1, <1>2, <1>3, <1>4, <1>5, <1>6, <1>7, <1>8, <1>9, <1>10, <1>11, <1>12, <1>13
    DEF Next, Step

\* No copy from ryzen_smu's table writes past the end of the buffer, not even after
\* an init_table() that failed half way, when the driver reports a size that the
\* library accepts or none at all (api.c:353-366, 455).
THEOREM CopyCorrect ==
    ASSUME Backend = "kmod", Plausible(KmodSize) \/ KmodSize = 0
    PROVE  Spec => []CopyInBounds
  <1>1. CASE KmodSize = 0
    <2>1. CopyInBounds
      BY <1>1 DEF CopyInBounds, Readable
    <2> QED BY <2>1, PTL
  <1>2. CASE Plausible(KmodSize)
    <2>1. Init => DriverSized
      BY DEF Init, DriverSized, Refreshing
    <2>2. TypeOK /\ Inv /\ DriverSized /\ [Next]_vars => DriverSized'
      BY <1>2, DriverSizedNext
    <2>3. DriverSized => CopyInBounds
      BY DEF DriverSized, CopyInBounds, Readable, Refreshing
    <2> QED BY <2>1, <2>2, <2>3, InvAlways, PTL DEF Spec
  <1> QED BY <1>1, <1>2

=============================================================================

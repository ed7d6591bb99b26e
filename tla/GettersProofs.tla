--------------------------- MODULE GettersProofs ---------------------------
(***************************************************************************)
(* Proofs about Getters: for any sizes, any set of reported versions and   *)
(* either backend, on the offsets of TableLayout.                          *)
(***************************************************************************)
EXTENDS Getters, PmTableProofs

-----------------------------------------------------------------------------
\* Every field has a byte, and every getter reads one.

LEMMA LimitBytes ==
    \A f \in StableFields(Versions) \cup ApuSlowFields \cup TctlFields \cup ApuSkinFields
                \cup DgpuSkinFields \cup PsiFields \cup CclkFields : f[3] \in Nat
  BY DEF StableFields, ApuSlowFields, TctlFields, ApuSkinFields, DgpuSkinFields,
     PsiFields, CclkFields

LEMMA VrmBytes ==
    \A f \in VrmFields \cup VrmSocFields \cup VrmMaxFields \cup VrmSocMaxFields :
        f[3] \in Nat
  BY DEF VrmFields, VrmSocFields, VrmMaxFields, VrmSocMaxFields

LEMMA ClockBytes ==
    \A f \in TimeFields \cup L3Fields \cup GfxFields \cup ClockFields \cup SocFields :
        f[3] \in Nat
  <1>1. \A f \in TimeFields : f[3] \in Nat
    BY DEF TimeFields
  <1>2. \A f \in L3Fields : f[3] \in Nat
    BY DEF L3Fields
  <1>3. \A f \in GfxFields : f[3] \in Nat
    BY DEF GfxFields
  <1>4. \A f \in ClockFields \cup SocFields : f[3] \in Nat
    BY DEF ClockFields, SocFields
  <1> QED BY <1>1, <1>2, <1>3, <1>4

LEMMA CoreBytes == \A f \in CoreFields : f[3] \in Nat
  BY DEF CoreFields, CorePowerFields, CoreVoltFields, CoreTempFields, CoreClkFields

LEMMA LayoutBytes ==
    ASSUME NEW ver \in Versions, NEW r \in Layout[ver]
    PROVE  r[3] \in Nat
  <1>1. \A f \in PlainFields : f[3] \in Nat
    BY LimitBytes, VrmBytes, ClockBytes DEF PlainFields
  <1>2. CASE r \in {<<f[1], 0, f[3]>> : f \in {g \in PlainFields : ver \in g[2]}}
    BY <1>1, <1>2
  <1>3. CASE r \in {<<fc[1][1], fc[2], fc[1][3] + 4 * fc[2]>> :
                        fc \in {g \in CoreFields : ver \in g[2]} \X Cores(ver)}
    <2>1. PICK f \in CoreFields, core \in Cores(ver) : r = <<f[1], core, f[3] + 4 * core>>
      BY <1>3
    <2>2. core \in Nat
      BY <2>1 DEF Cores
    <2> QED BY <2>1, <2>2, CoreBytes
  <1> QED BY <1>2, <1>3 DEF Layout

-----------------------------------------------------------------------------
\* The bound of _read_float_value keeps the whole word inside the first table_size
\* bytes, for offsets that are no multiple of four as well (api.c:504-516).
LEMMA WordInBounds ==
    ASSUME table_size \in Nat, NEW byte \in Nat
    PROVE  Word(byte) = NaN \/ (Word(byte) + 1) * WordSize <= table_size
  <1>1. CASE alloc = 0 \/ byte + WordSize > table_size
    BY <1>1 DEF Word
  <1>2. CASE ~(alloc = 0 \/ byte + WordSize > table_size)
    <2>1. Word(byte) = byte \div WordSize
      BY <1>2 DEF Word
    <2>2. WordSize \in Nat \ {0}
      BY SizeAssumption
    <2>3. byte \div WordSize \in Nat /\ WordSize * (byte \div WordSize) <= byte
      BY <2>2, Division
    <2>4. DEFINE q == byte \div WordSize
    <2>5. q \in Nat /\ WordSize * q <= byte
      BY <2>3
    <2> HIDE DEF q
    <2>6. (q + 1) * WordSize = WordSize * q + WordSize
      BY <2>2, <2>5
    <2>7. WordSize * q \in Nat /\ (q + 1) * WordSize \in Nat
      BY <2>2, <2>5
    <2>8. (q + 1) * WordSize <= table_size
      BY <1>2, <2>2, <2>5, <2>6, <2>7
    <2> QED BY <2>1, <2>8 DEF q
  <1> QED BY <1>1, <1>2

\* After a successful init_table() no getter reads beyond the buffer, whatever sizes
\* the driver and the versions have (api.c:499-516).
THEOREM GettersCorrect == Spec => []GettersInBuffer
  <1>1. TypeOK /\ Inv => GettersInBuffer
    <2> SUFFICES ASSUME TypeOK, Inv, pc = "idle", inited, NEW r \in Readings
                 PROVE  r[3] = NaN \/ (r[3] + 1) * WordSize <= alloc
      BY DEF GettersInBuffer
    <2>1. table_ver \in Versions /\ table_size \in Nat
      BY DEF TypeOK, SizeTypes
    <2>2. table_size = alloc
      BY DEF Inv, Sized, Fits
    <2>3. PICK entry \in Layout[table_ver] : r = <<entry[1], entry[2], Word(entry[3])>>
      BY DEF Readings
    <2>4. entry[3] \in Nat
      BY <2>1, <2>3, LayoutBytes
    <2>5. Word(entry[3]) = NaN \/ (Word(entry[3]) + 1) * WordSize <= table_size
      BY <2>1, <2>4, WordInBounds
    <2> QED BY <2>2, <2>3, <2>5
  <1> QED BY <1>1, InvAlways, PTL

-----------------------------------------------------------------------------
\* The sizes of the source.

LEMMA Generations ==
    /\ V37 = {\h370000, \h370001, \h370002, \h370003, \h370004, \h370005}
    /\ V37Early = {\h370000, \h370001, \h370002, \h370003, \h370004}
    /\ V40 = {\h400001, \h400002, \h400003, \h400004, \h400005}
    /\ V4C = {\h4C0006, \h4C0007, \h4C0008, \h4C0009}
  BY DEF V37, V37Early, V40, V4C

LEMMA SizesTo3F ==
    /\ SizeByVersion(\h1E0001) = \h568 /\ SizeByVersion(\h1E0002) = \h580
    /\ SizeByVersion(\h1E0003) = \h578 /\ \A v \in V1ELate : SizeByVersion(v) = \h608
    /\ SizeByVersion(\h370000) = \h794 /\ SizeByVersion(\h370001) = \h884
    /\ SizeByVersion(\h370002) = \h88C /\ SizeByVersion(\h370003) = \h8AC
    /\ SizeByVersion(\h370004) = \h8AC /\ SizeByVersion(\h370005) = \h8C8
    /\ \A v \in V3F : SizeByVersion(v) = \h7AC
  BY DEF SizeByVersion, V1ELate, V3F, V40Late, V5D

LEMMA SizesFrom40 ==
    /\ SizeByVersion(\h400001) = \h910 /\ SizeByVersion(\h400002) = \h928
    /\ SizeByVersion(\h400003) = \h94C /\ \A v \in V40Late : SizeByVersion(v) = \h944
    /\ SizeByVersion(\h450004) = \hAA4 /\ SizeByVersion(\h450005) = \hAB0
    /\ SizeByVersion(\h4C0003) = \hB18 /\ SizeByVersion(\h4C0004) = \hB1C
    /\ SizeByVersion(\h4C0005) = \hAF8 /\ SizeByVersion(\h4C0006) = \hAFC
    /\ SizeByVersion(\h4C0007) = \hB00 /\ SizeByVersion(\h4C0008) = \hAF0
    /\ SizeByVersion(\h4C0009) = \hB00
    /\ \A v \in V5D : SizeByVersion(v) = \hD54
    /\ \A v \in V64 : SizeByVersion(v) = \hE50
  BY DEF SizeByVersion, V1ELate, V3F, V40Late, V5D, V64

\* The table is the one of the source, of floats.
SourceSizes == SizeOf = VersionSizes /\ UnknownSize = 4096

LEMMA SizesOfSource ==
    ASSUME SourceSizes
    PROVE  /\ \A v \in SizedVersions : Size(v) = SizeByVersion(v)
           /\ \A v : v \notin SizedVersions => Size(v) = 4096
  BY DEF SourceSizes, Size, Known, VersionSizes

\* Every version in the switch is one of a generation.
LEMMA SmallestTable == ASSUME SourceSizes, NEW v PROVE Size(v) \in Nat /\ Size(v) >= \h568
  <1>1. CASE v \in SizedVersions
    <2>1. Size(v) = SizeByVersion(v)
      BY <1>1, SizesOfSource
    <2>2. CASE v \in V1E
      <3>1. v \in {\h1E0001, \h1E0002, \h1E0003} \cup V1ELate
        BY <2>2 DEF V1E, V1ELate
      <3> QED BY <2>1, <3>1, SizesTo3F
    <2>3. CASE v \in V37 \cup V3F
      BY <2>1, <2>3, Generations, SizesTo3F
    <2>4. CASE v \in V40
      <3>1. v \in {\h400001, \h400002, \h400003} \cup V40Late
        BY <2>4, Generations DEF V40Late
      <3> QED BY <2>1, <3>1, SizesFrom40
    <2>5. CASE v \in V45 \cup {\h4C0003, \h4C0004, \h4C0005}
      BY <2>1, <2>5, SizesFrom40 DEF V45
    <2>6. CASE v \in V4C
      BY <2>1, <2>6, Generations, SizesFrom40
    <2>7. CASE v \in V5D \cup V64
      BY <2>1, <2>7, SizesFrom40
    <2> QED BY <1>1, <2>2, <2>3, <2>4, <2>5, <2>6, <2>7 DEF SizedVersions
  <1> QED BY <1>1, SizesOfSource

\* The fields of the first kilobyte are in every table.
LEMMA FrontFieldsFit ==
    \A f \in StableFields(Versions) \cup ApuSlowFields
             \cup VrmFields \cup VrmSocFields \cup VrmMaxFields \cup VrmSocMaxFields
             \cup TctlFields \cup ApuSkinFields \cup DgpuSkinFields \cup PsiFields
             \cup CclkFields \cup SocFields :
        f[3] + 4 <= \h400
  BY DEF StableFields, ApuSlowFields, VrmFields, VrmSocFields, VrmMaxFields, VrmSocMaxFields,
         TctlFields, ApuSkinFields, DgpuSkinFields, PsiFields, CclkFields, SocFields

\* The others are in the tables of the versions that have them.
FitsTable(f) == \A ver \in f[2] : f[3] + 4 <= Size(ver)

LEMMA KnownSizes ==
    ASSUME SourceSizes
    PROVE  /\ Size(\h1E0002) = \h580 /\ Size(\h1E0003) = \h578
           /\ \A v \in V1ELate : Size(v) = \h608
           /\ Size(\h370000) = \h794 /\ Size(\h370001) = \h884 /\ Size(\h370002) = \h88C
           /\ Size(\h370003) = \h8AC /\ Size(\h370004) = \h8AC /\ Size(\h370005) = \h8C8
           /\ \A v \in V3F : Size(v) = \h7AC
           /\ Size(\h400001) = \h910 /\ Size(\h400002) = \h928 /\ Size(\h400003) = \h94C
           /\ \A v \in V40Late : Size(v) = \h944
           /\ \A v \in V4C : Size(v) \in \hAF0 .. \hB00
           /\ \A v \in V5D : Size(v) = \hD54
           /\ \A v \in V64 : Size(v) = \hE50
           /\ \A v \in V65 : Size(v) = 4096
  <1>1. V1E \cup V37 \cup V3F \cup V40 \cup V4C \cup V5D \cup V64 \subseteq SizedVersions
    BY DEF SizedVersions
  <1>2. {\h1E0002, \h1E0003} \cup V1ELate \subseteq V1E /\ V40Late \subseteq V40
    BY Generations DEF V1E, V1ELate, V40Late
  <1>3. \A v \in V65 : v \notin SizedVersions
    BY Generations DEF V65, SizedVersions, V1E, V3F, V45, V5D, V64
  <1> QED BY <1>1, <1>2, <1>3, Generations, SizesOfSource, SizesTo3F, SizesFrom40

LEMMA BackFieldsFit ==
    ASSUME SourceSizes
    PROVE  \A f \in TimeFields \cup L3Fields \cup GfxFields \cup ClockFields : FitsTable(f)
  <1>1. \A f \in TimeFields : FitsTable(f)
    <2> SUFFICES ASSUME NEW f \in TimeFields, NEW ver \in f[2] PROVE f[3] + 4 <= Size(ver)
      BY DEF FitsTable
    <2>1. \/ ver = \h1E0002 /\ f[3] <= \h568
          \/ ver = \h1E0003 /\ f[3] <= \h560
          \/ ver \in V1ELate /\ f[3] <= \h5E4
          \/ ver = \h370000 /\ f[3] <= \h76C
          \/ ver = \h370001 /\ f[3] <= \h85C
          \/ ver = \h370002 /\ f[3] <= \h864
          \/ ver \in {\h370003, \h370004} /\ f[3] <= \h884
          \/ ver = \h370005 /\ f[3] <= \h8A0
          \/ ver = \h400001 /\ f[3] <= \h8E8
          \/ ver = \h400002 /\ f[3] <= \h900
          \/ ver = \h400003 /\ f[3] <= \h924
          \/ ver \in V40Late \cup V4C /\ f[3] <= \h91C
          \/ ver \in V5D /\ f[3] <= \h9C0
          \/ ver \in V65 /\ f[3] <= \h910
      BY DEF TimeFields, V37Last
    <2>2. f[3] \in Nat
      BY ClockBytes
    <2> QED BY <2>1, <2>2, KnownSizes
  <1>2. \A f \in L3Fields : FitsTable(f)
    BY KnownSizes, Generations DEF L3Fields, FitsTable, V37Last
  <1>3. \A f \in GfxFields : FitsTable(f)
    BY KnownSizes, Generations DEF GfxFields, FitsTable, V37Last
  <1>4. \A f \in ClockFields : FitsTable(f)
    BY KnownSizes, Generations DEF ClockFields, FitsTable, V37Last
  <1> QED BY <1>1, <1>2, <1>3, <1>4

LEMMA CoreFieldsFit ==
    ASSUME SourceSizes, NEW f \in CoreFields, NEW ver \in f[2], NEW core \in Cores(ver)
    PROVE  f[3] + 4 * core + 4 <= Size(ver)
  <1>1. core \in 0 .. 15
    BY DEF Cores
  <1>2. CASE f \in CorePowerFields
    BY <1>1, <1>2, KnownSizes, Generations DEF CorePowerFields, V37Last
  <1>3. CASE f \in CoreVoltFields
    BY <1>1, <1>3, KnownSizes, Generations DEF CoreVoltFields, V37Last
  <1>4. CASE f \in CoreTempFields
    BY <1>1, <1>4, KnownSizes, Generations DEF CoreTempFields, V37Last
  <1>5. CASE f \in CoreClkFields
    BY <1>1, <1>5, KnownSizes, Generations DEF CoreClkFields, V37Last
  <1> QED BY <1>2, <1>3, <1>4, <1>5 DEF CoreFields

LEMMA LayoutFits ==
    ASSUME SourceSizes, NEW ver \in Versions, NEW r \in Layout[ver]
    PROVE  r[3] + 4 <= Size(ver)
  <1>1. CASE r \in {<<f[1], 0, f[3]>> : f \in {g \in PlainFields : ver \in g[2]}}
    <2>1. PICK f \in PlainFields : ver \in f[2] /\ r[3] = f[3]
      BY <1>1
    <2>2. CASE f \in TimeFields \cup L3Fields \cup GfxFields \cup ClockFields
      BY <2>1, <2>2, BackFieldsFit DEF FitsTable
    <2>3. CASE f \notin TimeFields \cup L3Fields \cup GfxFields \cup ClockFields
      <3>1. f[3] + 4 <= \h400
        BY <2>3, FrontFieldsFit DEF PlainFields
      <3>2. f[3] \in Nat
        BY LimitBytes, VrmBytes, ClockBytes DEF PlainFields
      <3> QED BY <2>1, <3>1, <3>2, SmallestTable
    <2> QED BY <2>2, <2>3
  <1>2. CASE r \in {<<fc[1][1], fc[2], fc[1][3] + 4 * fc[2]>> :
                        fc \in {g \in CoreFields : ver \in g[2]} \X Cores(ver)}
    <2>1. PICK f \in CoreFields, core \in Cores(ver) :
            ver \in f[2] /\ r[3] = f[3] + 4 * core
      BY <1>2
    <2> QED BY <2>1, CoreFieldsFit
  <1> QED BY <1>1, <1>2 DEF Layout

\* With the sizes of the source no offset lies beyond its table: a getter that knows the
\* version returns a value, unless the driver's table is smaller (api.c:151-187, 1554-2910).
THEOREM AnswerCorrect ==
    ASSUME SourceSizes, WordSize = 4
    PROVE  Spec => []GettersAnswer
  <1>1. TypeOK /\ Inv => GettersAnswer
    <2> SUFFICES ASSUME TypeOK, Inv, pc = "idle", inited, table_size >= Size(table_ver),
                        NEW r \in Readings
                 PROVE  r[3] # NaN
      BY DEF GettersAnswer
    <2>1. table_ver \in Versions /\ table_size \in Nat /\ alloc # 0
      BY DEF TypeOK, SizeTypes, Inv, Sized, Fits
    <2>2. PICK entry \in Layout[table_ver] : r = <<entry[1], entry[2], Word(entry[3])>>
      BY DEF Readings
    <2>3. entry[3] \in Nat /\ entry[3] + 4 <= Size(table_ver)
      BY <2>1, LayoutBytes, LayoutFits
    <2>4. entry[3] + WordSize <= table_size
      BY <2>1, <2>3, SmallestTable
    <2>5. Word(entry[3]) = entry[3] \div 4
      BY <2>1, <2>3, <2>4 DEF Word
    <2>6. entry[3] \div 4 \in Nat
      BY <2>3
    <2> QED BY <2>2, <2>5, <2>6 DEF NaN
  <1> QED BY <1>1, InvAlways, PTL

-----------------------------------------------------------------------------
\* Limits and their values.

\* f is a limit, g the value it limits, and version ver has both.
Pair(f, g, ver) == <<f[1], g[1]>> \in LimitValues /\ ver \in f[2] /\ ver \in g[2]
Beside(fields) == \A f, g \in fields : \A ver : Pair(f, g, ver) => g[3] = f[3] + 4

LEMMA StableBeside == Beside(StableFields(Versions)) /\ Beside(ApuSlowFields)
  BY DEF StableFields, ApuSlowFields, Beside, Pair, LimitValues

LEMMA VrmBeside ==
    Beside(VrmFields) /\ Beside(VrmSocFields) /\ Beside(VrmMaxFields) /\ Beside(VrmSocMaxFields)
  <1>1. V1E \cap VrmVersions = {} /\ V5D \cap VrmVersions = {} /\ V1E \cap V5D = {}
        /\ V65 \cap VrmVersions = {} /\ V1E \cap V65 = {}
    BY Generations DEF V1E, VrmVersions, V45, V5D, V65
  <1>2. Beside(VrmFields)
    BY <1>1 DEF VrmFields, Beside, Pair, LimitValues
  <1>3. Beside(VrmSocFields)
    BY <1>1 DEF VrmSocFields, Beside, Pair, LimitValues
  <1>4. Beside(VrmMaxFields)
    BY <1>1 DEF VrmMaxFields, Beside, Pair, LimitValues
  <1>5. Beside(VrmSocMaxFields)
    BY <1>1 DEF VrmSocMaxFields, Beside, Pair, LimitValues
  <1> QED BY <1>2, <1>3, <1>4, <1>5

LEMMA TemperatureBeside ==
    Beside(TctlFields) /\ Beside(ApuSkinFields) /\ Beside(DgpuSkinFields)
  <1>1. (V1E \cup V64) \cap TctlVersions = {}
        /\ V5D \cap (V37 \cup V40 \cup V45 \cup V4C \cup V64) = {}
    BY Generations DEF V1E, V3F, V45, V5D, V64, V65, TctlVersions
  <1>2. Beside(TctlFields)
    BY <1>1 DEF TctlFields, Beside, Pair, LimitValues
  <1>3. Beside(ApuSkinFields)
    BY DEF ApuSkinFields, Beside, Pair, LimitValues
  <1>4. Beside(DgpuSkinFields)
    BY <1>1 DEF DgpuSkinFields, Beside, Pair, LimitValues
  <1> QED BY <1>2, <1>3, <1>4

\* Where the limits and their values are declared, and nowhere else.
Power == {"stapm_limit", "stapm_value", "fast_limit", "fast_value", "slow_limit", "slow_value"}
ApuSlow == {"apu_slow_limit", "apu_slow_value"}
Vrm == {"vrm_current", "vrm_current_value"}
VrmSoc == {"vrmsoc_current", "vrmsoc_current_value"}
VrmMax == {"vrmmax_current", "vrmmax_current_value"}
VrmSocMax == {"vrmsocmax_current", "vrmsocmax_current_value"}
Tctl == {"tctl_temp", "tctl_temp_value"}
ApuSkin == {"apu_skin_temp_limit", "apu_skin_temp_value"}
DgpuSkin == {"dgpu_skin_temp_limit", "dgpu_skin_temp_value"}
Limits == Power \cup ApuSlow \cup Vrm \cup VrmSoc \cup VrmMax \cup VrmSocMax
          \cup Tctl \cup ApuSkin \cup DgpuSkin

LEMMA LimitNames ==
    /\ \A f \in StableFields(Versions) : f[1] \in Power
    /\ \A f \in ApuSlowFields : f[1] \in ApuSlow
    /\ \A f \in VrmFields : f[1] \in Vrm
    /\ \A f \in VrmSocFields : f[1] \in VrmSoc
    /\ \A f \in VrmMaxFields : f[1] \in VrmMax
    /\ \A f \in VrmSocMaxFields : f[1] \in VrmSocMax
    /\ \A f \in TctlFields : f[1] \in Tctl
    /\ \A f \in ApuSkinFields : f[1] \in ApuSkin
    /\ \A f \in DgpuSkinFields : f[1] \in DgpuSkin
  <1>1. /\ \A f \in StableFields(Versions) : f[1] \in Power
        /\ \A f \in ApuSlowFields : f[1] \in ApuSlow
    BY DEF StableFields, ApuSlowFields, Power, ApuSlow
  <1>2. /\ \A f \in VrmFields : f[1] \in Vrm
        /\ \A f \in VrmSocFields : f[1] \in VrmSoc
        /\ \A f \in VrmMaxFields : f[1] \in VrmMax
        /\ \A f \in VrmSocMaxFields : f[1] \in VrmSocMax
    BY DEF VrmFields, VrmSocFields, VrmMaxFields, VrmSocMaxFields, Vrm, VrmSoc, VrmMax,
           VrmSocMax
  <1>3. /\ \A f \in TctlFields : f[1] \in Tctl
        /\ \A f \in ApuSkinFields : f[1] \in ApuSkin
        /\ \A f \in DgpuSkinFields : f[1] \in DgpuSkin
    BY DEF TctlFields, ApuSkinFields, DgpuSkinFields, Tctl, ApuSkin, DgpuSkin
  <1> QED BY <1>1, <1>2, <1>3

LEMMA OtherNames ==
    \A f \in PsiFields \cup CclkFields \cup TimeFields \cup L3Fields \cup GfxFields
             \cup ClockFields \cup SocFields \cup CoreFields : f[1] \notin Limits
  <1> USE DEF Limits, Power, ApuSlow, Vrm, VrmSoc, VrmMax, VrmSocMax, Tctl, ApuSkin, DgpuSkin
  <1>1. \A f \in PsiFields \cup CclkFields : f[1] \notin Limits
    BY DEF PsiFields, CclkFields
  <1>2. \A f \in TimeFields : f[1] \notin Limits
    BY DEF TimeFields
  <1>3. \A f \in L3Fields \cup GfxFields : f[1] \notin Limits
    BY DEF L3Fields, GfxFields
  <1>4. \A f \in ClockFields \cup SocFields : f[1] \notin Limits
    BY DEF ClockFields, SocFields
  <1>5. \A f \in CorePowerFields \cup CoreVoltFields : f[1] \notin Limits
    BY DEF CorePowerFields, CoreVoltFields
  <1>6. \A f \in CoreTempFields \cup CoreClkFields : f[1] \notin Limits
    BY DEF CoreTempFields, CoreClkFields
  <1> QED BY <1>1, <1>2, <1>3, <1>4, <1>5, <1>6 DEF CoreFields

\* A limit and its value have the same kind of name.
SameKind(a, b) ==
    \E kind \in {Power, ApuSlow, Vrm, VrmSoc, VrmMax, VrmSocMax, Tctl, ApuSkin, DgpuSkin} :
        a \in kind /\ b \in kind

LEMMA KindsOfPairs == \A pair \in LimitValues : SameKind(pair[1], pair[2])
  BY DEF LimitValues, SameKind, Power, ApuSlow, Vrm, VrmSoc, VrmMax, VrmSocMax, Tctl, ApuSkin,
         DgpuSkin

\* So a pair is in one group of fields.
LEMMA PairsBeside == Beside(PlainFields)
  <1> SUFFICES ASSUME NEW f \in PlainFields, NEW g \in PlainFields, NEW ver, Pair(f, g, ver)
               PROVE  g[3] = f[3] + 4
    BY DEF Beside
  <1>1. PICK kind \in {Power, ApuSlow, Vrm, VrmSoc, VrmMax, VrmSocMax, Tctl, ApuSkin, DgpuSkin} :
          f[1] \in kind /\ g[1] \in kind
    BY KindsOfPairs DEF Pair, SameKind
  <1> DEFINE Home(fields, names) == \A h \in PlainFields : h[1] \in names => h \in fields
  <1>2. ASSUME NEW h \in PlainFields, h[1] \in Limits
        PROVE  h \in StableFields(Versions) \cup ApuSlowFields \cup VrmFields \cup VrmSocFields
                     \cup VrmMaxFields \cup VrmSocMaxFields \cup TctlFields \cup ApuSkinFields
                     \cup DgpuSkinFields
    BY <1>2, OtherNames DEF PlainFields
  <1> USE DEF Limits, Power, ApuSlow, Vrm, VrmSoc, VrmMax, VrmSocMax, Tctl, ApuSkin, DgpuSkin
  <1>3. Home(StableFields(Versions), Power) /\ Home(ApuSlowFields, ApuSlow)
    BY <1>2, LimitNames
  <1>4. Home(VrmFields, Vrm) /\ Home(VrmSocFields, VrmSoc)
    BY <1>2, LimitNames
  <1>5. Home(VrmMaxFields, VrmMax) /\ Home(VrmSocMaxFields, VrmSocMax)
    BY <1>2, LimitNames
  <1>6. Home(TctlFields, Tctl) /\ Home(ApuSkinFields, ApuSkin) /\ Home(DgpuSkinFields, DgpuSkin)
    BY <1>2, LimitNames
  <1> QED BY <1>1, <1>3, <1>4, <1>5, <1>6, StableBeside, VrmBeside, TemperatureBeside DEF Beside

\* Every entry of the layout that is a limit or a value comes from one field.
LEMMA LimitEntries ==
    ASSUME NEW ver \in Versions, NEW r \in Layout[ver], r[1] \in Limits
    PROVE  \E f \in PlainFields : r[1] = f[1] /\ r[3] = f[3] /\ ver \in f[2]
  <1>1. CASE r \in {<<f[1], 0, f[3]>> : f \in {g \in PlainFields : ver \in g[2]}}
    BY <1>1
  <1>2. CASE r \in {<<fc[1][1], fc[2], fc[1][3] + 4 * fc[2]>> :
                        fc \in {g \in CoreFields : ver \in g[2]} \X Cores(ver)}
    <2>1. PICK f \in CoreFields : r[1] = f[1]
      BY <1>2
    <2> QED BY <2>1, OtherNames
  <1> QED BY <1>1, <1>2 DEF Layout

\* On every version, and whatever size the table has, the pairs that info prints as limit
\* and value come from neighbouring words (main.c:136-179, api.c:1554-2910).
THEOREM PairsCorrect == ASSUME WordSize = 4 PROVE Spec => []LimitBesideValue
  <1>1. TypeOK => LimitBesideValue
    <2> SUFFICES ASSUME TypeOK, NEW r \in Readings, NEW s \in Readings,
                        <<r[1], s[1]>> \in LimitValues, r[3] # NaN, s[3] # NaN
                 PROVE  s[3] = r[3] + 1
      BY DEF LimitBesideValue
    <2>1. table_ver \in Versions
      BY DEF TypeOK, SizeTypes
    <2>2. PICK limit \in Layout[table_ver] : r = <<limit[1], limit[2], Word(limit[3])>>
      BY DEF Readings
    <2>3. PICK value \in Layout[table_ver] : s = <<value[1], value[2], Word(value[3])>>
      BY DEF Readings
    <2>4. limit[1] \in Limits /\ value[1] \in Limits
      <3>1. \A pair \in LimitValues : pair[1] \in Limits /\ pair[2] \in Limits
        BY KindsOfPairs DEF SameKind, Limits
      <3> QED BY <2>2, <2>3, <3>1
    <2>5. PICK f \in PlainFields : limit[1] = f[1] /\ limit[3] = f[3] /\ table_ver \in f[2]
      BY <2>1, <2>4, LimitEntries
    <2>6. PICK g \in PlainFields : value[1] = g[1] /\ value[3] = g[3] /\ table_ver \in g[2]
      BY <2>1, <2>4, LimitEntries
    <2>7. value[3] = limit[3] + 4
      BY <2>2, <2>3, <2>5, <2>6, PairsBeside DEF Beside, Pair
    <2>8. limit[3] \in Nat /\ value[3] \in Nat
      BY <2>1, LayoutBytes
    <2>9. r[3] = limit[3] \div 4 /\ s[3] = value[3] \div 4
      BY <2>2, <2>3, <2>8 DEF Word
    <2> QED BY <2>7, <2>8, <2>9
  <1> QED BY <1>1, InvAlways, PTL

-----------------------------------------------------------------------------
\* Words and their quantities.

\* No field of the one set shares a word with one of the other on a version that has
\* both, unless it is known to.
Apart(fields, others) ==
    \A f \in fields, g \in others : \A ver :
        ver \in f[2] /\ ver \in g[2] /\ f[3] \div 4 = g[3] \div 4 =>
            f[1] = g[1] \/ SharedWord(f[1], g[1], ver)

LEMMA ApartBothWays == ASSUME NEW F, NEW G, Apart(F, G) PROVE Apart(G, F)
  <1>1. \A g, h, ver : SharedWord(g, h, ver) => SharedWord(h, g, ver)
    <2>1. \A g, h : {g, h} = {h, g}
      OBVIOUS
    <2> QED BY <2>1 DEF SharedWord
  <1> QED BY <1>1 DEF Apart

LEMMA ApartUnion ==
    ASSUME NEW F, NEW G, NEW H, Apart(F, G), Apart(F, H)
    PROVE  Apart(F, G \cup H)
  BY DEF Apart

\* Fields on the two sides of a word.
LEMMA ApartAt ==
    ASSUME NEW F, NEW G, NEW word \in Nat,
           \A f \in F : f[3] \in Nat /\ f[3] < 4 * word,
           \A g \in G : g[3] \in Nat /\ g[3] >= 4 * word
    PROVE  Apart(F, G)
  <1>1. ASSUME NEW m \in Nat, NEW n \in Nat, m < 4 * word, n >= 4 * word
        PROVE  m \div 4 # n \div 4
    BY <1>1
  <1> QED BY <1>1 DEF Apart

Currents == VrmFields \cup VrmSocFields \cup VrmMaxFields \cup VrmSocMaxFields
Temperatures == TctlFields \cup ApuSkinFields \cup DgpuSkinFields \cup PsiFields
Loads == CclkFields \cup SocFields
Back == TimeFields \cup L3Fields \cup GfxFields \cup ClockFields

LEMMA FrontBytes ==
    /\ \A f \in StableFields(Versions) : f[3] \in Nat /\ f[3] < \h18
    /\ \A f \in ApuSlowFields : f[3] \in \h18 .. \h1C
    /\ \A f \in VrmFields : f[3] \in \h18 .. \h34
    /\ \A f \in Currents : f[3] \in \h18 .. \h3C
    /\ \A f \in Currents \ VrmFields : f[3] >= \h20
    /\ \A f \in Temperatures : f[3] \in \h40 .. \h80
    /\ \A f \in Loads : f[3] \in \h98 .. \h1A8
  <1>1. /\ \A f \in StableFields(Versions) : f[3] \in Nat /\ f[3] < \h18
        /\ \A f \in ApuSlowFields : f[3] \in \h18 .. \h1C
    BY DEF StableFields, ApuSlowFields
  <1>2. /\ \A f \in VrmFields : f[3] \in \h18 .. \h34
        /\ \A f \in Currents : f[3] \in \h18 .. \h3C
        /\ \A f \in Currents \ VrmFields : f[3] >= \h20
    BY DEF Currents, VrmFields, VrmSocFields, VrmMaxFields, VrmSocMaxFields
  <1>3. \A f \in Temperatures : f[3] \in \h40 .. \h80
    BY DEF Temperatures, TctlFields, ApuSkinFields, DgpuSkinFields, PsiFields
  <1>4. \A f \in Loads : f[3] \in \h98 .. \h1A8
    BY DEF Loads, CclkFields, SocFields
  <1> QED BY <1>1, <1>2, <1>3, <1>4

\* Getters of one kind, and of kinds whose words are mixed.
LEMMA PowerApart ==
    /\ Apart(StableFields(Versions), StableFields(Versions))
    /\ Apart(ApuSlowFields, ApuSlowFields) /\ Apart(ApuSlowFields, Currents)
  <1>1. Apart(StableFields(Versions), StableFields(Versions))
    BY DEF StableFields, Apart
  <1>2. Apart(ApuSlowFields, ApuSlowFields)
    BY DEF ApuSlowFields, Apart
  <1>3. Apart(ApuSlowFields, VrmFields)
    BY Generations DEF ApuSlowFields, VrmFields, Apart, V1E, V3F, V45, V5D, V64, V65, VrmVersions
  <1>4. Apart(ApuSlowFields, Currents \ VrmFields)
    <2>1. \A f \in ApuSlowFields : f[3] \in Nat /\ f[3] < 4 * 8
      BY FrontBytes
    <2>2. \A f \in Currents \ VrmFields : f[3] \in Nat /\ f[3] >= 4 * 8
      BY FrontBytes
    <2> QED BY <2>1, <2>2, ApartAt
  <1>5. Apart(ApuSlowFields, Currents)
    BY <1>3, <1>4 DEF Apart
  <1> QED BY <1>1, <1>2, <1>5

LEMMA CurrentsApart == Apart(Currents, Currents)
  <1>1. /\ Apart(VrmFields, VrmFields) /\ Apart(VrmFields, VrmSocFields)
        /\ Apart(VrmFields, VrmMaxFields) /\ Apart(VrmFields, VrmSocMaxFields)
        /\ Apart(VrmSocFields, VrmSocFields) /\ Apart(VrmSocFields, VrmMaxFields)
        /\ Apart(VrmSocFields, VrmSocMaxFields) /\ Apart(VrmMaxFields, VrmMaxFields)
        /\ Apart(VrmMaxFields, VrmSocMaxFields) /\ Apart(VrmSocMaxFields, VrmSocMaxFields)
    <2> USE Generations DEF Apart, SharedWord, V1E, V45, V5D, V65, VrmVersions
    <2>1. Apart(VrmFields, VrmFields) /\ Apart(VrmFields, VrmSocFields)
      BY DEF VrmFields, VrmSocFields
    <2>2. Apart(VrmFields, VrmMaxFields) /\ Apart(VrmFields, VrmSocMaxFields)
      BY DEF VrmFields, VrmMaxFields, VrmSocMaxFields
    <2>3. Apart(VrmSocFields, VrmSocFields)
      BY DEF VrmSocFields
    <2>4. Apart(VrmSocFields, VrmMaxFields)
      BY DEF VrmSocFields, VrmMaxFields
    <2>5. Apart(VrmSocFields, VrmSocMaxFields)
      BY DEF VrmSocFields, VrmSocMaxFields
    <2>6. Apart(VrmMaxFields, VrmMaxFields)
      BY DEF VrmMaxFields
    <2>7. Apart(VrmMaxFields, VrmSocMaxFields) /\ Apart(VrmSocMaxFields, VrmSocMaxFields)
      BY DEF VrmMaxFields, VrmSocMaxFields
    <2> HIDE DEF Apart
    <2> QED BY <2>1, <2>2, <2>3, <2>4, <2>5, <2>6, <2>7
  <1>2. /\ Apart(VrmSocFields, VrmFields) /\ Apart(VrmMaxFields, VrmFields)
        /\ Apart(VrmSocMaxFields, VrmFields) /\ Apart(VrmMaxFields, VrmSocFields)
        /\ Apart(VrmSocMaxFields, VrmSocFields) /\ Apart(VrmSocMaxFields, VrmMaxFields)
    BY <1>1, ApartBothWays
  <1> QED BY <1>1, <1>2 DEF Currents, Apart

LEMMA TemperaturesApart == Apart(Temperatures, Temperatures)
  <1>1. /\ Apart(TctlFields, TctlFields) /\ Apart(TctlFields, ApuSkinFields)
        /\ Apart(TctlFields, DgpuSkinFields) /\ Apart(TctlFields, PsiFields)
        /\ Apart(ApuSkinFields, ApuSkinFields) /\ Apart(ApuSkinFields, DgpuSkinFields)
        /\ Apart(ApuSkinFields, PsiFields) /\ Apart(DgpuSkinFields, DgpuSkinFields)
        /\ Apart(DgpuSkinFields, PsiFields) /\ Apart(PsiFields, PsiFields)
    <2> USE Generations DEF Apart, SharedWord, V1E, V3F, V45, V5D, V64, V65, TctlVersions
    <2>1. Apart(TctlFields, TctlFields)
      BY DEF TctlFields
    <2>2. Apart(TctlFields, ApuSkinFields)
      BY DEF TctlFields, ApuSkinFields
    <2>3. Apart(TctlFields, DgpuSkinFields)
      BY DEF TctlFields, DgpuSkinFields
    <2>4. Apart(TctlFields, PsiFields)
      BY DEF TctlFields, PsiFields
    <2>5. Apart(ApuSkinFields, ApuSkinFields) /\ Apart(ApuSkinFields, DgpuSkinFields)
      BY DEF ApuSkinFields, DgpuSkinFields
    <2>6. Apart(ApuSkinFields, PsiFields)
      BY DEF ApuSkinFields, PsiFields
    <2>7. Apart(DgpuSkinFields, DgpuSkinFields) /\ Apart(DgpuSkinFields, PsiFields)
      BY DEF DgpuSkinFields, PsiFields
    <2>8. Apart(PsiFields, PsiFields)
      BY DEF PsiFields
    <2> HIDE DEF Apart
    <2> QED BY <2>1, <2>2, <2>3, <2>4, <2>5, <2>6, <2>7, <2>8
  <1>2. /\ Apart(ApuSkinFields, TctlFields) /\ Apart(DgpuSkinFields, TctlFields)
        /\ Apart(PsiFields, TctlFields) /\ Apart(DgpuSkinFields, ApuSkinFields)
        /\ Apart(PsiFields, ApuSkinFields) /\ Apart(PsiFields, DgpuSkinFields)
    BY <1>1, ApartBothWays
  <1> QED BY <1>1, <1>2 DEF Temperatures, Apart

LEMMA LoadsApart == Apart(Loads, Loads)
  <1>1. /\ Apart(CclkFields, CclkFields) /\ Apart(CclkFields, SocFields)
        /\ Apart(SocFields, SocFields)
    <2> USE Generations DEF Apart, SharedWord, V1E, V3F, V5D, V40Late
    <2>1. Apart(CclkFields, CclkFields)
      BY DEF CclkFields
    <2>2. Apart(CclkFields, SocFields)
      BY DEF CclkFields, SocFields
    <2>3. Apart(SocFields, SocFields)
      BY DEF SocFields
    <2> HIDE DEF Apart
    <2> QED BY <2>1, <2>2, <2>3
  <1>2. Apart(SocFields, CclkFields)
    BY <1>1, ApartBothWays
  <1> QED BY <1>1, <1>2 DEF Loads, Apart

LEMMA BackApart == Apart(Back, Back)
  <1>1. /\ Apart(TimeFields, TimeFields) /\ Apart(TimeFields, L3Fields)
        /\ Apart(TimeFields, GfxFields) /\ Apart(TimeFields, ClockFields)
        /\ Apart(L3Fields, L3Fields) /\ Apart(L3Fields, GfxFields)
        /\ Apart(L3Fields, ClockFields) /\ Apart(GfxFields, GfxFields)
        /\ Apart(GfxFields, ClockFields) /\ Apart(ClockFields, ClockFields)
    <2> USE Generations DEF Apart, SharedWord, V1ELate, V37Last, V3F, V40Late, V5D, V64, V65
    <2>1. Apart(TimeFields, TimeFields)
      BY DEF TimeFields
    <2>2. Apart(TimeFields, L3Fields)
      BY DEF TimeFields, L3Fields
    <2>3. Apart(TimeFields, GfxFields)
      BY DEF TimeFields, GfxFields
    <2>4. Apart(TimeFields, ClockFields)
      BY DEF TimeFields, ClockFields
    <2>5. Apart(L3Fields, L3Fields)
      BY DEF L3Fields
    <2>6. Apart(L3Fields, GfxFields)
      BY DEF L3Fields, GfxFields
    <2>7. Apart(L3Fields, ClockFields)
      BY DEF L3Fields, ClockFields
    <2>8. Apart(GfxFields, GfxFields)
      BY DEF GfxFields
    <2>9. Apart(GfxFields, ClockFields)
      BY DEF GfxFields, ClockFields
    <2>10. Apart(ClockFields, ClockFields)
      BY DEF ClockFields
    <2> HIDE DEF Apart
    <2> QED BY <2>1, <2>2, <2>3, <2>4, <2>5, <2>6, <2>7, <2>8, <2>9, <2>10
  <1>2. /\ Apart(L3Fields, TimeFields) /\ Apart(GfxFields, TimeFields)
        /\ Apart(ClockFields, TimeFields) /\ Apart(GfxFields, L3Fields)
        /\ Apart(ClockFields, L3Fields) /\ Apart(ClockFields, GfxFields)
    BY <1>1, ApartBothWays
  <1> QED BY <1>1, <1>2 DEF Back, Apart

\* The kinds follow one another, so that only neighbours can share a word.
LEMMA PlainApart == Apart(PlainFields, PlainFields)
  <1> DEFINE Stable == StableFields(Versions)
             Later == Temperatures \cup Loads \cup Back
  <1>1. PlainFields = Stable \cup ApuSlowFields \cup Currents \cup Later
    BY DEF PlainFields, Currents, Temperatures, Loads, Back
  <1>2. \A f \in Back : f[3] \in Nat /\ f[3] >= \h348
    BY DEF Back, TimeFields, L3Fields, GfxFields, ClockFields
  <1>3. Apart(Stable, ApuSlowFields \cup Currents \cup Later)
    <2>1. \A f \in Stable : f[3] \in Nat /\ f[3] < 4 * 6
      BY FrontBytes
    <2>2. \A f \in ApuSlowFields \cup Currents \cup Later : f[3] \in Nat /\ f[3] >= 4 * 6
      BY FrontBytes, <1>2
    <2> QED BY <2>1, <2>2, ApartAt
  <1>4. Apart(ApuSlowFields \cup Currents, Later)
    <2>1. \A f \in ApuSlowFields \cup Currents : f[3] \in Nat /\ f[3] < 4 * 16
      BY FrontBytes
    <2>2. \A f \in Later : f[3] \in Nat /\ f[3] >= 4 * 16
      BY FrontBytes, <1>2
    <2> QED BY <2>1, <2>2, ApartAt
  <1>5. Apart(Temperatures, Loads \cup Back)
    <2>1. \A f \in Temperatures : f[3] \in Nat /\ f[3] < 4 * 38
      BY FrontBytes
    <2>2. \A f \in Loads \cup Back : f[3] \in Nat /\ f[3] >= 4 * 38
      BY FrontBytes, <1>2
    <2> QED BY <2>1, <2>2, ApartAt
  <1>6. Apart(Loads, Back)
    <2>1. \A f \in Loads : f[3] \in Nat /\ f[3] < 4 * 128
      BY FrontBytes
    <2>2. \A f \in Back : f[3] \in Nat /\ f[3] >= 4 * 128
      BY <1>2
    <2> QED BY <2>1, <2>2, ApartAt
  <1>7. /\ Apart(ApuSlowFields \cup Currents \cup Later, Stable)
        /\ Apart(Currents, ApuSlowFields) /\ Apart(Later, ApuSlowFields \cup Currents)
        /\ Apart(Loads \cup Back, Temperatures) /\ Apart(Back, Loads)
    BY <1>3, <1>4, <1>5, <1>6, PowerApart, ApartBothWays
  <1> QED BY <1>1, <1>3, <1>4, <1>5, <1>6, <1>7, PowerApart, CurrentsApart, TemperaturesApart,
             LoadsApart, BackApart DEF Apart

-----------------------------------------------------------------------------
\* The words of the cores.

\* Core c of a getter reads the word c behind that of core 0; no plain field and no core
\* of another getter has one of these words.
CoreSpan(f, ver) == f[3] + 4 * CoresInTable(ver)

Spaced(fields, others) ==
    \A f \in fields, g \in others : \A ver :
        ver \in f[2] /\ ver \in g[2] =>
            \/ f[1] = g[1] /\ f[3] = g[3]
            \/ CoreSpan(f, ver) <= g[3] \/ CoreSpan(g, ver) <= f[3]

LEMMA CoresSpaced == Spaced(CoreFields, CoreFields)
  <1>1. /\ Spaced(CorePowerFields, CorePowerFields) /\ Spaced(CorePowerFields, CoreVoltFields)
        /\ Spaced(CorePowerFields, CoreTempFields) /\ Spaced(CorePowerFields, CoreClkFields)
        /\ Spaced(CoreVoltFields, CoreVoltFields) /\ Spaced(CoreVoltFields, CoreTempFields)
        /\ Spaced(CoreVoltFields, CoreClkFields) /\ Spaced(CoreTempFields, CoreTempFields)
        /\ Spaced(CoreTempFields, CoreClkFields) /\ Spaced(CoreClkFields, CoreClkFields)
    <2> USE Generations DEF V37Last, V3F, V40Late, V5D, V64, CoresInTable, Spaced, CoreSpan
    <2>1. Spaced(CorePowerFields, CorePowerFields)
      BY DEF CorePowerFields
    <2>2. Spaced(CorePowerFields, CoreVoltFields)
      BY DEF CorePowerFields, CoreVoltFields
    <2>3. Spaced(CorePowerFields, CoreTempFields)
      BY DEF CorePowerFields, CoreTempFields
    <2>4. Spaced(CorePowerFields, CoreClkFields)
      BY DEF CorePowerFields, CoreClkFields
    <2>5. Spaced(CoreVoltFields, CoreVoltFields)
      BY DEF CoreVoltFields
    <2>6. Spaced(CoreVoltFields, CoreTempFields)
      BY DEF CoreVoltFields, CoreTempFields
    <2>7. Spaced(CoreVoltFields, CoreClkFields)
      BY DEF CoreVoltFields, CoreClkFields
    <2>8. Spaced(CoreTempFields, CoreTempFields)
      BY DEF CoreTempFields
    <2>9. Spaced(CoreTempFields, CoreClkFields)
      BY DEF CoreTempFields, CoreClkFields
    <2>10. Spaced(CoreClkFields, CoreClkFields)
      BY DEF CoreClkFields
    <2> HIDE DEF Spaced
    <2> QED BY <2>1, <2>2, <2>3, <2>4, <2>5, <2>6, <2>7, <2>8, <2>9, <2>10
  <1>2. /\ Spaced(CoreVoltFields, CorePowerFields) /\ Spaced(CoreTempFields, CorePowerFields)
        /\ Spaced(CoreClkFields, CorePowerFields) /\ Spaced(CoreTempFields, CoreVoltFields)
        /\ Spaced(CoreClkFields, CoreVoltFields) /\ Spaced(CoreClkFields, CoreTempFields)
    BY <1>1 DEF Spaced
  <1> QED BY <1>1, <1>2 DEF Spaced, CoreFields

\* And no plain field is among the words of the cores.
Outside(fields) ==
    \A f \in fields, g \in CoreFields : \A ver :
        ver \in f[2] /\ ver \in g[2] => f[3] + 4 <= g[3] \/ CoreSpan(g, ver) <= f[3]

LEMMA PlainOutside == Outside(PlainFields)
  <1>1. \A g \in CoreFields : g[3] \in Nat /\ g[3] >= \h238
    BY DEF CoreFields, CorePowerFields, CoreVoltFields, CoreTempFields, CoreClkFields
  <1>2. Outside(StableFields(Versions) \cup ApuSlowFields \cup Currents \cup Temperatures
                \cup Loads)
    BY <1>1, FrontBytes DEF Outside
  <1> USE Generations DEF V1ELate, V37Last, V3F, V40Late, V5D, V64, V65, CoresInTable, CoreSpan,
          Outside, CoreFields, CorePowerFields, CoreVoltFields, CoreTempFields, CoreClkFields
  <1>3. Outside(TimeFields)
    BY DEF TimeFields
  <1>4. Outside(L3Fields)
    BY DEF L3Fields
  <1>5. Outside(GfxFields)
    BY DEF GfxFields
  <1>6. Outside(ClockFields)
    BY DEF ClockFields
  <1> HIDE DEF CoreFields
  <1> QED BY <1>2, <1>3, <1>4, <1>5, <1>6 DEF PlainFields, Currents, Temperatures, Loads

PlainEntry(r, f, ver) ==
    f \in PlainFields /\ ver \in f[2] /\ r[1] = f[1] /\ r[2] = 0 /\ r[3] = f[3]
CoreEntry(r, f, ver) ==
    f \in CoreFields /\ ver \in f[2] /\ r[1] = f[1] /\ r[2] \in Nat /\ r[3] = f[3] + 4 * r[2]

LEMMA EntriesOfLayout ==
    ASSUME NEW ver \in Versions, NEW r \in Layout[ver]
    PROVE  \E f : PlainEntry(r, f, ver) \/ CoreEntry(r, f, ver)
  <1>1. CASE r \in {<<f[1], 0, f[3]>> : f \in {g \in PlainFields : ver \in g[2]}}
    BY <1>1 DEF PlainEntry
  <1>2. CASE r \in {<<fc[1][1], fc[2], fc[1][3] + 4 * fc[2]>> :
                        fc \in {g \in CoreFields : ver \in g[2]} \X Cores(ver)}
    <2>1. PICK f \in CoreFields, core \in Cores(ver) :
            ver \in f[2] /\ r = <<f[1], core, f[3] + 4 * core>>
      BY <1>2
    <2>2. core \in Nat
      BY <2>1 DEF Cores
    <2> QED BY <2>1, <2>2 DEF CoreEntry
  <1> QED BY <1>1, <1>2 DEF Layout

\* Two entries with one word are one, or are known to share it.
LEMMA WordsOfEntries ==
    ASSUME NEW ver \in Versions, NEW r \in Layout[ver], NEW s \in Layout[ver],
           r[2] < CoresInTable(ver), s[2] < CoresInTable(ver),
           r[3] \div 4 = s[3] \div 4
    PROVE  (r[1] = s[1] /\ r[2] = s[2]) \/ SharedWord(r[1], s[1], ver)
  <1>1. PICK f : PlainEntry(r, f, ver) \/ CoreEntry(r, f, ver)
    BY EntriesOfLayout
  <1>2. PICK g : PlainEntry(s, g, ver) \/ CoreEntry(s, g, ver)
    BY EntriesOfLayout
  <1>3. CoresInTable(ver) \in Nat /\ r[3] \in Nat /\ s[3] \in Nat
    BY LayoutBytes DEF CoresInTable
  <1>4. \A m, n \in Nat : m + 4 <= n => m \div 4 # n \div 4
    OBVIOUS
  <1>5. CASE PlainEntry(r, f, ver) /\ PlainEntry(s, g, ver)
    BY <1>5, PlainApart DEF PlainEntry, Apart
  <1>6. CASE PlainEntry(r, f, ver) /\ CoreEntry(s, g, ver)
    <2>1. r[3] + 4 <= g[3] \/ CoreSpan(g, ver) <= r[3]
      BY <1>6, PlainOutside DEF PlainEntry, CoreEntry, Outside
    <2>2. g[3] \in Nat /\ s[2] \in Nat /\ s[3] = g[3] + 4 * s[2]
      BY <1>6, CoreBytes DEF CoreEntry
    <2>3. r[3] + 4 <= s[3] \/ s[3] + 4 <= r[3]
      BY <1>3, <2>1, <2>2 DEF CoreSpan
    <2> QED BY <1>3, <1>4, <2>3
  <1>7. CASE CoreEntry(r, f, ver) /\ PlainEntry(s, g, ver)
    <2>1. s[3] + 4 <= f[3] \/ CoreSpan(f, ver) <= s[3]
      BY <1>7, PlainOutside DEF PlainEntry, CoreEntry, Outside
    <2>2. f[3] \in Nat /\ r[2] \in Nat /\ r[3] = f[3] + 4 * r[2]
      BY <1>7, CoreBytes DEF CoreEntry
    <2>3. s[3] + 4 <= r[3] \/ r[3] + 4 <= s[3]
      BY <1>3, <2>1, <2>2 DEF CoreSpan
    <2> QED BY <1>3, <1>4, <2>3
  <1>8. CASE CoreEntry(r, f, ver) /\ CoreEntry(s, g, ver)
    <2>1. f[3] \in Nat /\ r[2] \in Nat /\ r[3] = f[3] + 4 * r[2]
      BY <1>8, CoreBytes DEF CoreEntry
    <2>2. g[3] \in Nat /\ s[2] \in Nat /\ s[3] = g[3] + 4 * s[2]
      BY <1>8, CoreBytes DEF CoreEntry
    <2>3. CASE f[1] = g[1] /\ f[3] = g[3]
      <3>1. r[2] = s[2]
        BY <2>1, <2>2, <2>3
      <3> QED BY <1>8, <2>3, <3>1 DEF CoreEntry
    <2>4. CASE CoreSpan(f, ver) <= g[3] \/ CoreSpan(g, ver) <= f[3]
      <3>1. r[3] + 4 <= s[3] \/ s[3] + 4 <= r[3]
        BY <1>3, <2>1, <2>2, <2>4 DEF CoreSpan
      <3> QED BY <1>3, <1>4, <3>1
    <2> QED BY <1>8, <2>3, <2>4, CoresSpaced DEF CoreEntry, Spaced
  <1> QED BY <1>1, <1>2, <1>5, <1>6, <1>7, <1>8

\* No two getters read the same word of a table, on any version and whatever the table's
\* size is, but those that are known to share one (api.c:1554-2910).
THEOREM WordsCorrect == ASSUME WordSize = 4 PROVE Spec => []OneWordOneQuantity
  <1>1. TypeOK => OneWordOneQuantity
    <2> SUFFICES ASSUME TypeOK, NEW r \in Readings, NEW s \in Readings,
                        r[3] # NaN, r[2] < CoresInTable(table_ver),
                        s[3] # NaN, s[2] < CoresInTable(table_ver), r[3] = s[3]
                 PROVE  (r[1] = s[1] /\ r[2] = s[2]) \/ SharedWord(r[1], s[1], table_ver)
      BY DEF OneWordOneQuantity
    <2>1. table_ver \in Versions
      BY DEF TypeOK, SizeTypes
    <2>2. PICK p \in Layout[table_ver] : r = <<p[1], p[2], Word(p[3])>>
      BY DEF Readings
    <2>3. PICK q \in Layout[table_ver] : s = <<q[1], q[2], Word(q[3])>>
      BY DEF Readings
    <2>4. p[3] \div 4 = q[3] \div 4
      BY <2>2, <2>3 DEF Word
    <2> QED BY <2>1, <2>2, <2>3, <2>4, WordsOfEntries
  <1> QED BY <1>1, InvAlways, PTL

=============================================================================

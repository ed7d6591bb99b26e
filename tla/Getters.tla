------------------------------ MODULE Getters ------------------------------
(***************************************************************************)
(* The getters of lib/api.c over the table of PmTable: which words of the  *)
(* buffer a caller reads, with the versions, sizes and offsets of          *)
(* TableLayout.  A getter may be called between any two calls that change  *)
(* the table, after failed ones as well; it looks only at the buffer, the  *)
(* size and the version, so it needs no state of its own.                  *)
(***************************************************************************)
EXTENDS PmTable, TableLayout

NaN == -1

\* Mutant: the access of before, bounded by nothing.
Word_Unbounded(byte) == IF alloc = 0 THEN NaN ELSE byte \div WordSize

\* _read_float_value: the index in table_values, or not a number.
Word(byte) ==
    IF alloc = 0 \/ byte + WordSize > table_size THEN NaN ELSE byte \div WordSize

PlainFields ==
    StableFields(Versions) \cup ApuSlowFields
    \cup VrmFields \cup VrmSocFields \cup VrmMaxFields \cup VrmSocMaxFields
    \cup TctlFields \cup ApuSkinFields \cup DgpuSkinFields \cup PsiFields \cup CclkFields
    \cup TimeFields \cup L3Fields \cup GfxFields \cup ClockFields \cup SocFields

CoreFields == CorePowerFields \cup CoreVoltFields \cup CoreTempFields \cup CoreClkFields

\* Per version, <<getter, core, byte>> for every call that its switch offers.
Layout ==
    [ver \in Versions |->
        {<<f[1], 0, f[3]>> : f \in {g \in PlainFields : ver \in g[2]}}
        \cup {<<fc[1][1], fc[2], fc[1][3] + 4 * fc[2]>> :
                fc \in {g \in CoreFields : ver \in g[2]} \X Cores(ver)}]

\* What the getters return now, as <<getter, core, word>>.
Readings == {<<r[1], r[2], Word(r[3])>> : r \in Layout[table_ver]}

-----------------------------------------------------------------------------
\* After a successful init_table() every getter reads inside the buffer, although
\* its offset comes from the version and the buffer's size perhaps from the driver
\* (api.c:499-516).
GettersInBuffer ==
    (pc = "idle" /\ inited) =>
        \A r \in Readings : r[3] = NaN \/ (r[3] + 1) * WordSize <= alloc

\* Unless the driver's table is smaller than the version implies, every getter that
\* knows the version has a value: no offset of any version lies beyond its size
\* (api.c:151-187 against the offsets of api.c:1554-2910).
GettersAnswer ==
    (pc = "idle" /\ inited /\ table_size >= Size(table_ver)) =>
        \A r \in Readings : r[3] # NaN

\* Getters that share a word, and the versions on which they do: on Strix Point vrmmax
\* is vrm by its comment (api.c:1809, 1887), and 0xD0 is the boost target of one comment
\* (api.c:2240) and the package power of another (api.c:2899); get_fclk on Van Gogh
\* reads the word of get_mem_clk; Strix Halo has one word for two temperatures.
SharedWord(g, h, ver) ==
    \/ ver \in V5D /\ {g, h} \in {{"vrm_current", "vrmmax_current"},
                                  {"vrm_current_value", "vrmmax_current_value"},
                                  {"vrmsoc_current", "vrmsocmax_current"},
                                  {"vrmsoc_current_value", "vrmsocmax_current_value"},
                                  {"cclk_setpoint", "socket_power"}}
    \/ ver \in V3F /\ {g, h} = {"fclk", "mem_clk"}
    \/ ver \in V64 /\ {g, h} \in {{"tctl_temp", "apu_skin_temp_limit"},
                                  {"tctl_temp_value", "apu_skin_temp_value"}}

\* The cores that the tables have an entry for: beyond them a core's getter reads the
\* array of another quantity, because its only bound is 15.
CoresInTable(ver) ==
    IF ver \in V3F THEN 4 ELSE IF ver \in V5D THEN 12 ELSE IF ver \in V64 THEN 16 ELSE 8

\* Two getters never read the same word of a table, so that no offset among the three
\* hundred is that of another quantity (api.c:1554-2910).
OneWordOneQuantity ==
    (pc = "idle" /\ inited) =>
        LET read == {r \in Readings : r[3] # NaN /\ r[2] < CoresInTable(table_ver)}
        IN  \A r, s \in read :
                r[3] = s[3] =>
                    \/ r[1] = s[1] /\ r[2] = s[2]
                    \/ SharedWord(r[1], s[1], table_ver)

\* A limit and the value it limits.
LimitValues ==
    { <<"stapm_limit", "stapm_value">>, <<"fast_limit", "fast_value">>,
      <<"slow_limit", "slow_value">>, <<"apu_slow_limit", "apu_slow_value">>,
      <<"vrm_current", "vrm_current_value">>, <<"vrmsoc_current", "vrmsoc_current_value">>,
      <<"vrmmax_current", "vrmmax_current_value">>,
      <<"vrmsocmax_current", "vrmsocmax_current_value">>,
      <<"tctl_temp", "tctl_temp_value">>,
      <<"apu_skin_temp_limit", "apu_skin_temp_value">>,
      <<"dgpu_skin_temp_limit", "dgpu_skin_temp_value">> }

\* On every version a value is read from the word behind its limit: the pairs that
\* info prints as limit and value belong together (main.c:136-179).
LimitBesideValue ==
    (pc = "idle" /\ inited) =>
        \A r, s \in Readings :
            (<<r[1], s[1]>> \in LimitValues /\ r[3] # NaN /\ s[3] # NaN) => s[3] = r[3] + 1

-----------------------------------------------------------------------------
\* "When the two disagree the old macro happily read past the end of the heap buffer.
\* Bound every access instead." (api.c:502-503): at no time does a getter read, or a
\* refresh write, beyond the end of the buffer.
AccessesBounded ==
    /\ pc = "idle" => \A r \in Readings : r[3] = NaN \/ (r[3] + 1) * WordSize <= alloc
    /\ CopyInBounds

=============================================================================

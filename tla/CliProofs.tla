------------------------------ MODULE CliProofs ------------------------------
(***************************************************************************)
(* Proofs about Cli, for every machine, every command line and whatever    *)
(* the SMU answers.                                                        *)
(***************************************************************************)
EXTENDS Cli, ArgParseProofs

Upto(k) == {Order[j] : j \in 1 .. k}

LEMMA OrderLength == Len(Order) \in Nat /\ DOMAIN Order = 1 .. Len(Order)
  BY DEF Order

\* The flags that main() keeps for itself are no settings.
LEMMA FlagsApart == "info" \notin Options /\ "dump_table" \notin Options
  BY OrderAssumption DEF Order

LEMMA UptoAll == Upto(Len(Order)) = Options /\ Upto(0) = {}
  BY OrderLength, OrderAssumption DEF Upto

\* One more option, which was not among those before it.
LEMMA UptoNext ==
    ASSUME NEW k \in 1 .. Len(Order)
    PROVE  Upto(k) = Upto(k - 1) \cup {Order[k]} /\ Order[k] \notin Upto(k - 1)
  BY OrderLength, OrderAssumption DEF Upto

\* The options between two places.
LEMMA UptoGrows ==
    ASSUME NEW a \in Nat, NEW b \in Nat, 1 <= a, a <= b
    PROVE  /\ Upto(a - 1) \subseteq Upto(b - 1)
           /\ \A o \in Upto(b - 1) :
                o \in Upto(a - 1) \/ \E j \in a .. b - 1 : o = Order[j]
  <1>1. \A j \in 1 .. a - 1 : j \in 1 .. b - 1
    OBVIOUS
  <1>2. \A j \in 1 .. b - 1 : j \in 1 .. a - 1 \/ j \in a .. b - 1
    OBVIOUS
  <1> QED BY <1>1, <1>2 DEF Upto

-----------------------------------------------------------------------------
\* The options are stored where main() has variables for them.
Stored == arg = [o \in Options \cup Flags |-> arg[o]]

\* Before the adjustments nothing has been done, and nothing has failed.
Untouched ==
    pc \in {"parse", "flags", "open", "table"} =>
        /\ err = 0 /\ step = 1 /\ attempted = {} /\ accepted = {}
        /\ pc # "table" => ~handle

\* Between two settings: all options up to here were attempted, and err says whether
\* one of them failed.
Between ==
    pc = "adjust" =>
        /\ step \in 1 .. Len(Order) + 1
        /\ attempted = given \cap Upto(step - 1)
        /\ accepted \subseteq attempted
        /\ err = 0 <=> accepted = attempted

\* In a setter: the SMU has accepted its option exactly if its messages are over
\* without an error.
InSetter ==
    pc = "setter" =>
        /\ step \in 1 .. Len(Order) /\ Option \in given
        /\ attempted = given \cap Upto(step)
        /\ accepted \subseteq attempted
        /\ err = 0 <=> attempted \ accepted \subseteq {Option}
        /\ IF tries = <<>> THEN adjerr = "none" <=> Option \in accepted
                           ELSE Option \notin accepted

\* After the settings the account is settled; tables are shown only if all went well.
Settled ==
    /\ pc \in {"dump", "info"} => err = 0 /\ attempted = given /\ accepted = given
    /\ pc = "cleanup" => attempted = given /\ (err = 0 <=> accepted = given)
    /\ pc = "exit" => ~handle /\ (err = 0 /\ parsing = "read" => accepted = given)
    /\ (dumped # <<>> \/ shown # "none") =>
           pc \in {"info", "cleanup", "exit"} /\ accepted = given

\* The table for the dump was read before the first setting.
ReadBefore ==
    /\ pc \in {"adjust", "setter", "dump"} /\ dump_table => values = "before"
    /\ dumped # <<>> => dumped[1] = "before"

\* Once enabled, overclocking is on: nobody asks for both.
OcStays ==
    /\ pc \in {"open", "table", "adjust", "setter"} =>
           ~({"enable_oc", "disable_oc"} \subseteq given)
    /\ pc \in {"adjust", "setter"} /\ "enable_oc" \in accepted => oc

Inv == Stored /\ Untouched /\ Between /\ InSetter /\ Settled /\ ReadBefore /\ OcStays

\* Where options are told apart: a setting keeps the history of the run.
LEMMA SameGiven ==
    ASSUME UNCHANGED arg
    PROVE  given' = given /\ dump_table' = dump_table
  BY DEF given, IsSet, dump_table

\* Without a table the flags for showing it are cleared, and no option is.
LEMMA FlagsCleared ==
    ASSUME Stored, arg' = [arg EXCEPT !["info"] = 0, !["dump_table"] = 0]
    PROVE  given' = given /\ ~dump_table' /\ Stored'
  <1>1. \A o \in Options : arg'[o] = arg[o]
    BY FlagsApart DEF Stored
  <1>2. "dump_table" \in Options \cup Flags
    BY DEF Flags
  <1>3. arg'["dump_table"] = 0
    BY <1>2 DEF Stored
  <1>4. given' = given
    BY <1>1 DEF given, IsSet
  <1>5. ~dump_table'
    BY <1>3 DEF dump_table
  <1>6. Stored'
    BY DEF Stored
  <1> QED BY <1>4, <1>5, <1>6

LEMMA InvInit == Init => Inv
  <1> SUFFICES ASSUME Init PROVE Inv
    OBVIOUS
  <1>1. Stored
    BY DEF Init, ParserInit, Stored
  <1> QED BY <1>1 DEF Init, Inv, Untouched, Between, InSetter, Settled, ReadBefore, OcStays

\* The parser stores an option where it belongs.
LEMMA ParseStores == Stored /\ Parse => Stored'
  <1> SUFFICES ASSUME Stored, Parse PROVE Stored'
    OBVIOUS
  <1>1. UNCHANGED arg \/ \E o, v : arg' = [arg EXCEPT ![o] = v]
    BY DEF Parse, ReadLong, ReadShort, ReadCluster, RefuseWord, EndOfOptions, ReadLetter, GetValue,
           TakeValue, CountFlag, Store, Stop
  <1> QED BY <1>1 DEF Stored

LEMMA InvStep == Inv /\ [Next]_vars => Inv'
  <1> SUFFICES ASSUME Inv, [Next]_vars PROVE Inv'
    OBVIOUS
  <1> USE DEF Inv
  <1>1. CASE UNCHANGED vars
    <2>1. given' = given /\ dump_table' = dump_table
      BY <1>1, SameGiven DEF vars, parser
    <2> QED BY <1>1, <2>1 DEF vars, parser, setter, output, history, Stored, Untouched, Between,
               InSetter, Option, Settled, ReadBefore, OcStays
  <1>2. CASE ParseLine
    <2>1. Stored'
      BY <1>2, ParseStores DEF ParseLine
    <2>2. /\ pc = "parse" /\ pc' \in {"parse", "flags", "exit"}
          /\ pc' # "exit" => err' = err
          /\ pc' = "exit" => parsing' # "read"
          /\ UNCHANGED <<step, handle, dumped, shown, attempted, accepted>>
      BY <1>2 DEF ParseLine, output, history
    <2> QED BY <2>1, <2>2 DEF Untouched, Between, InSetter, Settled, ReadBefore, OcStays
  <1>3. CASE CheckFlags
    <2>1. given' = given /\ Stored'
      BY <1>3, SameGiven DEF CheckFlags, parser, Stored
    <2>2. /\ pc = "flags" /\ UNCHANGED <<step, handle, dumped, shown, attempted, accepted>>
          /\ \/ pc' = "exit" /\ err' = -1
             \/ pc' = "open" /\ err' = err /\ ~({"enable_oc", "disable_oc"} \subseteq given)
      BY <1>3 DEF CheckFlags, Conflicts, output, history
    <2> QED BY <2>1, <2>2 DEF Untouched, Between, InSetter, Settled, ReadBefore, OcStays
  <1>4. CASE OpenFails \/ Open
    <2>1. given' = given /\ Stored'
      BY <1>4, SameGiven DEF OpenFails, Open, parser, Stored
    <2>2. /\ pc = "open" /\ UNCHANGED <<step, dumped, shown, attempted, accepted>>
          /\ \/ pc' = "exit" /\ err' = -1 /\ handle' = handle
             \/ pc' = "table" /\ err' = err
      BY <1>4 DEF OpenFails, Open, output, history
    <2> QED BY <2>1, <2>2 DEF Untouched, Between, InSetter, Settled, ReadBefore, OcStays
  <1>5. CASE InitTable
    <2>1. /\ pc = "table" /\ pc' = "adjust"
          /\ UNCHANGED <<step, err, dumped, shown, attempted, accepted>>
      BY <1>5 DEF InitTable, output, history
    <2>2. Stored' /\ given' = given /\ (dump_table' => values' = "before")
      <3>1. CASE UNCHANGED arg /\ (dump_table => values' = "before")
        BY <3>1, SameGiven DEF Stored
      <3>2. CASE arg' = [arg EXCEPT !["info"] = 0, !["dump_table"] = 0]
        BY <3>2, FlagsCleared
      <3> QED BY <1>5, <3>1, <3>2 DEF InitTable
    <2>3. Between'
      <3>1. step' = 1 /\ attempted' = {} /\ accepted' = {} /\ err' = 0
        BY <2>1 DEF Untouched
      <3>2. 1 \in 1 .. Len(Order) + 1 /\ Upto(step' - 1) = {}
        BY <3>1, OrderLength DEF Upto
      <3> QED BY <3>1, <3>2 DEF Between, Upto
    <2> QED BY <2>1, <2>2, <2>3 DEF Untouched, InSetter, Settled, ReadBefore, OcStays
  <1>6. CASE StartSetter
    <2>1. given' = given /\ dump_table' = dump_table /\ Stored'
      BY <1>6, SameGiven DEF StartSetter, parser, Stored
    <2>2. /\ pc = "adjust" /\ pc' = "setter" /\ adjerr' = "FAM_UNSUPPORTED"
          /\ step' \in step .. Len(Order) /\ Order[step'] \in given
          /\ \A j \in step .. step' - 1 : Order[j] \notin given
          /\ attempted' = attempted \cup {Order[step']}
          /\ UNCHANGED <<err, values, dumped, shown, oc, accepted>>
      BY <1>6 DEF StartSetter, Option, NoneBefore, output
    <2>3. step \in 1 .. Len(Order) + 1 /\ step' \in 1 .. Len(Order)
      BY <2>2, OrderLength DEF Between
    <2>4. /\ Upto(step') = Upto(step' - 1) \cup {Order[step']}
          /\ Order[step'] \notin Upto(step' - 1)
      BY <2>3, UptoNext
    <2>5. step \in Nat /\ step' \in Nat /\ 1 <= step /\ step <= step'
      BY <2>2, <2>3, OrderLength
    <2>6. /\ Upto(step - 1) \subseteq Upto(step' - 1)
          /\ \A o \in Upto(step' - 1) :
               o \in Upto(step - 1) \/ \E j \in step .. step' - 1 : o = Order[j]
      BY <2>5, UptoGrows
    <2>7. given \cap Upto(step' - 1) \subseteq Upto(step - 1)
      BY <2>2, <2>6
    <2>8. attempted = given \cap Upto(step' - 1)
      BY <2>2, <2>6, <2>7 DEF Between
    <2>9. attempted' = given \cap Upto(step') /\ Order[step'] \notin attempted
      BY <2>2, <2>4, <2>8
    <2>10. InSetter'
      BY <2>1, <2>2, <2>3, <2>9 DEF InSetter, Between, Option
    <2> QED BY <2>1, <2>2, <2>10 DEF Untouched, Between, Settled, ReadBefore, OcStays
  <1>7. ASSUME NEW resp \in Responses, Send(resp) PROVE Inv'
    <2>1. given' = given /\ dump_table' = dump_table /\ Stored'
      BY <1>7, SameGiven DEF Send, parser, Stored
    <2>2. /\ pc = "setter" /\ pc' = "setter" /\ tries # <<>>
          /\ UNCHANGED <<step, err, values, dumped, shown, attempted>>
      BY <1>7 DEF Send, output
    <2>3. resp = "OK" => /\ adjerr' = "none" /\ tries' = <<>>
                         /\ accepted' = accepted \cup {Option}
      BY <1>7 DEF Send, AdjustError
    <2>4. resp # "OK" => adjerr' # "none" /\ accepted' = accepted
      BY <1>7 DEF Send, AdjustError
    <2>5. InSetter'
      <3>1. Option \in attempted /\ Option' = Option
        BY <2>2, OrderLength DEF InSetter, Option, Upto
      <3> QED BY <2>1, <2>2, <2>3, <2>4, <3>1 DEF InSetter
    <2>6. OcStays'
      <3> SUFFICES ASSUME "enable_oc" \in accepted' PROVE oc'
        BY <2>1, <2>2 DEF OcStays
      <3>1. "enable_oc" \in given /\ "disable_oc" \notin given
        BY <2>1, <2>2, <2>5 DEF InSetter, OcStays
      <3>2. Option # "disable_oc"
        BY <2>2, <3>1 DEF InSetter
      <3>3. oc => oc'
        BY <1>7, <3>2 DEF Send, OcAfter
      <3>4. CASE "enable_oc" \in accepted
        BY <2>2, <3>3, <3>4 DEF OcStays
      <3>5. CASE "enable_oc" \notin accepted
        <4>1. resp = "OK" /\ Option = "enable_oc"
          BY <2>3, <2>4, <3>5
        <4> QED BY <1>7, <4>1 DEF Send, OcAfter
      <3> QED BY <3>4, <3>5
    <2> QED BY <2>1, <2>2, <2>5, <2>6 DEF Untouched, Between, Settled, ReadBefore
  <1>8. CASE EndSetter
    <2>1. given' = given /\ dump_table' = dump_table /\ Stored'
      BY <1>8, SameGiven DEF EndSetter, parser, Stored
    <2>2. /\ pc = "setter" /\ pc' = "adjust" /\ tries = <<>> /\ step' = step + 1
          /\ IF adjerr = "none" THEN err' = err ELSE err' = -1
          /\ UNCHANGED <<values, dumped, shown, oc, attempted, accepted>>
      BY <1>8 DEF EndSetter, output, history
    <2>3. Between'
      <3>1. step \in 1 .. Len(Order) /\ step' \in 1 .. Len(Order) + 1 /\ step' - 1 = step
        BY <2>2, OrderLength DEF InSetter
      <3>2. Option \in attempted
        BY <2>2, <3>1, OrderLength DEF InSetter, Option, Upto
      <3>3. attempted' = given' \cap Upto(step' - 1) /\ accepted' \subseteq attempted'
        BY <2>1, <2>2, <3>1 DEF InSetter, Upto
      <3>4. err' = 0 <=> accepted' = attempted'
        <4>1. CASE adjerr = "none"
          <5>1. Option \in accepted
            BY <2>2, <4>1 DEF InSetter
          <5>2. (attempted \ accepted \subseteq {Option}) <=> accepted = attempted
            BY <2>2, <5>1 DEF InSetter
          <5> QED BY <2>2, <4>1, <5>2 DEF InSetter
        <4>2. CASE adjerr # "none"
          BY <2>2, <3>2, <4>2 DEF InSetter
        <4> QED BY <4>1, <4>2
      <3> QED BY <3>1, <3>3, <3>4 DEF Between, Upto
    <2> QED BY <2>1, <2>2, <2>3 DEF Untouched, InSetter, Settled, ReadBefore, OcStays
  <1>9. CASE AdjustsDone
    <2>1. given' = given /\ dump_table' = dump_table /\ Stored'
      BY <1>9, SameGiven DEF AdjustsDone, parser, Stored
    <2>2. /\ pc = "adjust" /\ pc' = IF err = 0 THEN "dump" ELSE "cleanup"
          /\ \A j \in step .. Len(Order) : Order[j] \notin given
          /\ UNCHANGED <<err, values, dumped, shown, attempted, accepted>>
      BY <1>9, OrderLength DEF AdjustsDone, NoneBefore, output, history
    <2>3. attempted = given
      <3>1. step \in 1 .. Len(Order) + 1 /\ attempted = given \cap Upto(step - 1)
        BY <2>2 DEF Between
      <3>2. given \subseteq Upto(Len(Order))
        BY UptoAll DEF given
      <3>3. given \subseteq Upto(step - 1)
        BY <2>2, <3>1, <3>2, OrderLength DEF Upto
      <3> QED BY <3>1, <3>3
    <2> QED BY <2>1, <2>2, <2>3 DEF Untouched, Between, InSetter, Settled, ReadBefore, OcStays
  <1>10. CASE DumpTable
    <2>1. given' = given /\ dump_table' = dump_table /\ Stored'
      BY <1>10, SameGiven DEF DumpTable, parser, Stored
    <2>2. /\ pc = "dump" /\ pc' = "info"
          /\ dumped' = dumped \/ (dump_table /\ dumped'[1] = values)
          /\ UNCHANGED <<err, shown, attempted, accepted>>
      BY <1>10 DEF DumpTable, history
    <2> QED BY <2>1, <2>2 DEF Untouched, Between, InSetter, Settled, ReadBefore, OcStays
  <1>11. CASE InfoTable
    <2>1. given' = given /\ Stored'
      BY <1>11, SameGiven DEF InfoTable, parser, Stored
    <2>2. /\ pc = "info" /\ pc' = "cleanup" /\ UNCHANGED <<err, dumped, attempted, accepted>>
      BY <1>11 DEF InfoTable, history
    <2> QED BY <2>1, <2>2 DEF Untouched, Between, InSetter, Settled, ReadBefore, OcStays
  <1>12. CASE Cleanup
    <2>1. given' = given /\ Stored'
      BY <1>12, SameGiven DEF Cleanup, parser, Stored
    <2>2. /\ pc = "cleanup" /\ pc' = "exit" /\ ~handle'
          /\ UNCHANGED <<err, dumped, shown, attempted, accepted>>
      BY <1>12 DEF Cleanup, output, history
    <2> QED BY <2>1, <2>2 DEF Untouched, Between, InSetter, Settled, ReadBefore, OcStays
  <1> QED BY <1>1, <1>2, <1>3, <1>4, <1>5, <1>6, <1>7, <1>8, <1>9, <1>10, <1>11, <1>12
          DEF Next, Run, Exited

LEMMA InvAlways == Spec => []Inv
  BY InvInit, InvStep, PTL DEF Spec

-----------------------------------------------------------------------------
\* When the library is closed again the exit code has told the truth about every
\* option, whatever the SMU answered in whichever order (main.c:349-430).
THEOREM ExitCorrect == Spec => []ExitTellsAll
  <1>1. Inv => ExitTellsAll
    BY DEF Inv, Settled, ExitTellsAll
  <1> QED BY <1>1, InvAlways, PTL

\* The first column of the dump is the table from before the adjustments, whatever
\* was set and whether or not a refresh failed (main.c:418).
THEOREM DumpCorrect == Spec => []DumpShowsBefore
  <1>1. Inv => DumpShowsBefore
    BY DEF Inv, ReadBefore, DumpShowsBefore
  <1> QED BY <1>1, InvAlways, PTL

\* Clock and voltage are set after overclocking has been enabled, and nothing on the
\* same line disables it again before (main.c:406-410).
THEOREM OcCorrect == Spec => []OcBeforeClocks
  <1>1. \A k \in 1 .. Len(Order) : Order[k] \in NeedsOc => "enable_oc" \in Upto(k)
    BY DEF Order, NeedsOc, Upto
  <1>2. Inv => OcBeforeClocks
    BY <1>1 DEF Inv, InSetter, OcStays, OcBeforeClocks, Option
  <1> QED BY <1>2, InvAlways, PTL

-----------------------------------------------------------------------------
\* The messages of a setter: at most two, each for one of the mailboxes.

Message == [mailbox : {"MP1", "PSMU"}, id : Nat]
Attempts == {<<>>} \cup {<<m>> : m \in Message} \cup {<<m, n>> : m, n \in Message}

\* A table from families to messages.
IsTable(t) == \A f \in DOMAIN t : t[f] \in Attempts

LEMMA MessageTypes ==
    /\ \A id \in Nat : Mp1(id) \in Message /\ Psmu(id) \in Message
    /\ \A m \in Message : <<m>> \in Attempts
    /\ \A m, n \in Message : <<m, n>> \in Attempts
  BY DEF Message, Attempts, Mp1, Psmu

LEMMA SendsTable ==
    ASSUME NEW families, NEW m \in Message PROVE IsTable(Sends(families, m))
  BY MessageTypes DEF IsTable, Sends, On

LEMMA OnTable ==
    ASSUME NEW families, NEW m \in Message, NEW n \in Message
    PROVE  IsTable(On(families, <<m, n>>))
  BY MessageTypes DEF IsTable, On

LEMMA MergedTable ==
    ASSUME NEW s, NEW t, IsTable(s), IsTable(t) PROVE IsTable(s ++ t)
  BY DEF IsTable, ++

\* Every table of an operation holds one or two messages for each family in it.
LEMMA LimitTables ==
    /\ IsTable(set_stapm_limit) /\ IsTable(set_fast_limit) /\ IsTable(set_slow_limit)
    /\ IsTable(set_slow_time) /\ IsTable(set_stapm_time) /\ IsTable(set_tctl_temp)
    /\ IsTable(set_prochot_deassertion_ramp) /\ IsTable(set_apu_skin_temp_limit)
    /\ IsTable(set_dgpu_skin_temp_limit) /\ IsTable(set_apu_slow_limit)
    /\ IsTable(set_skin_temp_power_limit)
  <1>1. IsTable(set_stapm_limit) /\ IsTable(set_fast_limit) /\ IsTable(set_slow_limit) /\
        IsTable(set_slow_time)
    BY MessageTypes, SendsTable, OnTable, MergedTable DEF set_stapm_limit, set_fast_limit,
       set_slow_limit, set_slow_time
  <1>2. IsTable(set_stapm_time) /\ IsTable(set_tctl_temp) /\
        IsTable(set_prochot_deassertion_ramp) /\ IsTable(set_apu_skin_temp_limit)
    BY MessageTypes, SendsTable, OnTable, MergedTable DEF set_stapm_time, set_tctl_temp,
       set_prochot_deassertion_ramp, set_apu_skin_temp_limit
  <1>3. IsTable(set_dgpu_skin_temp_limit) /\ IsTable(set_apu_slow_limit) /\
        IsTable(set_skin_temp_power_limit)
    BY MessageTypes, SendsTable, OnTable, MergedTable DEF set_dgpu_skin_temp_limit,
       set_apu_slow_limit, set_skin_temp_power_limit
  <1> QED BY <1>1, <1>2, <1>3

LEMMA CurrentTables ==
    /\ IsTable(set_vrm_current) /\ IsTable(set_vrmsoc_current) /\ IsTable(set_vrmgfx_current)
    /\ IsTable(set_vrmcvip_current) /\ IsTable(set_vrmmax_current) /\ IsTable(set_vrmgfxmax_current)
    /\ IsTable(set_vrmsocmax_current) /\ IsTable(set_psi0_current) /\ IsTable(set_psi3cpu_current)
    /\ IsTable(set_psi0soc_current) /\ IsTable(set_psi3gfx_current)
  <1>1. IsTable(set_vrm_current) /\ IsTable(set_vrmsoc_current) /\
        IsTable(set_vrmgfx_current) /\ IsTable(set_vrmcvip_current)
    BY MessageTypes, SendsTable, OnTable, MergedTable DEF set_vrm_current, set_vrmsoc_current,
       set_vrmgfx_current, set_vrmcvip_current
  <1>2. IsTable(set_vrmmax_current) /\ IsTable(set_vrmgfxmax_current) /\
        IsTable(set_vrmsocmax_current) /\ IsTable(set_psi0_current)
    BY MessageTypes, SendsTable, OnTable, MergedTable DEF set_vrmmax_current,
       set_vrmgfxmax_current, set_vrmsocmax_current, set_psi0_current
  <1>3. IsTable(set_psi3cpu_current) /\ IsTable(set_psi0soc_current) /\
        IsTable(set_psi3gfx_current)
    BY MessageTypes, SendsTable, OnTable, MergedTable DEF set_psi3cpu_current,
       set_psi0soc_current, set_psi3gfx_current
  <1> QED BY <1>1, <1>2, <1>3

LEMMA ClockTables ==
    /\ IsTable(set_max_gfxclk_freq) /\ IsTable(set_min_gfxclk_freq) /\ IsTable(set_max_socclk_freq)
    /\ IsTable(set_min_socclk_freq) /\ IsTable(set_max_fclk_freq) /\ IsTable(set_min_fclk_freq)
    /\ IsTable(set_max_vcn) /\ IsTable(set_min_vcn) /\ IsTable(set_max_lclk)
    /\ IsTable(set_min_lclk) /\ IsTable(set_gfx_clk)
  <1>1. IsTable(set_max_gfxclk_freq) /\ IsTable(set_min_gfxclk_freq) /\
        IsTable(set_max_socclk_freq) /\ IsTable(set_min_socclk_freq)
    BY MessageTypes, SendsTable, OnTable, MergedTable DEF set_max_gfxclk_freq,
       set_min_gfxclk_freq, set_max_socclk_freq, set_min_socclk_freq
  <1>2. IsTable(set_max_fclk_freq) /\ IsTable(set_min_fclk_freq) /\ IsTable(set_max_vcn) /\
        IsTable(set_min_vcn)
    BY MessageTypes, SendsTable, OnTable, MergedTable DEF set_max_fclk_freq, set_min_fclk_freq,
       set_max_vcn, set_min_vcn
  <1>3. IsTable(set_max_lclk) /\ IsTable(set_min_lclk) /\ IsTable(set_gfx_clk)
    BY MessageTypes, SendsTable, OnTable, MergedTable DEF set_max_lclk, set_min_lclk,
       set_gfx_clk
  <1> QED BY <1>1, <1>2, <1>3

LEMMA ProfileTables ==
    /\ IsTable(set_power_saving) /\ IsTable(set_max_performance) /\ IsTable(set_oc_clk)
    /\ IsTable(set_per_core_oc_clk) /\ IsTable(set_oc_volt) /\ IsTable(set_disable_oc)
    /\ IsTable(set_enable_oc) /\ IsTable(set_coall) /\ IsTable(set_coper)
    /\ IsTable(set_cogfx)
  <1>1. IsTable(set_power_saving) /\ IsTable(set_max_performance) /\ IsTable(set_oc_clk) /\
        IsTable(set_per_core_oc_clk)
    BY MessageTypes, SendsTable, OnTable, MergedTable DEF set_power_saving,
       set_max_performance, set_oc_clk, set_per_core_oc_clk
  <1>2. IsTable(set_oc_volt) /\ IsTable(set_disable_oc) /\ IsTable(set_enable_oc) /\
        IsTable(set_coall)
    BY MessageTypes, SendsTable, OnTable, MergedTable DEF set_oc_volt, set_disable_oc,
       set_enable_oc, set_coall
  <1>3. IsTable(set_coper) /\ IsTable(set_cogfx)
    BY MessageTypes, SendsTable, OnTable, MergedTable DEF set_coper, set_cogfx
  <1> QED BY <1>1, <1>2, <1>3

LEMMA OwnTables ==
    /\ IsTable(smu_service_test) /\ IsTable(get_bios_if_ver) /\ IsTable(request_table_ver)
    /\ IsTable(request_table_addr) /\ IsTable(request_transfer_table)
  <1>1. IsTable(smu_service_test) /\ IsTable(get_bios_if_ver) /\ IsTable(request_table_ver) /\
        IsTable(request_table_addr)
    BY MessageTypes, SendsTable, OnTable, MergedTable DEF smu_service_test, get_bios_if_ver,
       request_table_ver, request_table_addr
  <1>2. IsTable(request_transfer_table)
    BY MessageTypes, SendsTable, OnTable, MergedTable DEF request_transfer_table
  <1> QED BY <1>1, <1>2

LEMMA OperationTables == \A o \in DOMAIN Operations : IsTable(Operations[o])
  BY LimitTables, CurrentTables, ClockTables, ProfileTables, OwnTables DEF Operations

LEMMA TriesTypes ==
    ASSUME NEW o \in Options, NEW f
    PROVE  Messages(o, f) \in Attempts
  <1>1. o \in DOMAIN Operations
    BY DEF Options
  <1> QED BY <1>1, OperationTables DEF Messages, IsTable, Attempts

\* The messages that are left to try, one of them used or all of them.
LEMMA AttemptTypes ==
    ASSUME NEW t \in Attempts
    PROVE  /\ t \in Seq(Message) /\ Len(t) <= 2
           /\ t # <<>> => Tail(t) \in Attempts
  <1>1. t = <<>> \/ (\E m \in Message : t = <<m>>) \/ \E m, n \in Message : t = <<m, n>>
    BY DEF Attempts
  <1>2. CASE t = <<>>
    BY <1>2
  <1>3. ASSUME NEW m \in Message, t = <<m>>
        PROVE  t \in Seq(Message) /\ Len(t) <= 2 /\ Tail(t) \in Attempts
    <2>1. Tail(t) = <<>>
      BY <1>3
    <2> QED BY <1>3, <2>1 DEF Attempts
  <1>4. ASSUME NEW m \in Message, NEW n \in Message, t = <<m, n>>
        PROVE  t \in Seq(Message) /\ Len(t) <= 2 /\ Tail(t) \in Attempts
    <2>1. Tail(t) = <<n>>
      BY <1>4
    <2> QED BY <1>4, <2>1 DEF Attempts
  <1> QED BY <1>1, <1>2, <1>3, <1>4

-----------------------------------------------------------------------------
\* What a step does to the parser: it reads an option, or nothing, or clears the flags
\* for the table that cannot be read.
LEMMA ParserSteps ==
    ASSUME [Next]_vars
    PROVE  \/ Parse
           \/ UNCHANGED parser
           \/ /\ arg' = [arg EXCEPT !["info"] = 0, !["dump_table"] = 0]
              /\ UNCHANGED <<argv, at, optvalue, parsing, uses>>
              /\ pc = "table"
  <1>1. CASE InitTable
    BY <1>1 DEF InitTable, parser
  <1> QED BY <1>1 DEF Next, Run, Exited, vars, parser, ParseLine, CheckFlags, OpenFails, Open,
          StartSetter, Send, EndSetter, AdjustsDone, DumpTable, InfoTable, Cleanup

\* The types of main()'s own variables.
MainTypeOK ==
    /\ family \in Families \cup {"UNKNOWN"}
    /\ pc \in {"parse", "flags", "open", "table", "adjust", "setter", "dump", "info", "cleanup",
               "exit"}
    /\ step \in 1 .. Len(Order) + 1
    /\ tries \in Attempts
    /\ adjerr \in AdjustErrors
    /\ err \in {0, -1, 1} /\ any_adjust_applied \in BOOLEAN
    /\ handle \in BOOLEAN /\ values \in {"none", "before", "after"}
    /\ dumped \in Seq({"none", "before", "after"}) /\ Len(dumped) <= 2
    /\ shown \in {"none", "after"}
    /\ oc \in BOOLEAN
    /\ attempted \subseteq Options /\ accepted \subseteq Options

LEMMA MainTypeInit == Init => MainTypeOK
  <1> SUFFICES ASSUME Init PROVE MainTypeOK
    OBVIOUS
  <1>1. family \in Families \cup {"UNKNOWN"}
    BY StartsAssumption DEF Init
  <1>2. 1 \in 1 .. Len(Order) + 1
    BY OrderLength
  <1>3. tries \in Attempts
    BY DEF Init, Attempts
  <1>4. dumped \in Seq({"none", "before", "after"}) /\ Len(dumped) <= 2
    BY DEF Init
  <1> QED BY <1>1, <1>2, <1>3, <1>4 DEF Init, MainTypeOK, AdjustErrors

LEMMA MainTypeStep == Inv /\ MainTypeOK /\ [Next]_vars => MainTypeOK'
  <1> SUFFICES ASSUME Inv, MainTypeOK, [Next]_vars PROVE MainTypeOK'
    OBVIOUS
  <1> USE DEF MainTypeOK
  <1>1. CASE UNCHANGED vars
    BY <1>1 DEF vars, setter, output, history
  <1>2. CASE ParseLine
    <2>1. pc' \in {"flags", "exit", "parse"} /\ err' \in {0, -1, 1}
      BY <1>2 DEF ParseLine
    <2> QED BY <1>2, <2>1 DEF ParseLine, setter, output, history
  <1>3. CASE CheckFlags \/ OpenFails \/ Open
    BY <1>3 DEF CheckFlags, OpenFails, Open, setter, output, history
  <1>4. CASE InitTable \/ AdjustsDone \/ Cleanup
    BY <1>4 DEF InitTable, AdjustsDone, Cleanup, setter, output, history
  <1>5. CASE StartSetter
    <2>1. step' \in 1 .. Len(Order) /\ Order[step'] \in Options
      BY <1>5, OrderLength, OrderAssumption DEF StartSetter
    <2>2. Messages(Order[step'], family) \in Attempts
      BY <2>1, TriesTypes
    <2> QED BY <1>5, <2>1, <2>2 DEF StartSetter, Option, AdjustErrors, output
  <1>6. ASSUME NEW resp \in Responses, Send(resp) PROVE MainTypeOK'
    <2>1. AdjustError(resp) \in AdjustErrors
      BY DEF AdjustError, AdjustErrors, Responses
    <2>2. tries' \in Attempts
      <3>1. <<>> \in Attempts
        BY DEF Attempts
      <3> QED BY <1>6, <3>1, AttemptTypes DEF Send
    <2>3. oc' \in BOOLEAN
      BY <1>6 DEF Send, OcAfter, Responses
    <2>4. accepted' \subseteq Options
      <3>1. Option \in Options
        BY <1>6, OrderLength, OrderAssumption DEF Send, Inv, InSetter, Option
      <3> QED BY <1>6, <3>1 DEF Send
    <2> QED BY <1>6, <2>1, <2>2, <2>3, <2>4 DEF Send, output
  <1>7. CASE EndSetter
    <2>1. step' \in 1 .. Len(Order) + 1
      BY <1>7, OrderLength DEF EndSetter, Inv, InSetter
    <2> QED BY <1>7, <2>1 DEF EndSetter, setter, output, history
  <1>8. CASE DumpTable
    <2>1. values' \in {"none", "before", "after"}
      BY <1>8 DEF DumpTable
    <2>2. dumped' \in Seq({"none", "before", "after"}) /\ Len(dumped') <= 2
      <3> DEFINE V == {"none", "before", "after"}
      <3>1. values \in V /\ values' \in V /\ dumped \in Seq(V) /\ Len(dumped) <= 2
        BY <2>1
      <3>2. dumped' = dumped \/ dumped' = <<values>> \/ dumped' = <<values, values'>>
        BY <1>8 DEF DumpTable
      <3> HIDE DEF V
      <3>3. dumped' \in Seq(V) /\ Len(dumped') <= 2
        <4>1. /\ <<values>> \in Seq(V) /\ Len(<<values>>) <= 2
              /\ <<values, values'>> \in Seq(V) /\ Len(<<values, values'>>) <= 2
          BY <3>1
        <4>2. CASE dumped' = dumped
          BY <3>1, <4>2
        <4>3. CASE dumped' = <<values>>
          BY <4>1, <4>3, Zenon
        <4>4. CASE dumped' = <<values, values'>>
          BY <4>1, <4>4, Zenon
        <4> QED BY <3>2, <4>2, <4>3, <4>4
      <3> QED BY <3>3 DEF V
    <2> QED BY <1>8, <2>1, <2>2 DEF DumpTable, setter, history
  <1>9. CASE InfoTable
    BY <1>9 DEF InfoTable, setter, history
  <1> QED BY <1>1, <1>2, <1>3, <1>4, <1>5, <1>6, <1>7, <1>8, <1>9 DEF Next, Run, Exited

LEMMA MainTypeAlways == Spec => []MainTypeOK
  BY MainTypeInit, MainTypeStep, InvAlways, PTL DEF Spec

-----------------------------------------------------------------------------
\* What a message means: for each group of families and each mailbox the operation that
\* a number stands for, the inverse of the tables of Messages.

RavenMp1(id) ==
    CASE id = \h1 -> "test" [] id = \h3 -> "bios_if_ver" [] id = \h18 -> "max_performance"
      [] id = \h19 -> "power_saving" [] id = \h1a -> "stapm_limit"
      [] id = \h1b -> "fast_limit" [] id = \h1c -> "slow_limit" [] id = \h1d -> "slow_time"
      [] id = \h1e -> "stapm_time" [] id = \h1f -> "tctl_temp"
      [] id = \h20 -> "vrm_current" [] id = \h21 -> "vrmsoc_current"
      [] id = \h22 -> "vrmmax_current" [] id = \h23 -> "vrmsocmax_current"
      [] id = \h24 -> "psi0_current" [] id = \h25 -> "psi0soc_current"
      [] id = \h26 -> "prochot_deassertion_ramp" [] id = \h46 -> "max_gfxclk_freq"
      [] id = \h47 -> "min_gfxclk_freq" [] id = \h48 -> "max_socclk_freq"
      [] id = \h49 -> "min_socclk_freq" [] id = \h4a -> "max_fclk_freq"
      [] id = \h4b -> "min_fclk_freq" [] id = \h4c -> "max_vcn" [] id = \h4d -> "min_vcn"
      [] id = \h4e -> "max_lclk" [] id = \h4f -> "min_lclk"

RenoirMp1(id) ==
    CASE id = \h1 -> "test" [] id = \h3 -> "bios_if_ver" [] id = \h11 -> "max_performance"
      [] id = \h12 -> "power_saving" [] id = \h14 -> "stapm_limit"
      [] id = \h15 -> "fast_limit" [] id = \h16 -> "slow_limit" [] id = \h17 -> "slow_time"
      [] id = \h18 -> "stapm_time" [] id = \h19 -> "tctl_temp"
      [] id = \h1a -> "vrm_current" [] id = \h1b -> "vrmsoc_current"
      [] id = \h1c -> "vrmmax_current" [] id = \h1d -> "vrmsocmax_current"
      [] id = \h1e -> "psi0_current" [] id = \h1f -> "psi0soc_current"
      [] id = \h20 -> "prochot_deassertion_ramp" [] id = \h21 -> "apu_slow_limit"
      [] id = \h2f -> "enable_oc" [] id = \h30 -> "disable_oc" [] id = \h31 -> "oc_clk"
      [] id = \h32 -> "per_core_oc_clk" [] id = \h33 -> "oc_volt"
      [] id = \h38 -> "apu_skin_temp_limit" [] id = \h39 -> "dgpu_skin_temp_limit"
      [] id = \h46 -> "max_gfxclk_freq" [] id = \h47 -> "min_gfxclk_freq"
      [] id = \h53 -> "skin_temp_power_limit" [] id = \h54 -> "coper"
      [] id = \h55 -> "coall" [] id = \h64 -> "cogfx"

VangoghMp1(id) ==
    CASE id = \h1 -> "test" [] id = \h3 -> "bios_if_ver" [] id = \h11 -> "max_performance"
      [] id = \h12 -> "power_saving" [] id = \h14 -> "stapm_limit"
      [] id = \h15 -> "fast_limit" [] id = \h16 -> "slow_limit" [] id = \h17 -> "slow_time"
      [] id = \h18 -> "stapm_time" [] id = \h19 -> "tctl_temp"
      [] id = \h1a -> "vrm_current" [] id = \h1b -> "vrmsoc_current"
      [] id = \h1c -> "vrmgfx_current" [] id = \h1d -> "vrmcvip_current"
      [] id = \h1e -> "vrmmax_current" [] id = \h1f -> "vrmgfxmax_current"
      [] id = \h20 -> "psi3cpu_current" [] id = \h21 -> "psi3gfx_current"
      [] id = \h22 -> "prochot_deassertion_ramp" [] id = \h33 -> "apu_skin_temp_limit"
      [] id = \h34 -> "dgpu_skin_temp_limit" [] id = \h4a -> "skin_temp_power_limit"
      [] id = \h4b -> "coper" [] id = \h4c -> "coall"

NewerMp1(id) ==
    CASE id = \h1 -> "test" [] id = \h3 -> "bios_if_ver" [] id = \h11 -> "max_performance"
      [] id = \h12 -> "power_saving" [] id = \h14 -> "stapm_limit"
      [] id = \h15 -> "fast_limit" [] id = \h16 -> "slow_limit" [] id = \h17 -> "slow_time"
      [] id = \h18 -> "stapm_time" [] id = \h19 -> "tctl_temp"
      [] id = \h1a -> "vrm_current" [] id = \h1b -> "vrmsoc_current"
      [] id = \h1c -> "vrmmax_current" [] id = \h1d -> "vrmsocmax_current"
      [] id = \h1f -> "prochot_deassertion_ramp" [] id = \h23 -> "apu_slow_limit"
      [] id = \h31 -> "oc_clk" [] id = \h32 -> "per_core_oc_clk"
      [] id = \h33 -> "apu_skin_temp_limit" [] id = \h34 -> "dgpu_skin_temp_limit"
      [] id = \h4a -> "skin_temp_power_limit" [] id = \h4b -> "coper"
      [] id = \h4c -> "coall"

DesktopMp1(id) ==
    CASE id = \h1 -> "test" [] id = \h3 -> "bios_if_ver" [] id = \h3c -> "vrm_current"
      [] id = \h3e -> "fast_limit" [] id = \h3f -> "tctl_temp" [] id = \h4e -> "stapm_time"
      [] id = \h4f -> "stapm_limit" [] id = \h5f -> "slow_limit"
      [] id = \h60 -> "slow_time"

RavenPsmu(id) ==
    CASE id = \h1 -> "test" [] id = \hb -> "table_addr" [] id = \hc -> "table_ver"
      [] id = \h3d -> "transfer_table"

RenoirPsmu(id) ==
    CASE id = \h1 -> "test" [] id = \h6 -> "table_ver" [] id = \h19 -> "oc_clk"
      [] id = \h1a -> "per_core_oc_clk" [] id = \h1b -> "oc_volt"
      [] id = \h1d -> "disable_oc" [] id = \h31 -> "stapm_limit"
      [] id = \h65 -> "transfer_table" [] id = \h66 -> "table_addr"
      [] id = \h89 -> "gfx_clk"

VangoghPsmu(id) ==
    CASE id = \h1 -> "test" [] id = \h31 -> "stapm_limit" [] id = \h89 -> "gfx_clk"
      [] id = \hb7 -> "cogfx"

NewerPsmu(id) ==
    CASE id = \h1 -> "test" [] id = \h6 -> "table_ver" [] id = \h17 -> "enable_oc"
      [] id = \h18 -> "disable_oc" [] id = \h19 -> "oc_clk"
      [] id = \h1a -> "per_core_oc_clk" [] id = \h31 -> "stapm_limit"
      [] id = \h65 -> "transfer_table" [] id = \h66 -> "table_addr"
      [] id = \h89 -> "gfx_clk" [] id = \hb7 -> "cogfx"

DesktopPsmu(id) ==
    CASE id = \h1 -> "test" [] id = \h6 -> "coper" [] id = \h7 -> "coall"

\* The operation that message m stands for on family f.
Meaning(m, f) ==
    IF m.mailbox = "MP1"
      THEN CASE f \in Zen1 -> RavenMp1(m.id)
             [] f \in Renoirs -> RenoirMp1(m.id)
             [] f = "VANGOGH" -> VangoghMp1(m.id)
             [] f \in Newer \ {"VANGOGH"} -> NewerMp1(m.id)
             [] f \in Desktop -> DesktopMp1(m.id)
      ELSE CASE f \in Zen1 -> RavenPsmu(m.id)
             [] f \in Renoirs -> RenoirPsmu(m.id)
             [] f = "VANGOGH" -> VangoghPsmu(m.id)
             [] f \in Newer \ {"VANGOGH"} -> NewerPsmu(m.id)
             [] f \in Desktop -> DesktopPsmu(m.id)

\* Every message of this table has the meaning o on the family it is for.
Means(t, o) == \A f \in DOMAIN t : \A k \in DOMAIN t[f] : Meaning(t[f][k], f) = o

LEMMA MergedMeans ==
    ASSUME NEW s, NEW t, NEW o, Means(s, o), Means(t, o) PROVE Means(s ++ t, o)
  BY DEF Means, ++

LEMMA SendsMeans ==
    ASSUME NEW families, NEW m, NEW o, \A f \in families : Meaning(m, f) = o
    PROVE  Means(Sends(families, m), o)
  BY DEF Means, Sends, On

LEMMA OnMeans ==
    ASSUME NEW families, NEW m, NEW n, NEW o,
           \A f \in families : Meaning(m, f) = o /\ Meaning(n, f) = o
    PROVE  Means(On(families, <<m, n>>), o)
  BY DEF Means, On

\* The groups of families that share their messages, and the others in terms of them.
LEMMA FamiliesApart ==
    /\ \A f \in Zen1 : f \notin Renoirs /\ f \notin Newer /\ f \notin Desktop
    /\ \A f \in Renoirs : f \notin Newer /\ f \notin Desktop
    /\ \A f \in Newer : f \notin Desktop
    /\ "VANGOGH" \in Newer
    /\ Mobile = Renoirs \cup Newer
    /\ Families = Zen1 \cup Renoirs \cup Newer \cup Desktop
    /\ HasTable \ Zen1 \subseteq Renoirs \cup (Newer \ {"VANGOGH"})
    /\ "LUCIENNE" \in Renoirs /\ "REMBRANDT" \in Newer
    /\ Phoenixes \subseteq Newer \ {"VANGOGH"}
  BY DEF Zen1, Renoirs, Newer, Phoenixes, Strixes, Desktop, Mobile, Families, HasTable

\* Which of the tables of numbers applies.
LEMMA MeaningMp1 ==
    ASSUME NEW id
    PROVE  /\ \A f \in Zen1 : Meaning(Mp1(id), f) = RavenMp1(id)
           /\ \A f \in Renoirs : Meaning(Mp1(id), f) = RenoirMp1(id)
           /\ Meaning(Mp1(id), "VANGOGH") = VangoghMp1(id)
           /\ \A f \in Newer : f # "VANGOGH" => Meaning(Mp1(id), f) = NewerMp1(id)
           /\ \A f \in Desktop : Meaning(Mp1(id), f) = DesktopMp1(id)
  BY FamiliesApart DEF Meaning, Mp1

LEMMA MeaningPsmu ==
    ASSUME NEW id
    PROVE  /\ \A f \in Zen1 : Meaning(Psmu(id), f) = RavenPsmu(id)
           /\ \A f \in Renoirs : Meaning(Psmu(id), f) = RenoirPsmu(id)
           /\ Meaning(Psmu(id), "VANGOGH") = VangoghPsmu(id)
           /\ \A f \in Newer : f # "VANGOGH" => Meaning(Psmu(id), f) = NewerPsmu(id)
           /\ \A f \in Desktop : Meaning(Psmu(id), f) = DesktopPsmu(id)
  BY FamiliesApart DEF Meaning, Psmu

\* No number stands for two operations.
LEMMA OperationMeanings == \A o \in DOMAIN Operations : Means(Operations[o], o)
  <1> USE SendsMeans, OnMeans, MergedMeans, MeaningMp1, MeaningPsmu, FamiliesApart
      DEF RavenMp1, RenoirMp1, VangoghMp1, NewerMp1, DesktopMp1, RavenPsmu, RenoirPsmu,
          VangoghPsmu, NewerPsmu, DesktopPsmu
  <1>1. /\ Means(set_stapm_limit, "stapm_limit")
        /\ Means(set_fast_limit, "fast_limit")
        /\ Means(set_slow_limit, "slow_limit")
    BY DEF set_stapm_limit, set_fast_limit, set_slow_limit
  <1>2. /\ Means(set_slow_time, "slow_time")
        /\ Means(set_stapm_time, "stapm_time")
        /\ Means(set_tctl_temp, "tctl_temp")
    BY DEF set_slow_time, set_stapm_time, set_tctl_temp
  <1>3. /\ Means(set_prochot_deassertion_ramp, "prochot_deassertion_ramp")
        /\ Means(set_apu_skin_temp_limit, "apu_skin_temp_limit")
        /\ Means(set_dgpu_skin_temp_limit, "dgpu_skin_temp_limit")
    BY DEF set_prochot_deassertion_ramp, set_apu_skin_temp_limit, set_dgpu_skin_temp_limit
  <1>4. /\ Means(set_apu_slow_limit, "apu_slow_limit")
        /\ Means(set_skin_temp_power_limit, "skin_temp_power_limit")
        /\ Means(set_vrm_current, "vrm_current")
    BY DEF set_apu_slow_limit, set_skin_temp_power_limit, set_vrm_current
  <1>5. /\ Means(set_vrmsoc_current, "vrmsoc_current")
        /\ Means(set_vrmgfx_current, "vrmgfx_current")
        /\ Means(set_vrmcvip_current, "vrmcvip_current")
    BY DEF set_vrmsoc_current, set_vrmgfx_current, set_vrmcvip_current
  <1>6. /\ Means(set_vrmmax_current, "vrmmax_current")
        /\ Means(set_vrmgfxmax_current, "vrmgfxmax_current")
        /\ Means(set_vrmsocmax_current, "vrmsocmax_current")
    BY DEF set_vrmmax_current, set_vrmgfxmax_current, set_vrmsocmax_current
  <1>7. /\ Means(set_psi0_current, "psi0_current")
        /\ Means(set_psi3cpu_current, "psi3cpu_current")
        /\ Means(set_psi0soc_current, "psi0soc_current")
    BY DEF set_psi0_current, set_psi3cpu_current, set_psi0soc_current
  <1>8. /\ Means(set_psi3gfx_current, "psi3gfx_current")
        /\ Means(set_max_gfxclk_freq, "max_gfxclk_freq")
        /\ Means(set_min_gfxclk_freq, "min_gfxclk_freq")
    BY DEF set_psi3gfx_current, set_max_gfxclk_freq, set_min_gfxclk_freq
  <1>9. /\ Means(set_max_socclk_freq, "max_socclk_freq")
        /\ Means(set_min_socclk_freq, "min_socclk_freq")
        /\ Means(set_max_fclk_freq, "max_fclk_freq")
    BY DEF set_max_socclk_freq, set_min_socclk_freq, set_max_fclk_freq
  <1>10. /\ Means(set_min_fclk_freq, "min_fclk_freq")
         /\ Means(set_max_vcn, "max_vcn")
         /\ Means(set_min_vcn, "min_vcn")
    BY DEF set_min_fclk_freq, set_max_vcn, set_min_vcn
  <1>11. /\ Means(set_max_lclk, "max_lclk")
         /\ Means(set_min_lclk, "min_lclk")
         /\ Means(set_gfx_clk, "gfx_clk")
    BY DEF set_max_lclk, set_min_lclk, set_gfx_clk
  <1>12. /\ Means(set_power_saving, "power_saving")
         /\ Means(set_max_performance, "max_performance")
         /\ Means(set_oc_clk, "oc_clk")
    BY DEF set_power_saving, set_max_performance, set_oc_clk
  <1>13. /\ Means(set_per_core_oc_clk, "per_core_oc_clk")
         /\ Means(set_oc_volt, "oc_volt")
         /\ Means(set_disable_oc, "disable_oc")
    BY DEF set_per_core_oc_clk, set_oc_volt, set_disable_oc
  <1>14. /\ Means(set_enable_oc, "enable_oc")
         /\ Means(set_coall, "coall")
         /\ Means(set_coper, "coper")
    BY DEF set_enable_oc, set_coall, set_coper
  <1>15. /\ Means(set_cogfx, "cogfx")
         /\ Means(smu_service_test, "test")
         /\ Means(get_bios_if_ver, "bios_if_ver")
    BY DEF set_cogfx, smu_service_test, get_bios_if_ver
  <1>16. /\ Means(request_table_ver, "table_ver")
         /\ Means(request_table_addr, "table_addr")
         /\ Means(request_transfer_table, "transfer_table")
    BY DEF request_table_ver, request_table_addr, request_transfer_table
  <1> QED BY <1>1, <1>2, <1>3, <1>4, <1>5, <1>6, <1>7, <1>8, <1>9, <1>10, <1>11,
          <1>12, <1>13, <1>14, <1>15, <1>16
          DEF Operations

\* Whoever sends this message is that operation.
LEMMA OneSender ==
    ASSUME NEW o \in DOMAIN Operations, NEW f, NEW k \in DOMAIN Messages(o, f)
    PROVE  Senders(Messages(o, f)[k], f) = {o}
  <1>1. \A p \in DOMAIN Operations : \A j \in DOMAIN Messages(p, f) :
            Meaning(Messages(p, f)[j], f) = p
    BY OperationMeanings DEF Means, Messages
  <1> QED BY <1>1 DEF Senders

\* What is left to try are messages of the setter that is running.
Trying ==
    pc = "setter" =>
        \A i \in DOMAIN tries : \E k \in DOMAIN Messages(Option, family) :
            tries[i] = Messages(Option, family)[k]

LEMMA TryingStep == MainTypeOK /\ Trying /\ [Next]_vars => Trying'
  <1> SUFFICES ASSUME MainTypeOK, Trying, [Next]_vars PROVE Trying'
    OBVIOUS
  <1>1. CASE StartSetter
    BY <1>1 DEF StartSetter, Trying
  <1>2. ASSUME NEW resp \in Responses, Send(resp) PROVE Trying'
    <2>1. /\ pc = "setter" /\ Option' = Option /\ family' = family
          /\ tries # <<>> /\ (tries' = <<>> \/ tries' = Tail(tries))
      BY <1>2 DEF Send, Option
    <2>2. tries \in Seq(Message)
      BY AttemptTypes DEF MainTypeOK
    <2>3. \A i \in DOMAIN Tail(tries) :
              i + 1 \in DOMAIN tries /\ Tail(tries)[i] = tries[i + 1]
      BY <2>1, <2>2
    <2> QED BY <2>1, <2>3 DEF Trying
  <1>3. CASE pc' = "setter" /\ UNCHANGED <<pc, tries, family, step>>
    BY <1>3 DEF Trying, Option
  <1>4. CASE pc' # "setter"
    BY <1>4 DEF Trying
  <1> QED BY <1>1, <1>2, <1>3, <1>4 DEF Next, Run, Exited, vars, setter, ParseLine, CheckFlags,
          OpenFails, Open, InitTable, EndSetter, AdjustsDone, DumpTable, InfoTable, Cleanup

\* On one family a message means one operation: what a setter sends is what no other
\* setter, and the library for itself, ever sends (api.c:82-300, 519-1552).
THEOREM MeaningCorrect == Spec => []OneMeaning
  <1>1. Init => Trying
    BY DEF Init, Trying
  <1>2. Inv /\ MainTypeOK /\ Trying => OneMeaning
    <2> SUFFICES ASSUME Inv, MainTypeOK, Trying, pc = "setter", tries # <<>>
                 PROVE  Senders(Head(tries), family) = {Option}
      BY DEF OneMeaning
    <2>1. Option \in DOMAIN Operations
      BY OrderLength, OrderAssumption DEF Inv, InSetter, Option, Options
    <2>2. tries \in Seq(Message)
      BY AttemptTypes DEF MainTypeOK
    <2>3. 1 \in DOMAIN tries /\ Head(tries) = tries[1]
      BY <2>2
    <2> QED BY <2>1, <2>3, OneSender DEF Trying
  <1> QED BY <1>1, <1>2, TryingStep, InvAlways, MainTypeAlways, PTL DEF Spec

-----------------------------------------------------------------------------
\* The parser's part of every state.

LEMMA ParserTypeInit == Init => ParserTypeOK
  <1> SUFFICES ASSUME Init PROVE ParserTypeOK
    OBVIOUS
  <1>1. argv \in Seq(AnyWord) /\ at \in 1 .. Len(argv) + 1
    BY StartsAssumption DEF Init, ParserInit
  <1>2. \A o \in Options \cup Flags :
            Unset(o) = IF o \in Flags THEN 0 ELSE IF o \in CurveOptions THEN CO_UNSET ELSE ARG_UNSET
    <2>1. \A o \in CurveOptions : o \notin Flags
      BY DEF CurveOptions, Flags, Enables
    <2>2. ASSUME NEW o \in Flags PROVE Unset(o) = 0
      BY <2>1 DEF Unset
    <2>3. ASSUME NEW o \in CurveOptions PROVE Unset(o) = CO_UNSET
      BY <2>1 DEF Unset
    <2>4. ASSUME NEW o, o \notin Flags, o \notin CurveOptions PROVE Unset(o) = ARG_UNSET
      BY <2>4 DEF Unset
    <2> QED BY <2>1, <2>2, <2>3, <2>4
  <1>3. /\ ARG_UNSET \in -WordMax .. WordMax /\ ARG_UNSET \in Int /\ CO_UNSET \in Int
    BY WordAssumption DEF ARG_UNSET, CO_UNSET
  <1>4. /\ arg \in [Options \cup Flags -> Int] /\ \A o \in Flags : arg[o] \in Nat
        /\ \A o \in Options \ Flags : arg[o] \in (-WordMax .. WordMax) \cup {CO_UNSET}
    BY <1>2, <1>3 DEF Init, ParserInit
  <1>5. uses \in Seq([opt : Options \cup Flags, in : DOMAIN argv, value : DOMAIN argv,
                      text : AnyText \cup {NoText}])
    BY DEF Init, ParserInit
  <1> QED BY <1>1, <1>4, <1>5 DEF Init, ParserInit, ParserTypeOK

\* Clearing the flags concerns no option with a value.
LEMMA ParserTypeStep == ParserTypeOK /\ [Next]_vars => ParserTypeOK'
  <1> SUFFICES ASSUME ParserTypeOK, [Next]_vars PROVE ParserTypeOK'
    OBVIOUS
  <1>1. CASE Parse
    BY <1>1, TypeStep
  <1>2. CASE UNCHANGED parser
    BY <1>2 DEF parser, ParserTypeOK
  <1>3. CASE /\ arg' = [arg EXCEPT !["info"] = 0, !["dump_table"] = 0]
             /\ UNCHANGED <<argv, at, optvalue, parsing, uses>>
    <2>1. "info" \in Flags /\ "dump_table" \in Flags
      BY DEF Flags
    <2>2. /\ arg' \in [Options \cup Flags -> Int]
          /\ \A o \in Flags : arg'[o] \in Nat
          /\ \A o \in Options \ Flags : arg'[o] = arg[o]
      BY <1>3, <2>1 DEF ParserTypeOK
    <2> QED BY <1>3, <2>2 DEF ParserTypeOK
  <1> QED BY <1>1, <1>2, <1>3, ParserSteps

LEMMA ParserTypeAlways == Spec => []ParserTypeOK
  BY ParserTypeInit, ParserTypeStep, PTL DEF Spec

\* Every variable of main() and of its parser keeps its type, whatever the command line
\* is and whatever the SMU answers (main.c:20-75, argparse.c).
THEOREM TypeCorrect == Spec => []TypeOK
  <1>1. MainTypeOK /\ ParserTypeOK => TypeOK
    <2>1. MainTypeOK => tries \in Seq(Message) /\ Len(tries) <= 2
      BY AttemptTypes DEF MainTypeOK
    <2> QED BY <2>1 DEF MainTypeOK, TypeOK, Message
  <1> QED BY <1>1, MainTypeAlways, ParserTypeAlways, PTL

LEMMA HeedInvInit == Init => HeedInv
  BY DEF Init, ParserInit, HeedInv, Checked, Accounted, NotAhead, Reached, Latest, Valued, Taking,
         NoValue

LEMMA HeedInvStep == ParserTypeOK /\ HeedInv /\ [Next]_vars => HeedInv'
  <1> SUFFICES ASSUME ParserTypeOK, HeedInv, [Next]_vars PROVE HeedInv'
    OBVIOUS
  <1>1. CASE Parse
    BY <1>1, HeedStep
  <1>2. ASSUME UNCHANGED <<argv, at, optvalue, parsing, uses>>,
               \A o \in Taking : arg'[o] = arg[o]
        PROVE  HeedInv'
    <2>1. Checked' /\ Accounted' /\ NotAhead'
      BY <1>2 DEF HeedInv, Checked, Accounted, NotAhead, Reached, Valued, Valid, Fits
    <2>2. Latest'
      BY <1>2 DEF HeedInv, Latest, LastOf, Value, Unset
    <2> QED BY <2>1, <2>2 DEF HeedInv
  <1>3. CASE UNCHANGED parser
    BY <1>2, <1>3 DEF parser
  <1>4. CASE /\ arg' = [arg EXCEPT !["info"] = 0, !["dump_table"] = 0]
             /\ UNCHANGED <<argv, at, optvalue, parsing, uses>>
    <2>1. "info" \in Flags /\ "dump_table" \in Flags
      BY DEF Flags
    <2>2. \A o \in Taking : arg'[o] = arg[o]
      BY <1>4, <2>1 DEF ParserTypeOK, Taking
    <2> QED BY <1>2, <1>4, <2>2
  <1> QED BY <1>1, <1>3, <1>4, ParserSteps

LEMMA HeedInvAlways == Spec => []HeedInv
  BY HeedInvInit, HeedInvStep, ParserTypeAlways, PTL DEF Spec

\* A line that is accepted is heeded, whatever words it is made of: those in front of
\* "--" are the ones that options have used, and an option counts as given, with its
\* last value, exactly if that is not UINT32_MAX (main.c:20-31, 60-75, argparse.c:87-458).
THEOREM HeededCorrect == Spec => []Heeded
  BY HeedImplied, HeedInvAlways, ParserTypeAlways, PTL

-----------------------------------------------------------------------------
\* Command lines that give no value to a flag.

LEMMA LineStays == [Next]_vars => argv' = argv
  BY DEF Next, Run, Exited, vars, parser, ParseLine, CheckFlags, OpenFails, Open, InitTable,
         StartSetter, Send, EndSetter, AdjustsDone, DumpTable, InfoTable, Cleanup,
         Parse, ReadLong, ReadShort, ReadCluster, RefuseWord, EndOfOptions, ReadLetter,
         GetValue, Stop

BareInv == FlagsBare(argv) /\ OwnInv /\ FineInv

LEMMA BareStep == ParserTypeOK /\ BareInv /\ [Next]_vars => BareInv'
  <1> SUFFICES ASSUME ParserTypeOK, BareInv, [Next]_vars PROVE BareInv'
    OBVIOUS
  <1>1. FlagsBare(argv)'
    BY LineStays DEF BareInv, FlagsBare
  <1>2. CASE Parse
    BY <1>1, <1>2, OwnStep, FineStep DEF BareInv
  <1>3. CASE UNCHANGED <<argv, at, optvalue, parsing, uses>>
    <2>1. OwnInv'
      BY <1>3 DEF BareInv, OwnInv, Behind, OwnValue, Valued
    <2>2. (\E n \in Nat : Rest(optvalue, n)) => \E n \in Nat : Rest(optvalue, n)'
      BY <1>3 DEF Rest
    <2>3. FineInv'
      BY <1>3, <2>2, FineStays DEF BareInv, FineInv
    <2> QED BY <1>1, <2>1, <2>3 DEF BareInv
  <1> QED BY <1>2, <1>3, ParserSteps DEF parser

LEMMA BareAlways ==
    ASSUME \A start \in Starts : FlagsBare(start.argv)
    PROVE  Spec => []BareInv
  <1>1. Init => BareInv
    BY DEF Init, ParserInit, BareInv, OwnInv, Behind, OwnValue, Valued, FineInv
  <1> QED BY <1>1, BareStep, ParserTypeAlways, PTL DEF Spec

\* The value of an option is its own, on every line that gives no value to a flag; the
\* parser keeps that one for the next option (argparse.h:109, argparse.c:87-290).
THEOREM OwnCorrect ==
    ASSUME \A start \in Starts : FlagsBare(start.argv)
    PROVE  Spec => []OwnValue
  <1>1. BareInv => OwnValue
    BY DEF BareInv, OwnInv
  <1> QED BY <1>1, BareAlways, PTL

\* Only a line that was read to its end, or to "--", gets as far as the library.
Begun ==
    /\ pc \notin {"parse", "exit"} \/ attempted # {} => parsing = "read"
    /\ parsing = "read" => argv # <<>> /\ (at <= Len(argv) => argv[at].kind = "dashes")

\* The parser accepts a line nowhere else.
LEMMA ReadEnds == Parse /\ parsing' = "read" => EndOfOptions
  BY DEF Parse, ReadLong, ReadShort, ReadCluster, RefuseWord, EndOfOptions, ReadLetter,
         GetValue, TakeValue, CountFlag, Store, Continue, Stop

LEMMA BegunStep == Inv /\ Begun /\ [Next]_vars => Begun'
  <1> SUFFICES ASSUME Inv, Begun, [Next]_vars PROVE Begun'
    OBVIOUS
  <1>1. CASE ParseLine
    <2>1. pc = "parse" /\ attempted' = {} /\ Parse
      BY <1>1 DEF ParseLine, history, Inv, Untouched
    <2>2. pc' \notin {"parse", "exit"} => parsing' = "read"
      BY <1>1 DEF ParseLine
    <2>3. CASE parsing' = "read"
      <3>1. /\ UNCHANGED <<argv, at>> /\ argv # <<>>
            /\ at <= Len(argv) => argv[at].kind = "dashes"
        BY <2>1, <2>3, ReadEnds DEF EndOfOptions, Stop
      <3> QED BY <2>3, <3>1 DEF Begun
    <2> QED BY <2>1, <2>2, <2>3 DEF Begun
  <1>2. CASE UNCHANGED vars
    BY <1>2 DEF vars, parser, history, Begun
  <1>3. CASE ~ParseLine /\ ~UNCHANGED vars
    <2>1. UNCHANGED <<argv, at, parsing>> /\ pc \notin {"parse", "exit"}
      BY <1>3 DEF Next, Run, Exited, parser, CheckFlags, OpenFails, Open, InitTable, StartSetter,
                  Send, EndSetter, AdjustsDone, DumpTable, InfoTable, Cleanup
    <2> QED BY <2>1 DEF Begun
  <1> QED BY <1>1, <1>2, <1>3

\* The words in front of "--" are those that were read.
LEMMA FrontRead ==
    ASSUME ParserTypeOK, Begun, parsing = "read", NEW w \in BeforeDashes
    PROVE  w \in 1 .. at - 1
  <1>1. w \in 1 .. Len(argv) /\ at \in Nat \ {0} /\ Len(argv) \in Nat
    BY ArgvDomain DEF BeforeDashes, ParserTypeOK
  <1>2. CASE w < at
    BY <1>1, <1>2
  <1>3. CASE ~(w < at)
    <2>1. at \in 1 .. w /\ at \in DOMAIN argv /\ at <= Len(argv)
      BY <1>1, <1>3, ArgvDomain
    <2>2. argv[at].kind = "dashes" /\ argv[at] \in AnyWord
      BY <2>1, ElementOfSeq DEF Begun, ParserTypeOK
    <2>3. argv[at] = Dashes
      <3> DEFINE T == AnyText
      <3> HIDE DEF T
      <3> QED BY <2>2 DEF AnyWord, Dashes
    <2> QED BY <2>1, <2>3 DEF BeforeDashes
  <1> QED BY <1>2, <1>3

\* Nothing is opened and no setter called for a line with a word in front of "--" that
\* the usage does not allow, however long it is and wherever that word stands, on lines
\* that give no value to a flag (argparse.c:87-458, main.c:327-356).
THEOREM BadLineCorrect ==
    ASSUME \A start \in Starts : FlagsBare(start.argv)
    PROVE  Spec => []NothingOnBadLine
  <1>1. Init => Begun
    BY DEF Init, ParserInit, Begun
  <1>2. ASSUME ParserTypeOK, Inv, BareInv, Begun PROVE NothingOnBadLine
    <2> SUFFICES ASSUME handle \/ attempted # {}
                 PROVE  argv # <<>> /\ \A w \in BeforeDashes : Fine(w)
      BY DEF NothingOnBadLine
    <2>1. parsing = "read" /\ argv # <<>>
      BY <1>2 DEF Inv, Untouched, Settled, Begun
    <2> QED BY <1>2, <2>1, FrontRead DEF BareInv, FineInv
  <1> QED BY <1>1, <1>2, BegunStep, BareAlways, InvAlways, ParserTypeAlways, PTL DEF Spec

=============================================================================

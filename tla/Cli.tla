-------------------------------- MODULE Cli --------------------------------
(***************************************************************************)
(* One run of the ryzenadj program, main.c, from its command line to the   *)
(* exit code, with the setters of lib/api.c that it calls.  Every SMU      *)
(* request is a step with any of the responses that smu_service_req() can  *)
(* return; the values that are set do not matter here.                     *)
(***************************************************************************)
EXTENDS ArgParse

CONSTANT Starts     \* bound: the machines and command lines of the runs

\* Mutant: overclocking is enabled after the clocks are set.
Order_ClocksFirst == <<
    "stapm_limit", "fast_limit", "slow_limit", "slow_time", "stapm_time", "tctl_temp",
    "vrm_current", "vrmsoc_current", "vrmgfx_current", "vrmcvip_current",
    "vrmmax_current", "vrmsocmax_current", "vrmgfxmax_current", "psi0_current",
    "psi3cpu_current", "psi0soc_current", "psi3gfx_current",
    "max_socclk_freq", "min_socclk_freq", "max_fclk_freq", "min_fclk_freq",
    "max_vcn", "min_vcn", "max_lclk", "min_lclk", "max_gfxclk_freq", "min_gfxclk_freq",
    "prochot_deassertion_ramp", "apu_skin_temp_limit", "dgpu_skin_temp_limit",
    "apu_slow_limit", "skin_temp_power_limit", "gfx_clk",
    "oc_clk", "oc_volt", "enable_oc", "disable_oc", "power_saving", "max_performance",
    "coall", "coper", "cogfx">>

\* The order in which main() applies the options.
Order == <<
    "stapm_limit", "fast_limit", "slow_limit", "slow_time", "stapm_time", "tctl_temp",
    "vrm_current", "vrmsoc_current", "vrmgfx_current", "vrmcvip_current",
    "vrmmax_current", "vrmsocmax_current", "vrmgfxmax_current", "psi0_current",
    "psi3cpu_current", "psi0soc_current", "psi3gfx_current",
    "max_socclk_freq", "min_socclk_freq", "max_fclk_freq", "min_fclk_freq",
    "max_vcn", "min_vcn", "max_lclk", "min_lclk", "max_gfxclk_freq", "min_gfxclk_freq",
    "prochot_deassertion_ramp", "apu_skin_temp_limit", "dgpu_skin_temp_limit",
    "apu_slow_limit", "skin_temp_power_limit", "gfx_clk",
    "enable_oc", "oc_clk", "oc_volt", "disable_oc", "power_saving", "max_performance",
    "coall", "coper", "cogfx">>

ASSUME OrderAssumption ==
    /\ {Order[k] : k \in DOMAIN Order} = Options
    /\ \A j, k \in DOMAIN Order : Order[j] = Order[k] => j = k

Conflicts == {{"power_saving", "max_performance"}, {"enable_oc", "disable_oc"}}
NeedsOc == {"oc_clk", "oc_volt"}

Responses == {"OK", "Timeout", "UnknownCmd", "Rejected"}
AdjustErrors == {"none", "FAM_UNSUPPORTED", "SMU_TIMEOUT", "SMU_UNSUPPORTED",
                 "SMU_REJECTED"}

ASSUME StartsAssumption ==
    \A start \in Starts :
        start.family \in Families \cup {"UNKNOWN"} /\ start.argv \in Seq(AnyWord)

VARIABLES
    family,                 \* the machine
    pc, step,               \* where main() is, and in the order of the options
    tries, adjerr,          \* in a setter: messages left to try, its result
    err, any_adjust_applied,
    handle,                 \* is the library open?
    values,                 \* *table_values: "none", or read "before" or "after"
                            \* the adjustments
    dumped, shown,          \* what the dump and the info table printed
    oc,                     \* the SMU: is overclocking enabled?
    attempted, accepted     \* history: options whose setter was called; that the
                            \* SMU answered with OK

setter == <<tries, adjerr>>
output == <<dumped, shown>>
history == <<attempted, accepted>>
vars == <<family, parser, pc, step, setter, err, any_adjust_applied,
          handle, values, output, oc, history>>

Init ==
    /\ \E start \in Starts : family = start.family /\ ParserInit({start.argv})
    /\ pc = "parse" /\ step = 1
    /\ tries = <<>> /\ adjerr = "none"
    /\ err = 0 /\ any_adjust_applied = FALSE
    /\ handle = FALSE /\ values = "none"
    /\ dumped = <<>> /\ shown = "none"
    /\ oc \in BOOLEAN
    /\ attempted = {} /\ accepted = {}

-----------------------------------------------------------------------------
\* argparse_parse() exits by itself when the line is refused or asks for help.
ParseLine ==
    /\ pc = "parse" /\ Parse
    /\ pc' = CASE parsing' = "read" -> "flags"
              [] parsing' \in {"refused", "help"} -> "exit"
              [] OTHER -> "parse"
    /\ err' = IF parsing' = "refused" THEN 1 ELSE err
    /\ UNCHANGED <<family, step, setter, any_adjust_applied, handle, values, output, oc,
                   history>>

\* Contradicting options are refused before anything is touched.
CheckFlags ==
    /\ pc = "flags"
    /\ IF \E c \in Conflicts : c \subseteq given
         THEN pc' = "exit" /\ err' = -1
         ELSE pc' = "open" /\ UNCHANGED err
    /\ UNCHANGED <<family, parser, step, setter, any_adjust_applied,
                   handle, values, output, oc, history>>

\* init_ryzenadj(): unknown family, no backend or an SMU that fails the test.
OpenFails ==
    /\ pc = "open"
    /\ pc' = "exit" /\ err' = -1
    /\ UNCHANGED <<family, parser, step, setter, any_adjust_applied,
                   handle, values, output, oc, history>>

Open ==
    /\ pc = "open" /\ family \in Families
    /\ handle' = TRUE
    /\ pc' = "table"
    /\ UNCHANGED <<family, parser, step, setter, err,
                   any_adjust_applied, values, output, oc, history>>

\* The table is read before the adjustments, if it is going to be shown; without
\* it nothing is shown, but the adjustments go on.
InitTable ==
    /\ pc = "table"
    /\ \/ ~(info \/ dump_table) /\ UNCHANGED <<arg, values>>
       \/ /\ info \/ dump_table
          /\ family \in HasTable
          /\ values' = "before" /\ UNCHANGED arg
       \/ /\ info \/ dump_table
          /\ arg' = [arg EXCEPT !["info"] = 0, !["dump_table"] = 0] /\ UNCHANGED values
    /\ pc' = "adjust"
    /\ UNCHANGED <<family, argv, at, optvalue, parsing, uses, step, setter, err,
                   any_adjust_applied, handle, output, oc, history>>

-----------------------------------------------------------------------------
Option == Order[step]

\* No option from this place in the order on, and before place k, was given.
NoneBefore(k) == \A j \in step .. k - 1 : Order[j] \notin given

\* The setter of the next option that was given is called.
StartSetter ==
    /\ pc = "adjust"
    /\ step' \in step .. Len(Order)
    /\ Option' \in given /\ NoneBefore(step')
    /\ tries' = Messages(Option', family)
    /\ adjerr' = "FAM_UNSUPPORTED"
    /\ attempted' = attempted \cup {Option'}
    /\ pc' = "setter"
    /\ UNCHANGED <<family, parser, err, any_adjust_applied,
                   handle, values, output, oc, accepted>>

\* Mutant: the response of the SMU is returned as if it were an error code.
AdjustError_Raw(resp) == IF resp = "OK" THEN "none" ELSE resp

\* _do_adjust / _do_adjust_psmu: the error that a response becomes.
AdjustError(resp) ==
    CASE resp = "OK" -> "none"
      [] resp = "Timeout" -> "SMU_TIMEOUT"
      [] resp = "UnknownCmd" -> "SMU_UNSUPPORTED"
      [] OTHER -> "SMU_REJECTED"

\* What the option does to overclocking when the SMU carries it out.
OcAfter(o) == CASE o = "enable_oc" -> TRUE [] o = "disable_oc" -> FALSE [] OTHER -> oc

\* A message of the setter is sent; any error leads to the next one, if there is
\* one.  A request that timed out may have been carried out all the same.
Send(resp) ==
    /\ pc = "setter" /\ tries # <<>>
    /\ (Option \in NeedsOc /\ resp = "OK") => oc
    /\ adjerr' = AdjustError(resp)
    /\ tries' = IF resp = "OK" THEN <<>> ELSE Tail(tries)
    /\ accepted' = IF resp = "OK" THEN accepted \cup {Option} ELSE accepted
    /\ oc' \in CASE resp = "OK" -> {OcAfter(Option)}
                 [] resp = "Timeout" -> {oc, OcAfter(Option)}
                 [] OTHER -> {oc}
    /\ UNCHANGED <<family, parser, pc, step, err, any_adjust_applied,
                   handle, values, output, attempted>>

\* Mutant: a setting that succeeds hides the failure of an earlier one.
EndSetter_LastWins ==
    /\ pc = "setter" /\ tries = <<>>
    /\ IF adjerr = "none"
         THEN any_adjust_applied' = TRUE /\ err' = 0
         ELSE err' = -1 /\ UNCHANGED any_adjust_applied
    /\ step' = step + 1
    /\ pc' = "adjust"
    /\ UNCHANGED <<family, parser, setter, handle, values, output, oc,
                   history>>

\* Mutant: a failed setting is tried until it succeeds.
EndSetter_Insists ==
    /\ pc = "setter" /\ tries = <<>>
    /\ IF adjerr = "none"
         THEN any_adjust_applied' = TRUE /\ step' = step + 1
         ELSE UNCHANGED <<any_adjust_applied, step>>
    /\ pc' = "adjust"
    /\ UNCHANGED <<family, parser, setter, handle, values, output, oc,
                   history, err>>

\* One failed option makes the run fail, and the others are still applied.
EndSetter ==
    /\ pc = "setter" /\ tries = <<>>
    /\ IF adjerr = "none"
         THEN any_adjust_applied' = TRUE /\ UNCHANGED err
         ELSE err' = -1 /\ UNCHANGED any_adjust_applied
    /\ step' = step + 1
    /\ pc' = "adjust"
    /\ UNCHANGED <<family, parser, setter, handle, values, output, oc,
                   history>>

AdjustsDone ==
    /\ pc = "adjust" /\ NoneBefore(Len(Order) + 1)
    /\ pc' = IF err = 0 THEN "dump" ELSE "cleanup"
    /\ UNCHANGED <<family, parser, step, setter, err,
                   any_adjust_applied, handle, values, output, oc, history>>

-----------------------------------------------------------------------------
\* Mutant: the table is refreshed before its first column is copied.
DumpTable_RefreshedFirst ==
    /\ pc = "dump"
    /\ IF ~dump_table THEN UNCHANGED <<values, dumped>>
       ELSE /\ values' \in {values, "after"}
            /\ dumped' = <<values', values'>>
    /\ pc' = "info"
    /\ UNCHANGED <<family, parser, step, setter, err,
                   any_adjust_applied, handle, shown, oc, history>>

\* show_table_dump(): a copy of the values that are there, and next to it, when
\* something was applied, the refreshed ones (or the same, if that fails).
\* Without memory nothing is printed.
DumpTable ==
    /\ pc = "dump"
    /\ \/ UNCHANGED <<values, dumped>>
       \/ /\ dump_table /\ ~any_adjust_applied
          /\ dumped' = <<values>> /\ UNCHANGED values
       \/ /\ dump_table /\ any_adjust_applied
          /\ values' \in {values, "after"}
          /\ dumped' = <<values, values'>>
    /\ pc' = "info"
    /\ UNCHANGED <<family, parser, step, setter, err,
                   any_adjust_applied, handle, shown, oc, history>>

\* show_info_table(): nothing is printed when the refresh fails.
InfoTable ==
    /\ pc = "info"
    /\ \/ info /\ values' = "after" /\ shown' = values'
       \/ UNCHANGED <<values, shown>>
    /\ pc' = "cleanup"
    /\ UNCHANGED <<family, parser, step, setter, err,
                   any_adjust_applied, handle, dumped, oc, history>>

Cleanup ==
    /\ pc = "cleanup"
    /\ handle' = FALSE /\ values' = "none"
    /\ pc' = "exit"
    /\ UNCHANGED <<family, parser, step, setter, err,
                   any_adjust_applied, output, oc, history>>

Run ==
    \/ ParseLine \/ CheckFlags \/ OpenFails \/ Open \/ InitTable
    \/ StartSetter \/ (\E resp \in Responses : Send(resp)) \/ EndSetter \/ AdjustsDone
    \/ DumpTable \/ InfoTable \/ Cleanup

Exited == pc = "exit" /\ UNCHANGED vars

Next == Run \/ Exited

Spec == Init /\ [][Next]_vars

\* The program is sequential and every request it makes returns (SmuMailbox).
FairSpec == Spec /\ WF_vars(Run)

-----------------------------------------------------------------------------
\* The type of every variable.
TypeOK ==
    /\ family \in Families \cup {"UNKNOWN"}
    /\ ParserTypeOK
    /\ pc \in {"parse", "flags", "open", "table", "adjust", "setter", "dump", "info", "cleanup",
               "exit"}
    /\ step \in 1 .. Len(Order) + 1
    /\ tries \in Seq([mailbox : {"MP1", "PSMU"}, id : Nat]) /\ Len(tries) <= 2
    /\ adjerr \in AdjustErrors
    /\ err \in {0, -1, 1} /\ any_adjust_applied \in BOOLEAN
    /\ handle \in BOOLEAN /\ values \in {"none", "before", "after"}
    /\ dumped \in Seq({"none", "before", "after"}) /\ Len(dumped) <= 2
    /\ shown \in {"none", "after"}
    /\ oc \in BOOLEAN
    /\ attempted \subseteq Options /\ accepted \subseteq Options

\* The exit code tells the truth about every option: once the library was open all
\* of them are attempted, whatever failed before them, and 0 means that the SMU
\* accepted each one; tables are printed only then (main.c:349-430).
ExitTellsAll ==
    /\ pc = "cleanup" => attempted = given /\ (err = 0 <=> accepted = given)
    /\ pc = "exit" => ~handle /\ (err = 0 /\ parsing = "read" => accepted = given)
    /\ (dumped # <<>> \/ shown # "none") => accepted = given

\* Nothing is touched for a bad line: where the library is open or a setter was called,
\* every word in front of "--" is one that the usage allows, with no value missing, no
\* number that strtoul() would wrap around or cut off, and no option that does not
\* exist, so that no SMU sees even the options in front of a bad word (argparse.c:87-458).
NothingOnBadLine ==
    handle \/ attempted # {} => argv # <<>> /\ \A w \in BeforeDashes : Fine(w)

\* "show table dump before anybody did call table refresh": the first column of
\* the dump holds the values from before the adjustments (main.c:418).
DumpShowsBefore == dumped # <<>> => dumped[1] = "before"

\* "OC mode has to be on before the SMU accepts OC clock/voltage": when the SMU
\* has enabled it for this run, it is on for every OC setting (main.c:406-410).
OcBeforeClocks ==
    (pc = "setter" /\ Option \in NeedsOc /\ "enable_oc" \in given)
        => "enable_oc" \in attempted /\ ("enable_oc" \in accepted => oc)

\* On one family a message has one meaning: what a setter sends is never what
\* another setter, or the library for itself, sends (api.c:82-300, 519-1552).
OneMeaning ==
    (pc = "setter" /\ tries # <<>>) => Senders(Head(tries), family) = {Option}

\* A run ends, with the library closed.
Exits == <>(pc = "exit" /\ ~handle)

=============================================================================

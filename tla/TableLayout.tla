---------------------------- MODULE TableLayout ----------------------------
(***************************************************************************)
(* Where the getters of lib/api.c find their values: for each table        *)
(* version the size of the table and the byte that each getter reads.  All *)
(* numbers are those of the source.                                        *)
(*                                                                         *)
(* A field is <<getter without "get_", versions, byte>>, one for each      *)
(* group of case labels of the getter.                                     *)
(***************************************************************************)
EXTENDS Integers

\* The versions of one APU generation.
V1E == {\h1E0001, \h1E0002, \h1E0003, \h1E0004, \h1E0005, \h1E000A, \h1E0101}
V37 == \h370000 .. \h370005
V3F == {\h3F0000}
V40 == \h400001 .. \h400005
V45 == {\h450004, \h450005}
V4C == \h4C0006 .. \h4C0009
V5D == {\h5D0008, \h5D0009, \h5D000B}
V64 == {\h64020C}
V65 == {\h650005}

\* The groups that only some getters distinguish.
V1ELate == {\h1E0004, \h1E0005, \h1E000A, \h1E0101}
V37Early == \h370000 .. \h370004
V37Last == {\h370005}
V40Late == {\h400004, \h400005}

\* Versions that some getter knows but request_table_ver_and_size() does not.
Unsized == V65

\* The versions of the switch in request_table_ver_and_size().
SizedVersions ==
    V1E \cup V37 \cup V3F \cup V40 \cup V45 \cup {\h4C0003, \h4C0004, \h4C0005} \cup V4C
    \cup V5D \cup V64

\* Mutant: two digits of a size changed places.
SizeByVersion_Mistyped(v) ==
    CASE v \in V37 \cup V3F -> \h8C8
      [] v = \h400001 -> \h910
      [] v = \h400002 -> \h928
      [] v = \h400003 -> \h94C
      [] v \in V40Late -> \h494
      [] OTHER -> \hD54

\* The size that the switch gives to each of them.
SizeByVersion(v) ==
    CASE v = \h1E0001 -> \h568
      [] v = \h1E0002 -> \h580
      [] v = \h1E0003 -> \h578
      [] v \in V1ELate -> \h608
      [] v = \h370000 -> \h794
      [] v = \h370001 -> \h884
      [] v = \h370002 -> \h88C
      [] v \in {\h370003, \h370004} -> \h8AC
      [] v = \h370005 -> \h8C8
      [] v \in V3F -> \h7AC
      [] v = \h400001 -> \h910
      [] v = \h400002 -> \h928
      [] v = \h400003 -> \h94C
      [] v \in V40Late -> \h944
      [] v = \h450004 -> \hAA4
      [] v = \h450005 -> \hAB0
      [] v = \h4C0003 -> \hB18
      [] v = \h4C0004 -> \hB1C
      [] v = \h4C0005 -> \hAF8
      [] v = \h4C0006 -> \hAFC
      [] v = \h4C0008 -> \hAF0
      [] v \in {\h4C0007, \h4C0009} -> \hB00
      [] v \in V5D -> \hD54
      [] OTHER -> \hE50               \* V64

VersionSizes == [v \in SizedVersions |-> SizeByVersion(v)]

-----------------------------------------------------------------------------
\* "offset of first lines are stable across multiple PM Table versions"
StableFields(versions) ==
    { <<"stapm_limit", versions, 0>>, <<"stapm_value", versions, 4>>,
      <<"fast_limit", versions, 8>>,  <<"fast_value", versions, \hC>>,
      <<"slow_limit", versions, \h10>>, <<"slow_value", versions, \h14>> }

ApuSlowFields ==
    { <<"apu_slow_limit",
        V37 \cup V3F \cup V40 \cup V45 \cup V4C \cup V5D \cup V64 \cup V65, \h18>>,
      <<"apu_slow_value",
        V37 \cup V3F \cup V40 \cup V45 \cup {\h4C0006, \h4C0009}
            \cup V5D \cup V64 \cup V65, \h1C>> }

VrmVersions == V37 \cup V40 \cup V45 \cup V4C

\* Mutant: the limit and the value of one getter changed places.
VrmFields_Swapped ==
    { <<"vrm_current", V1E, \h18>>,              <<"vrm_current_value", V1E, \h1C>>,
      <<"vrm_current", VrmVersions, \h24>>,      <<"vrm_current_value", VrmVersions, \h20>> }

VrmFields ==
    { <<"vrm_current", V1E, \h18>>,              <<"vrm_current_value", V1E, \h1C>>,
      <<"vrm_current", VrmVersions, \h20>>,      <<"vrm_current_value", VrmVersions, \h24>>,
      <<"vrm_current", V5D \cup V65, \h30>>,     <<"vrm_current_value", V5D \cup V65, \h34>> }

VrmSocFields ==
    { <<"vrmsoc_current", V1E, \h20>>,           <<"vrmsoc_current_value", V1E, \h24>>,
      <<"vrmsoc_current", VrmVersions, \h28>>,   <<"vrmsoc_current_value", VrmVersions, \h2C>>,
      <<"vrmsoc_current", V5D \cup V65, \h38>>,  <<"vrmsoc_current_value", V5D \cup V65, \h3C>> }

\* Strix Point: "this is vrm_current".
VrmMaxFields ==
    { <<"vrmmax_current", V1E, \h28>>,           <<"vrmmax_current_value", V1E, \h2C>>,
      <<"vrmmax_current", VrmVersions, \h30>>,   <<"vrmmax_current_value", VrmVersions, \h34>>,
      <<"vrmmax_current", V5D, \h30>>,           <<"vrmmax_current_value", V5D, \h34>> }

\* Strix Point: "this is vrmsoc_current".
VrmSocMaxFields ==
    { <<"vrmsocmax_current", V1E, \h34>>,        <<"vrmsocmax_current_value", V1E, \h38>>,
      <<"vrmsocmax_current", VrmVersions, \h38>>,
      <<"vrmsocmax_current_value", VrmVersions, \h3C>>,
      <<"vrmsocmax_current", V5D, \h38>>,        <<"vrmsocmax_current_value", V5D, \h3C>> }

TctlVersions == V37 \cup V3F \cup V40 \cup V45 \cup V4C \cup V5D \cup V65

TctlFields ==
    { <<"tctl_temp", V1E \cup V64, \h58>>,       <<"tctl_temp_value", V1E \cup V64, \h5C>>,
      <<"tctl_temp", TctlVersions, \h40>>,       <<"tctl_temp_value", TctlVersions, \h44>> }

ApuSkinFields ==
    LET versions == V37 \cup V3F \cup V40 \cup V45 \cup V4C \cup V5D \cup V64
    IN  { <<"apu_skin_temp_limit", versions, \h58>>, <<"apu_skin_temp_value", versions, \h5C>> }

DgpuSkinFields ==
    LET versions == V37 \cup V40 \cup V45 \cup V4C \cup V64
    IN  { <<"dgpu_skin_temp_limit", versions, \h60>>, <<"dgpu_skin_temp_value", versions, \h64>>,
          <<"dgpu_skin_temp_limit", V5D, \h68>>,      <<"dgpu_skin_temp_value", V5D, \h6C>> }

PsiFields ==
    LET versions == V37 \cup V40 \cup V4C
    IN  { <<"psi0_current", V1E, \h40>>,    <<"psi0_current", versions, \h78>>,
          <<"psi0soc_current", V1E, \h48>>, <<"psi0soc_current", versions, \h80>> }

CclkFields ==
    { <<"cclk_setpoint", V1E, \h98>>,       <<"cclk_busy_value", V1E, \h9C>>,
      <<"cclk_setpoint", V37, \hFC>>,       <<"cclk_busy_value", V37, \h100>>,
      <<"cclk_setpoint", V40, \h100>>,      <<"cclk_busy_value", V40, \h104>>,
      <<"cclk_setpoint", V5D, \hD0>>,       <<"cclk_busy_value", V5D, \hCC>> }

TimeFields ==
    LET at(versions, byte) == { <<"stapm_time", versions, byte>>, <<"slow_time", versions, byte + 4>> }
    IN  at({\h1E0002}, \h564) \cup at({\h1E0003}, \h55C) \cup at(V1ELate, \h5E0)
        \cup at({\h370000}, \h768) \cup at({\h370001}, \h858) \cup at({\h370002}, \h860)
        \cup at({\h370003, \h370004}, \h880) \cup at(V37Last, \h89C)
        \cup at({\h400001}, \h8E4) \cup at({\h400002}, \h8FC) \cup at({\h400003}, \h920)
        \cup at(V40Late \cup V4C, \h918) \cup at(V5D, \h9BC) \cup at(V65, \h90C)

-----------------------------------------------------------------------------
\* Getters with a core number: the byte of core 0, and the core numbers they take.
CorePowerFields ==
    { <<"core_power", V37Early, \h300>>, <<"core_power", V37Last, \h31C>>,
      <<"core_power", V3F, \h238>>, <<"core_power", {\h400001}, \h304>>,
      <<"core_power", V40Late, \h320>>, <<"core_power", V5D, \h9D8>>,
      <<"core_power", V64, \hB90>> }

CoreVoltFields ==
    { <<"core_volt", V37Early, \h320>>, <<"core_volt", V37Last, \h33C>>,
      <<"core_volt", V3F, \h248>>, <<"core_volt", V40Late, \h340>>,
      <<"core_volt", V5D, \hA08>>, <<"core_volt", V64, \hBD0>> }

CoreTempFields ==
    { <<"core_temp", V37Early, \h340>>, <<"core_temp", V37Last, \h35C>>,
      <<"core_temp", V3F, \h258>>, <<"core_temp", V40Late, \h360>>,
      <<"core_temp", V5D, \hA38>>, <<"core_temp", V64, \hC10>> }

CoreClkFields ==
    { <<"core_clk", V37Early, \h3A0>>, <<"core_clk", V37Last, \h3BC>>,
      <<"core_clk", V3F, \h288>>, <<"core_clk", V40Late, \h3C0>>,
      <<"core_clk", V5D, \hA68>>, <<"core_clk", V64, \hC50>> }

Cores(ver) == IF ver \in V3F THEN 0 .. 3 ELSE 0 .. 15

-----------------------------------------------------------------------------
\* Four getters read the L3, at a distance of their own for each layout.
L3Fields ==
    LET at(versions, logic, vddm, temp, clk) ==
            { <<"l3_logic", versions, logic>>, <<"l3_vddm", versions, vddm>>,
              <<"l3_temp", versions, temp>>, <<"l3_clk", versions, clk>> }
    IN  at(V37Early, \h540, \h548, \h550, \h568)
        \cup at(V37Last, \h55C, \h564, \h56C, \h584)
        \cup at(V3F, \h348, \h34C, \h350, \h35C)
        \cup at(V40Late, \h600, \h604, \h608, \h614)

GfxFields ==
    LET at(versions, volt, temp, clk) ==
            { <<"gfx_volt", versions, volt>>, <<"gfx_temp", versions, temp>>,
              <<"gfx_clk", versions, clk>> }
    IN  at(V37Early, \h5A8, \h5AC, \h5B4) \cup at(V37Last, \h5C4, \h5C8, \h5D0)
        \cup at({\h400001}, \h600, \h604, \h60C) \cup at({\h400002}, \h618, \h61C, \h624)
        \cup at({\h400003}, \h638, \h63C, \h644) \cup at(V40Late, \h63C, \h640, \h648)
        \cup at(V3F, \h37C, \h380, \h388) \cup at(V5D, \h4B8, \h4C8, \h4C0)
        \cup at(V64, \h54C, \h550, \h558)

ClockFields ==
    { <<"fclk", V37Early, \h5CC>>, <<"mem_clk", V37Early, \h5D4>>,
      <<"fclk", V37Last, \h5E8>>,  <<"mem_clk", V37Last, \h5F0>>,
      <<"fclk", V3F, \h3C5>>,      <<"mem_clk", V3F, \h3C4>>,
      <<"fclk", V40Late, \h664>>,  <<"mem_clk", V40Late, \h66C>>,
      <<"fclk", V5D, \h4E0>>,      <<"mem_clk", V5D, \h4EC>> }

\* Mutant: soc_power is given the word of soc_volt.
SocFields_Copied ==
    { <<"soc_volt", V37, \h198>>,     <<"soc_power", V37, \h1A0>>,
      <<"soc_volt", V3F, \h1A0>>,     <<"soc_power", V3F, \h1A0>>,
      <<"socket_power", V37 \cup V40, \h98>> }

SocFields ==
    { <<"soc_volt", V37, \h198>>,     <<"soc_power", V37, \h1A0>>,
      <<"soc_volt", V3F, \h1A0>>,     <<"soc_power", V3F, \h1A8>>,
      <<"soc_volt", V40Late, \h19C>>, <<"soc_power", V40Late, \h1A4>>,
      <<"socket_power", V37 \cup V40, \h98>>, <<"socket_power", V3F, \hA8>>,
      <<"socket_power", V5D, \hD0>> }

=============================================================================

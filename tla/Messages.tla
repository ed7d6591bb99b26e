------------------------------ MODULE Messages ------------------------------
(***************************************************************************)
(* Which SMU messages each operation of lib/api.c sends, by CPU family: a  *)
(* table from family to the messages tried in order, the second one only   *)
(* when the first fails.  A family that is not in the table is unsupported.*)
(***************************************************************************)
EXTENDS Naturals, Sequences

Zen1 == {"RAVEN", "PICASSO", "DALI"}
Renoirs == {"RENOIR", "LUCIENNE", "CEZANNE"}
Phoenixes == {"PHOENIX", "HAWKPOINT"}
Strixes == {"KRACKANPOINT", "STRIXPOINT", "STRIXHALO"}
Desktop == {"DRAGONRANGE", "FIRERANGE"}
Newer == {"VANGOGH", "REMBRANDT", "MENDOCINO"} \cup Phoenixes \cup Strixes
Mobile == Renoirs \cup Newer
Families == Zen1 \cup Mobile \cup Desktop

Mp1(id) == [mailbox |-> "MP1", id |-> id]
Psmu(id) == [mailbox |-> "PSMU", id |-> id]

\* Two cases of a switch; the first one that applies is taken.
s ++ t == [f \in DOMAIN s \cup DOMAIN t |-> IF f \in DOMAIN s THEN s[f] ELSE t[f]]

\* One case of a switch over the family.
On(families, messages) == [f \in families |-> messages]
Sends(families, message) == On(families, <<message>>)

\* Power limits, time constants and temperature
set_stapm_limit == Sends(Zen1, Mp1(\h1a))
    ++ On(Mobile, <<Mp1(\h14), Psmu(\h31)>>) ++ Sends(Desktop, Mp1(\h4f))
set_fast_limit == Sends(Zen1, Mp1(\h1b)) ++ Sends(Mobile, Mp1(\h15))
    ++ Sends(Desktop, Mp1(\h3e))
set_slow_limit == Sends(Zen1, Mp1(\h1c)) ++ Sends(Mobile, Mp1(\h16))
    ++ Sends(Desktop, Mp1(\h5f))
set_slow_time == Sends(Zen1, Mp1(\h1d)) ++ Sends(Mobile, Mp1(\h17))
    ++ Sends(Desktop, Mp1(\h60))
set_stapm_time == Sends(Zen1, Mp1(\h1e)) ++ Sends(Mobile, Mp1(\h18))
    ++ Sends(Desktop, Mp1(\h4e))
set_tctl_temp == Sends(Zen1, Mp1(\h1f)) ++ Sends(Mobile, Mp1(\h19))
    ++ Sends(Desktop, Mp1(\h3f))
set_prochot_deassertion_ramp == Sends(Zen1, Mp1(\h26)) ++ Sends(Renoirs, Mp1(\h20))
    ++ Sends({"VANGOGH"}, Mp1(\h22)) ++ Sends(Newer \ {"VANGOGH"}, Mp1(\h1f))
set_apu_skin_temp_limit == Sends(Renoirs, Mp1(\h38)) ++ Sends(Newer \ Strixes, Mp1(\h33))
set_dgpu_skin_temp_limit == Sends(Renoirs, Mp1(\h39))
    ++ Sends(Newer \ {"KRACKANPOINT", "STRIXHALO"}, Mp1(\h34))
set_apu_slow_limit == Sends(Renoirs, Mp1(\h21))
    ++ Sends(Newer \ {"VANGOGH", "MENDOCINO"}, Mp1(\h23))
set_skin_temp_power_limit == Sends(Renoirs, Mp1(\h53)) ++ Sends(Newer, Mp1(\h4a))

\* Current limits
set_vrm_current == Sends(Zen1, Mp1(\h20)) ++ Sends(Mobile, Mp1(\h1a))
    ++ Sends(Desktop, Mp1(\h3c))
set_vrmsoc_current == Sends(Zen1, Mp1(\h21)) ++ Sends(Mobile, Mp1(\h1b))
set_vrmgfx_current == Sends({"VANGOGH"}, Mp1(\h1c))
set_vrmcvip_current == Sends({"VANGOGH"}, Mp1(\h1d))
set_vrmmax_current == Sends(Zen1, Mp1(\h22)) ++ Sends({"VANGOGH"}, Mp1(\h1e))
    ++ Sends(Mobile \ {"VANGOGH"}, Mp1(\h1c))
set_vrmgfxmax_current == Sends({"VANGOGH"}, Mp1(\h1f))
set_vrmsocmax_current == Sends(Zen1, Mp1(\h23)) ++ Sends(Mobile \ {"VANGOGH"}, Mp1(\h1d))
set_psi0_current == Sends(Zen1, Mp1(\h24)) ++ Sends(Renoirs, Mp1(\h1e))
set_psi3cpu_current == Sends({"VANGOGH"}, Mp1(\h20))
\* Mutant: the message of the line above, which is that of set_psi0_current.
set_psi0soc_current_Copied == Sends(Zen1, Mp1(\h25)) ++ Sends(Renoirs, Mp1(\h1e))

set_psi0soc_current == Sends(Zen1, Mp1(\h25)) ++ Sends(Renoirs, Mp1(\h1f))
set_psi3gfx_current == Sends({"VANGOGH"}, Mp1(\h21))

\* Clocks
set_max_gfxclk_freq == Sends(Zen1 \cup {"LUCIENNE"}, Mp1(\h46))
set_min_gfxclk_freq == Sends(Zen1 \cup {"LUCIENNE"}, Mp1(\h47))
set_max_socclk_freq == Sends(Zen1, Mp1(\h48))
set_min_socclk_freq == Sends(Zen1, Mp1(\h49))
set_max_fclk_freq == Sends(Zen1, Mp1(\h4a))
set_min_fclk_freq == Sends(Zen1, Mp1(\h4b))
set_max_vcn == Sends(Zen1, Mp1(\h4c))
set_min_vcn == Sends(Zen1, Mp1(\h4d))
set_max_lclk == Sends(Zen1, Mp1(\h4e))
set_min_lclk == Sends(Zen1, Mp1(\h4f))
set_gfx_clk == Sends(Mobile, Psmu(\h89))

\* Profiles, overclocking and the Curve Optimiser
set_power_saving == Sends(Zen1, Mp1(\h19)) ++ Sends(Mobile, Mp1(\h12))
set_max_performance == Sends(Zen1, Mp1(\h18)) ++ Sends(Mobile, Mp1(\h11))
set_oc_clk == On(Renoirs \cup {"REMBRANDT"}, <<Mp1(\h31), Psmu(\h19)>>)
set_per_core_oc_clk == On(Renoirs \cup {"REMBRANDT"}, <<Mp1(\h32), Psmu(\h1a)>>)
set_oc_volt == On(Renoirs, <<Mp1(\h33), Psmu(\h1b)>>)
set_disable_oc == On(Renoirs, <<Mp1(\h30), Psmu(\h1d)>>)
    ++ Sends({"REMBRANDT"}, Psmu(\h18))
set_enable_oc == Sends(Renoirs, Mp1(\h2f)) ++ Sends({"REMBRANDT"}, Psmu(\h17))
set_coall == Sends(Renoirs, Mp1(\h55)) ++ Sends(Newer \ {"MENDOCINO"}, Mp1(\h4c))
    ++ Sends(Desktop, Psmu(\h7))
set_coper == Sends(Renoirs, Mp1(\h54)) ++ Sends(Newer \ {"MENDOCINO"}, Mp1(\h4b))
    ++ Sends(Desktop, Psmu(\h6))
set_cogfx == Sends(Renoirs, Mp1(\h64))
    ++ Sends({"VANGOGH", "REMBRANDT"} \cup Phoenixes, Psmu(\hb7))

\* The requests that the library makes for itself.
HasTable == Families \ ({"VANGOGH", "MENDOCINO"} \cup Desktop)
smu_service_test == On(Families, <<Mp1(\h1), Psmu(\h1)>>)
get_bios_if_ver == Sends(Families, Mp1(\h3))
request_table_ver == Sends(Zen1, Psmu(\hc)) ++ Sends(HasTable \ Zen1, Psmu(\h6))
request_table_addr == Sends(Zen1, Psmu(\hb)) ++ Sends(HasTable \ Zen1, Psmu(\h66))
request_transfer_table == Sends(Zen1, Psmu(\h3d)) ++ Sends(HasTable \ Zen1, Psmu(\h65))

Operations == [
    stapm_limit |-> set_stapm_limit, fast_limit |-> set_fast_limit,
    slow_limit |-> set_slow_limit, slow_time |-> set_slow_time,
    stapm_time |-> set_stapm_time, tctl_temp |-> set_tctl_temp,
    vrm_current |-> set_vrm_current, vrmsoc_current |-> set_vrmsoc_current,
    vrmgfx_current |-> set_vrmgfx_current, vrmcvip_current |-> set_vrmcvip_current,
    vrmmax_current |-> set_vrmmax_current, vrmsocmax_current |-> set_vrmsocmax_current,
    vrmgfxmax_current |-> set_vrmgfxmax_current, psi0_current |-> set_psi0_current,
    psi3cpu_current |-> set_psi3cpu_current, psi0soc_current |-> set_psi0soc_current,
    psi3gfx_current |-> set_psi3gfx_current, max_socclk_freq |-> set_max_socclk_freq,
    min_socclk_freq |-> set_min_socclk_freq, max_fclk_freq |-> set_max_fclk_freq,
    min_fclk_freq |-> set_min_fclk_freq, max_vcn |-> set_max_vcn,
    min_vcn |-> set_min_vcn, max_lclk |-> set_max_lclk, min_lclk |-> set_min_lclk,
    max_gfxclk_freq |-> set_max_gfxclk_freq, min_gfxclk_freq |-> set_min_gfxclk_freq,
    prochot_deassertion_ramp |-> set_prochot_deassertion_ramp,
    apu_skin_temp_limit |-> set_apu_skin_temp_limit,
    dgpu_skin_temp_limit |-> set_dgpu_skin_temp_limit,
    apu_slow_limit |-> set_apu_slow_limit,
    skin_temp_power_limit |-> set_skin_temp_power_limit,
    gfx_clk |-> set_gfx_clk, enable_oc |-> set_enable_oc, oc_clk |-> set_oc_clk,
    per_core_oc_clk |-> set_per_core_oc_clk, oc_volt |-> set_oc_volt,
    disable_oc |-> set_disable_oc, power_saving |-> set_power_saving,
    max_performance |-> set_max_performance, coall |-> set_coall,
    coper |-> set_coper, cogfx |-> set_cogfx,
    test |-> smu_service_test, bios_if_ver |-> get_bios_if_ver,
    table_ver |-> request_table_ver, table_addr |-> request_table_addr,
    transfer_table |-> request_transfer_table]

Messages(o, family) ==
    IF family \in DOMAIN Operations[o] THEN Operations[o][family] ELSE <<>>

\* The operations that may send message m on this family.
Senders(m, family) ==
    {o \in DOMAIN Operations : \E k \in DOMAIN Messages(o, family) :
        Messages(o, family)[k] = m}

=============================================================================

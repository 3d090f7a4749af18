----------------------------- MODULE ToolScripts -----------------------------
(***************************************************************************)
(* What each command of apml_tool does with the library: the calls it      *)
(* makes, in order, the variables each one fills, what it does when one    *)
(* fails and the variables it prints.  Widths and layout of the output are *)
(* left out, and so is the look for the device file with which the two     *)
(* register listings begin: ToolCommandLine's modules stay for a run.      *)
(* ToolOperations runs the scripts.                                        *)
(***************************************************************************)
EXTENDS Integers, Sequences, TableLookup

(* The sockets the tool distinguishes: SB-RMI revision 0x10, 0x20 without   *)
(* and with the MI300A's family and model, 0x21.                            *)
Chips == {"v10", "v20", "mi300", "v21"}

(***************************************************************************)
(* A step: a library call (or none), the variables it fills, the ones then  *)
(* printed if it succeeded, whether the command stops or goes on when it    *)
(* fails, and for which sockets and for which findings of get_proc_type it  *)
(* is there.                                                               *)
(***************************************************************************)
Step(call, fills, shows, fail) ==
  [call |-> call, fills |-> fills, shows |-> shows, fail |-> fail,
   chips |-> Chips, families |-> Chips]

(* Mutant: the print is outside the branch of success. *)
TryAndPrint(call, vs) ==
  << Step(call, vs, {}, "next"), Step("none", {}, vs, "next") >>

(* The call whose failure its caller may yet print something of.            *)
ValidityCheck == "read_ras_df_err_validity_check"

Ask(call, vs) == << Step(call, vs, vs, "stop") >>
Try(call, vs) == << Step(call, vs, vs, "next") >>
Learn(call, vs) == << Step(call, vs, {}, "stop") >>
Do(call) == << Step(call, {}, {}, "stop") >>
Assign(vs) == << Step("none", vs, {}, "next") >>
Show(vs) == << Step("none", {}, vs, "next") >>
OnChips(chips, steps) ==
  [i \in DOMAIN steps |-> [steps[i] EXCEPT !.chips = chips]]
ForFamilies(families, steps) ==
  [i \in DOMAIN steps |-> [steps[i] EXCEPT !.families = families]]

(* Where the arguments or an answer decide between several scripts, the     *)
(* table has a sequence of them.                                            *)
Script(steps) == << steps >>
Get(call, v) == Script(Ask(call, {v}))
Set(call)    == Script(Do(call))
Refuse == Script(<< >>)

(* get_platform_info and get_proc_type: without the revision there is no    *)
(* answer; without the processor info the global plat_info is used as it    *)
(* is, all zero or what an earlier command of the line left.                *)
ProcType == Learn("read_sbrmi_revision", {"rev"})
            \o OnChips(Chips \ {"v10"},
                       << Step("get_platform_info", {}, {}, "next") >>)

(***************************************************************************)
(* apml_tool.c, in the order of the file.                                  *)
(***************************************************************************)
PowerScripts ==
  [ showpower |-> Script(Ask("read_socket_power", {"power"})
       \o Ask("read_socket_power_limit", {"power"})
       \o Ask("read_max_socket_power_limit", {"power"})),
    showtdp |-> Script(Ask("read_tdp", {"buffer"})
       \o Ask("read_min_tdp", {"buffer"}) \o Ask("read_max_tdp", {"buffer"})),
    setpowerlimit |-> Script(Try("read_max_socket_power_limit", {"max_power"})
       \o Do("write_socket_power_limit")),
    showddrbandwidth |-> Get("read_ddr_bandwidth", "max_ddr"),
    showboostlimit |-> Script(Ask("read_esb_boost_limit", {"buffer"})
       \o Ask("read_bios_boost_fmax", {"buffer"})) ]

BoostScripts ==
  LET Range == Learn("read_socket_freq_range", {"fmax", "fmin"})
  IN [ setapmlboostlimit |-> Script(Range \o Do("write_esb_boost_limit")),
       setapmlsocketboostlimit |->
         Script(Range \o Do("write_esb_boost_limit_allcores")),
       set_and_verify_dramthrottle |-> Script(Do("write_dram_throttle")
         \o << Step("read_dram_throttle", {"limit"}, {}, "next") >>
         \o Show({"limit"})),
       set_verify_updaterate |-> Script(Do("write_sbtsi_updaterate")
         \o Try("read_sbtsi_updaterate", {"rduprate"})) ]

(* A low threshold outside 0..70 is refused here, before the library.       *)
TsiSetScripts ==
  [ sethightempthreshold |-> Set("sbtsi_set_hitemp_threshold"),
    setlowtempthreshold  |-> Refuse \o Set("sbtsi_set_lotemp_threshold"),
    settempoffset     |-> Set("write_sbtsi_cputempoffset"),
    settimeoutconfig  |-> Set("sbtsi_set_timeout_config"),
    setalertthreshold |-> Set("sbtsi_set_alert_threshold"),
    setalertconfig    |-> Set("sbtsi_set_alert_config") ]
TsiConfigScripts ==
  [o \in {"setalertmask", "setrunstop", "setreadorder", "setara"} |->
     Set("sbtsi_set_configwr")]

(* The registers of SB-RMI: the revision, or for two revisions the          *)
(* processor, ends the command; any other register is left out when it      *)
(* cannot be read.  buf is one variable for all the single registers.       *)
RmiFirst ==
  Ask("read_sbrmi_revision", {"rev"})
  \o Try("read_sbrmi_control", {"buf"}) \o Try("read_sbrmi_status", {"buf"})
  \o Try("read_sbrmi_readsize", {"buf"})
  \o OnChips({"v21"}, Do("esmi_get_processor_info"))
  \o Try("read_sbrmi_multithreadenablestatus", {"enabled"})
  \o OnChips({"v20", "mi300"}, Do("esmi_get_processor_info"))
  \o Try("read_sbrmi_alert_status", {"alerts"})
RmiMasks == Try("read_sbrmi_alert_mask", {"masks"})
RmiLast ==
  Try("read_sbrmi_outbound_msg", {"out"}) \o Try("read_sbrmi_inbound_msg", {"in"})
  \o Try("read_sbrmi_swinterrupt", {"buf"})
  \o OnChips({"v10"}, Try("read_sbrmi_threadnumber", {"buf"}))
  \o OnChips(Chips \ {"v10"}, Try("read_sbrmi_threadnumberlow", {"buf"})
                              \o Try("read_sbrmi_threadnumberhi", {"buf"}))
  \o Try("read_sbrmi_thread_cs", {"buf"}) \o Try("read_sbrmi_ras_status", {"buf"})
  \o Try("read_sbrmi_mp0_msg", {"mp0"})
RmiScripts ==
  [ showrmiregisters |-> Script(RmiFirst \o RmiMasks \o RmiLast) ]

(* The registers of SB-TSI: the first failure ends the command.  A nonzero  *)
(* HBM temperature is what makes the part one with HBM.                     *)
TsiFirst(hbm) ==
  Learn("read_sbtsi_max_hbm_temp_int", {"intr"})
  \o Learn("sbtsi_get_cputemp", {"temp"}) \o Learn("read_sbtsi_cpuinttemp", {"intr"})
  \o Ask("read_sbtsi_cputempdecimal", {"dec"}) \o Show({"temp", "intr"})
  \o Ask("sbtsi_get_temp_status", {"lowalert", "hialert"})
  \o (IF hbm THEN Ask("read_sbtsi_status", {"reg_val"}) ELSE << >>)
  \o Learn("sbtsi_get_config", {"al_mask", "run_stop", "read_ord", "ara"})
  \o Show({"al_mask", "run_stop", "read_ord"} \cup IF hbm THEN {} ELSE {"ara"})
  \o Ask("read_sbtsi_updaterate", {"uprate"})
  \o Learn("sbtsi_get_hitemp_threshold", {"temp"})
  \o Learn("read_sbtsi_hitempint", {"intr"})
  \o Ask("read_sbtsi_hitempdecimal", {"dec"}) \o Show({"temp", "intr"})
HbmThresholds ==
  Ask("read_sbtsi_hbm_hi_temp_th", {"value"}) \o Ask("read_sbtsi_hbm_lo_temp_th", {"value"})
  \o Ask("read_sbtsi_max_hbm_temp", {"value"}) \o Ask("read_sbtsi_hbm_temp", {"value"})
TsiLast(hbm) ==
  Learn("sbtsi_get_lotemp_threshold", {"temp"})
  \o Learn("read_sbtsi_lotempint", {"intr"})
  \o Ask("read_sbtsi_lotempdecimal", {"dec"}) \o Show({"temp", "intr"})
  \o (IF hbm THEN HbmThresholds ELSE << >>)
  \o Ask("read_sbtsi_cputempoffset", {"dec"})
  \o Learn("read_sbtsi_cputempoffint", {"intr_offset"})
  \o Ask("read_sbtsi_cputempoffdec", {"dec"}) \o Show({"intr_offset"})
  \o (IF hbm THEN << >> ELSE Ask("sbtsi_get_timeout", {"timeout"}))
  \o Ask("read_sbtsi_alertthreshold", {"buf"})
  \o (IF hbm THEN Ask("read_sbtsi_hbm_alertthreshold", {"buf"}) ELSE << >>)
  \o Ask("read_sbtsi_alertconfig", {"buf"})
  \o (IF hbm THEN Ask("get_sbtsi_hbm_alertconfig", {"buf"}) ELSE << >>)
  \o Ask("read_sbtsi_manufid", {"id"}) \o Ask("read_sbtsi_revision", {"id"})
TsiScripts ==
  [ showtsiregisters |-> Script(TsiFirst(TRUE) \o TsiLast(TRUE))
                         \o Script(TsiFirst(FALSE) \o TsiLast(FALSE)) ]

(* A temperature that eleven bits do not hold is refused.                   *)
DimmScripts ==
  [ setdimmpower |-> Set("write_bmc_report_dimm_power"),
    setdimmthermalsensor |-> Refuse \o Script(Assign({"raw"})
       \o Do("write_bmc_report_dimm_thermal_sensor")),
    showPCIeconfigspacedata |-> Get("read_bmc_ras_pcie_config_access", "buffer"),
    setpcieconfig |-> Get("write_bmc_pcie_config", "response") ]

RasMcaScripts ==
  [ showvalidmcabanks |-> Script(
       Ask("read_bmc_ras_mca_validity_check", {"bytespermca", "numbanks"})),
    showrasmcamsr |-> Get("read_bmc_ras_mca_msr_dump", "buffer"),
    showfchresetreason |-> Get("read_bmc_ras_fch_reset_reason", "buffer"),
    showdimmtemprangeandrefreshrate |->
       Get("read_dimm_temp_range_and_refresh_rate", "rate"),
    showdimmpower |-> Get("read_dimm_power_consumption", "d_power"),
    showdimmthermalsensor |-> Script(
       Learn("read_dimm_thermal_sensor", {"d_sensor"})
       \o Assign({"temp"}) \o Show({"temp", "d_sensor"})) ]

FrequencyScripts ==
  [ showsktfreqlimit |-> Script(
       Ask("read_pwr_current_active_freq_limit_socket", {"freq", "source_type"})),
    showcclklimit |-> Get("read_pwr_current_active_freq_limit_core", "buffer"),
    showsvitelemetryallrails |-> Get("read_pwr_svi_telemetry_all_rails", "power"),
    showsktfreqrange |-> Script(Ask("read_socket_freq_range", {"fmax", "fmin"})) ]

(* A link name is looked up in the table of the part the tool takes the     *)
(* socket for; a name that is not there is refused.                         *)
LinkId == ProcType \o Assign({"link"})
LinkScripts ==
  [ showiobandwidth |-> Script(LinkId) \o Script(
       LinkId \o Ask("read_current_io_bandwidth", {"buffer"})),
    showxGMIbandwidth |-> Script(LinkId) \o Script(
       LinkId \o Ask("read_current_xgmi_bandwidth", {"buffer"})),
    setGMI3linkwidthrange |-> Set("write_gmi3_link_width_range"),
    setxGMIlinkwidthrange |-> Set("write_xgmi_link_width_range") ]

FabricScripts ==
  [ APBDisable |-> Get("write_apb_disable", "prochot_asserted"),
    showfclkmclkuclk |-> Get("read_current_dfpstate_frequency", "df_pstate"),
    enabledfpstatedynamic |-> Get("write_apb_enable", "prochot_asserted"),
    setlclkdpmlevel |-> Set("write_lclk_dpm_level_range"),
    showprocbasefreq |-> Get("read_bmc_cpu_base_frequency", "buffer"),
    setPCIegenratectrl |-> Get("read_bmc_control_pcie_gen5_rate", "buffer"),
    setpwrefficiencymode |-> Set("write_pwr_efficiency_mode"),
    showraplcore |-> Get("read_rapl_core_energy_counters", "buffer"),
    showraplpkg |-> Get("read_rapl_pckg_energy_counters", "buffer"),
    setdfpstaterange |-> Set("write_df_pstate_range") ]

(* readregister and writeregister refuse a bus that is neither of the two.  *)
RegisterScripts ==
  [ readregister |-> Get("esmi_oob_read_byte", "buffer"),
    writeregister |-> Set("esmi_oob_write_byte"),
    readrmiregister |-> Get("esmi_oob_rmi_read_byte", "buffer"),
    readtsiregister |-> Get("esmi_oob_tsi_read_byte", "buffer"),
    writermiregister |-> Set("esmi_oob_rmi_write_byte"),
    writetsiregister |-> Set("esmi_oob_tsi_write_byte"),
    readmsrregister |-> Get("esmi_oob_read_msr", "buffer"),
    readcpuidregister |-> Script(
       Ask("esmi_oob_cpuid", {"eax", "ebx", "ecx", "edx"})) ]

CcxInfo == Learn("esmi_get_threads_per_core", {"threads_c"})
           \o Learn("read_max_threads_per_l3", {"threads_l3"})
           \o Learn("esmi_get_threads_per_socket", {"threads_s"})
           \o Assign({"max_cores_per_ccx", "ccx_instances"})
Known == Chips \ {"v10"}
BistScripts ==
  [ showiodbist |-> Get("read_iod_bist", "buffer"),
    showccdbist |-> Get("read_ccd_bist_result", "buffer"),
    showccxbist |-> Script(Learn("read_ccx_bist_result", {"bist_res"})
       \o ProcType
       \o ForFamilies({"v10"}, Show({"bist_res"}))
       \o ForFamilies(Known, CcxInfo \o Show({"bist_res", "max_cores_per_ccx"}))),
    shownbioerrorloggingregister |->
       Get("read_nbio_error_logging_register", "buffer") ]

StatusScripts ==
  [ showdramthrottle |-> Get("read_dram_throttle", "buffer"),
    showprochotstatus |-> Get("read_prochot_status", "buffer"),
    showprochotresidency |-> Get("read_prochot_residency", "buffer"),
    showlclkdpmlevelrange |-> Get("read_lclk_dpm_level_range", "dpm"),
    apml_recovery |-> Set("apml_recover_dev"),
    showpowerconsumed |-> Get("read_socket_power", "pow") ]

ThreadScripts ==
  [ showSMTstatus |-> Get("esmi_get_threads_per_core", "threads_per_core"),
    showthreadspercoreandsocket |-> Script(
       Learn("esmi_get_threads_per_core", {"threads_per_core"})
       \o Ask("esmi_get_threads_per_socket", {"threads_per_soc"})
       \o Show({"threads_per_core"})),
    showccxinfo |-> Script(
       CcxInfo \o Show({"max_cores_per_ccx", "ccx_instances"})),
    showucoderevision |-> Get("read_ucode_revision", "ucode") ]

(* The validity check that fails with a word about it goes on to print that *)
(* word (CallFailsWithData).                                                *)
RasScripts ==
  [ showrasdferrvaliditycheck |-> Script(
       Ask(ValidityCheck, {"df_block_instances", "err_log_len"})),
    showrasdferrdump |-> Get("read_ras_df_err_dump", "data"),
    rasresetonsyncflood |-> Get("reset_on_sync_flood", "ack_resp"),
    rasoverridedelay |-> Get("override_delay_reset_on_sync_flood", "ack_resp") ]
(* A post code by its offset, the summary of all eight, or neither.         *)
PostCodeScripts ==
  LET One == Ask("get_post_code", {"post_code"})
  IN [ getpostcode |-> Refuse \o Script(One) \o
         Script(One \o One \o One \o One \o One \o One \o One \o One),
       clearrasstatusregister |-> Set("clear_sbrmi_ras_status") ]
RuntimeErrorScripts ==
  [ showrasrterrvalidityck |-> Get("get_bmc_ras_run_time_err_validity_ck", "inst"),
    showrasrterrinfo |-> Get("get_bmc_ras_run_time_error_info", "d_out"),
    setraserrthreshold |-> Set("set_bmc_ras_err_threshold"),
    setrasoobconfig |-> Set("set_bmc_ras_oob_config"),
    getrasoobconfig |-> Get("get_bmc_ras_oob_config", "d_out") ]

LateReadScripts ==
  [ showppinfuse |-> Get("read_ppin_fuse", "data"),
    showcclkfreqlimit |-> Get("read_cclk_freq_limit", "buffer"),
    showc0residency |-> Get("read_socket_c0_residency", "buffer"),
    showrtc |-> Get("read_rtc", "rtc_val"),
    getdimmserialnum |-> Get("get_dimm_serial_num", "serial_num"),
    getspddata |-> Get("read_dimm_spd_register", "spd_data"),
    getsmufwversion |-> Get("read_smu_fw_ver", "fw_ver") ]
LateScripts ==
  [ setxgmipstaterange |-> Set("set_xgmi_pstate_range"),
    setcpurailfreqpolicy |-> Set("set_cpu_rail_iso_freq_policy"),
    setdfcenable |-> Set("set_dfc_enable"),
    getcpurailfreqpolicy |-> Get("get_cpu_rail_iso_freq_policy", "policy"),
    getdfcenable |-> Get("get_dfc_enable", "state"),
    getavgdramthrottle |-> Get("get_avg_dram_throttle", "dram_throttle"),
    getchdramthrottle |-> Get("get_ch_dram_throttle", "dram_throttle") ]

(* The summary of the mailbox: each line by itself, "freq" used by two.     *)
SummaryFirst ==
  ProcType
  \o Try("read_socket_power", {"power_avg"})
  \o Try("read_socket_power_limit", {"power_cap"})
  \o Try("read_max_socket_power_limit", {"power_max"})
  \o Try("read_tdp", {"tdp_avg"}) \o Try("read_min_tdp", {"tdp_min"})
  \o Try("read_max_tdp", {"tdp_max"})
  \o ForFamilies(Chips \ {"mi300"}, Try("read_ddr_bandwidth", {"max_ddr"}))
  \o Try("read_bios_boost_fmax", {"bios_boost"})
  \o Try("read_esb_boost_limit", {"esb_boost"})
  \o ForFamilies(Chips \ {"mi300"}, Try("read_dram_throttle", {"dram_thr"}))
SummaryLast ==
  Try("read_prochot_status", {"prochot"}) \o Try("read_prochot_residency", {"prochot_res"})
  \o Try("read_nbio_error_logging_register", {"nbio_data"})
  \o Try("read_iod_bist", {"iod"}) \o Try("read_ccd_bist_result", {"ccd"})
  \o Try("read_ccx_bist_result", {"ccx_res"})
  \o Try("read_pwr_current_active_freq_limit_socket", {"freq", "source_type"})
  \o Try("read_pwr_svi_telemetry_all_rails", {"power"})
  \o Try("read_rapl_pckg_energy_counters", {"energy"})
  \o Try("read_socket_freq_range", {"fmax", "fmin"})
  \o Try("read_bmc_cpu_base_frequency", {"freq"})
  \o Try("read_current_dfpstate_frequency", {"df_pstate"})

(***************************************************************************)
(* mi300_tool.c.                                                           *)
(***************************************************************************)
MiSummary ==
  << Step("esmi_get_processor_info", {}, {}, "next") >>
  \o Try("get_mclk_fclk_pstates", {"pstate"})
  \o Try("get_xgmi_pstates", {"xgmi_pstate", "ln_width"})
  \o Try("get_energy_accum_with_timestamp", {"energy_acc", "time_stamp"})
  \o Try("get_alarms", {"d_out"}) \o Try("get_psn", {"psn"})
  \o Try("get_link_info", {"link_config", "module_id"})
  \o Try("get_die_hotspot_info", {"die_id", "temp"})
  \o Try("get_mem_hotspot_info", {"hbm_id", "temp"})
  \o Try("get_host_status", {"h_status"}) \o Try("get_hbm_throttle", {"d_out"})
  \o Try("get_hbm_temperature", {"temp"}) \o Try("get_clk_freq_limits", {"limit"})
  \o Try("get_sockets_in_system", {"d_out"})
SummaryScripts ==
  [ showmailboxsummary |-> Script(SummaryFirst \o SummaryLast
      \o ForFamilies({"mi300"}, MiSummary)
      \o Try("esmi_get_threads_per_core", {"threads_per_core"})
      \o Try("esmi_get_threads_per_socket", {"threads_per_soc"})) ]

MiMemoryScripts ==
  [ showhbmthrottle |-> Get("get_hbm_throttle", "buffer"),
    sethbmthrottle |-> Set("set_hbm_throttle"),
    showhbmbandwidth |-> Get("get_max_mem_bw_util", "bw"),
    setmaxgfxcoreclock |-> Set("set_gfx_core_clock"),
    setmingfxcoreclock |-> Set("set_gfx_core_clock") ]
MiInfoScripts ==
  [ showpmstatus |-> Get("get_alarms", "buffer"), showpsn |-> Get("get_psn", "buffer"),
    showlinkinfo |-> Script(Ask("get_link_info", {"link_config", "mod_id"})),
    showdiehotspotinfo |-> Script(
       Ask("get_die_hotspot_info", {"die_id", "temp"})),
    showmemhotspotinfo |-> Script(
       Ask("get_mem_hotspot_info", {"stack_id", "temp"})),
    showhoststatus |-> Get("get_host_status", "status") ]
MiClockScripts ==
  [ showabsmaxmingfxfreq |-> Script(
       Ask("get_max_min_gfx_freq", {"max_freq", "min_freq"})),
    showactfreqcapselected |-> Get("get_act_gfx_freq_cap", "freq"),
    showgfxclkfreqlimit |-> Get("get_clk_freq_limits", "limit"),
    showflckfreqlimit |-> Get("get_clk_freq_limits", "limit"),
    showhbmstacktemp |-> Get("get_hbm_temperature", "temp"),
    showxgmipstates |-> Script(
       Learn("get_xgmi_pstates", {"xgmi_pstate"}) \o Assign({"ln_width"})
       \o Show({"xgmi_pstate", "ln_width"})),
    setxgmipstate |-> Set("set_xgmi_pstate"),
    unsetxgmipstate |-> Set("unset_xgmi_pstate") ]
MiPstateScripts ==
  [ showpstates |-> Get("get_mclk_fclk_pstates", "pstate"),
    setmaxpstate |-> Set("set_mclk_fclk_max_pstate"),
    showbistresult |-> Get("get_bist_results", "bist_result"),
    showsvibasedtelemetryforindvrails |-> Get("get_svi_rail_telemetry", "pow"),
    showenergyacctimestamp |-> Script(
       Ask("get_energy_accum_with_timestamp", {"energy_acc", "time_stamp"})),
    showxccidleres |-> Get("get_xcc_idle_residency", "xcc_res"),
    shownumberofsockets |-> Get("get_sockets_in_system", "sockets") ]
(* querystatistics prints no value for a parameter it has no operation for, *)
(* a value and its unit for the others it knows, a bare value for the rest. *)
MiStatisticsScripts ==
  [ querystatistics |->
       LET Query == Learn("get_statistics", {"param_value"})
       IN Script(Query)
          \o Script(Query \o Assign({"unit"}) \o Show({"param_value", "unit"}))
          \o Script(Query \o Show({"param_value"})),
    clearstatistics |-> Set("clear_statistics"),
    sethbmhightempthreshold |-> Set("write_sbtsi_hbm_hi_temp_th"),
    sethbmlowtempthreshold |-> Set("write_sbtsi_hbm_lo_temp_th"),
    sethbmalertconfig |-> Set("set_sbtsi_hbm_alertconfig"),
    sethbmalertthreshold |-> Set("sbtsi_set_hbm_alert_threshold"),
    showmaxdieid |-> Get("get_die_type", "max_die_id") ]

(* getpciestats has a text for the selectors 0 to 4; for any other it says  *)
(* that the input is invalid and prints no value.                           *)
MiDieScripts ==
  [ showdietype |-> Script(Learn("get_die_type", {"buffer"})
       \o Assign({"die_type"}) \o Show({"die_type", "buffer"})),
    getcurrxgmipstate |-> Get("get_curr_xgmi_pstate", "xgmi_pstate"),
    getoperatingtemp |-> Get("get_max_operating_temp", "temp"),
    getslowdowntemp |-> Get("get_slow_down_temp", "temp"),
    gethbmdeviceinfo |-> Get("get_hbm_dev_info", "dev_info"),
    getpciestats |->
       LET Counter == Learn("get_pciestats", {"pcie_stat"})
       IN Script(Counter \o Assign({"stat"}) \o Show({"stat", "pcie_stat"}))
          \o Script(Counter) ]

ScriptTables == <<
  PowerScripts, BoostScripts, TsiSetScripts, TsiConfigScripts, RmiScripts,
  TsiScripts, DimmScripts, RasMcaScripts, FrequencyScripts, LinkScripts,
  FabricScripts, RegisterScripts, BistScripts, StatusScripts,
  ThreadScripts, RasScripts, PostCodeScripts, RuntimeErrorScripts,
  LateReadScripts, LateScripts, SummaryScripts, MiMemoryScripts,
  MiInfoScripts, MiClockScripts, MiPstateScripts, MiStatisticsScripts,
  MiDieScripts >>

Scripts == Joined(ScriptTables)
=============================================================================

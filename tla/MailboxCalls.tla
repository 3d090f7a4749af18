---------------------------- MODULE MailboxCalls ----------------------------
(***************************************************************************)
(* The calls of esmi_mailbox.c and rmi_mailbox_mi300.c that are one        *)
(* mailbox command: a test of the arguments, one word of 32 bits that      *)
(* carries them all, and one word that comes back and is taken apart.      *)
(*                                                                         *)
(* A word is the set of its bits that are 1.  Arguments are numbers, in    *)
(* the order of the call's parameters or of the members of its structure,  *)
(* as the code packs them; results are sets of bits again.                 *)
(* What the firmware keeps is what some call reads back: the reports on    *)
(* DIMMs, the LCLK range of an NBIO and two switches.                      *)
(***************************************************************************)
EXTENDS Integers, Sequences, TableLookup

CONSTANT
  Arguments(_)   (* the lists of arguments a call is made with             *)

Bits(n) == {b \in 0 .. 30 : (n \div 2 ^ b) % 2 = 1}
Bit31 == {31}

(* A field of a word: how many bits, and which is its lowest.              *)
F(width, at) == [width |-> width, at |-> at]

Placed(n, f) == {b + f.at : b \in {b \in Bits(n) : b < f.width}}
Taken(w, f) == {b \in 0 .. f.width - 1 : b + f.at \in w}

-----------------------------------------------------------------------------
(* The fields each call packs its arguments into.                          *)
ReportWith(sensor) ==
  [write_bmc_report_dimm_power |-> <<F(8, 0), F(9, 8), F(15, 17)>>,
   write_bmc_report_dimm_thermal_sensor |-> <<F(8, 0), F(9, 8), sensor>>,
   write_lclk_dpm_level_range |-> <<F(8, 0), F(8, 8), F(8, 16)>>,
   set_cpu_rail_iso_freq_policy |-> <<F(8, 0)>>,
   set_dfc_enable |-> <<F(8, 0)>>]

(* Mutant: the sensor reading is shifted as the power is. *)
ReportShifted == ReportWith(F(11, 17))

Report == ReportWith(F(11, 21))

Request ==
  [read_dimm_power_consumption |-> <<F(8, 0)>>,
   read_dimm_thermal_sensor |-> <<F(8, 0)>>,
   read_lclk_dpm_level_range |-> <<F(8, 16)>>,
   get_cpu_rail_iso_freq_policy |-> <<>>,
   get_dfc_enable |-> <<>>]

Limits ==
  [write_esb_boost_limit |-> <<F(16, 16), F(16, 0)>>,
   write_esb_boost_limit_allcores |-> <<F(16, 0)>>,
   write_gmi3_link_width_range |-> <<F(8, 8), F(8, 0)>>,
   write_xgmi_link_width_range |-> <<F(8, 8), F(8, 0)>>,
   write_df_pstate_range |-> <<F(8, 0), F(8, 8)>>,
   set_xgmi_pstate_range |-> <<F(8, 8), F(8, 0)>>,
   write_pwr_efficiency_mode |-> <<F(8, 0)>>,
   read_bmc_control_pcie_gen5_rate |-> <<F(8, 0)>>]

RasWith(rate) ==
  [read_nbio_error_logging_register |-> <<F(8, 24), F(24, 0)>>,
   read_bmc_ras_mca_msr_dump |-> <<F(16, 0), F(16, 16)>>,
   read_bmc_ras_fch_reset_reason |-> <<F(31, 0)>>,
   override_delay_reset_on_sync_flood |-> <<F(8, 0), F(1, 8), F(1, 9)>>,
   get_bmc_ras_run_time_err_validity_ck |-> <<F(2, 0), F(1, 31)>>,
   get_bmc_ras_run_time_error_info |-> <<F(8, 0), F(8, 8), F(8, 16)>>,
   set_bmc_ras_err_threshold |-> <<F(2, 0), F(16, 2), rate>>,
   set_bmc_ras_oob_config |-> <<F(1, 0), F(2, 1), F(5, 3), F(1, 8), F(1, 31)>>,
   read_ras_df_err_validity_check |-> <<F(8, 0)>>,
   read_ras_df_err_dump |-> <<F(8, 0), F(8, 8), F(8, 16), F(8, 24)>>]

(* Mutant: the interrupt rate is two bits too low. *)
RasOverlapping == RasWith(F(4, 16))

Ras == RasWith(F(4, 18))

Dimm ==
  [read_dimm_temp_range_and_refresh_rate |-> <<F(8, 0)>>,
   read_dimm_spd_register |-> <<F(8, 0), F(4, 8), F(11, 12), F(1, 23)>>,
   get_ch_dram_throttle |-> <<F(8, 0)>>]

Mi300 ==
  [get_mclk_fclk_pstates |-> <<F(8, 0)>>,
   get_xgmi_pstates |-> <<F(8, 0)>>,
   get_bist_results |-> <<F(8, 0)>>,
   get_svi_rail_telemetry |-> <<F(2, 0), F(3, 2)>>]

(* Calls that send their one parameter as it is, and calls without any.    *)
Plain ==
  {"write_socket_power_limit", "write_dram_throttle", "read_ccd_bist_result",
   "read_ccx_bist_result", "read_pwr_current_active_freq_limit_core",
   "get_post_code", "set_mclk_fclk_max_pstate", "set_xgmi_pstate",
   "set_hbm_throttle", "get_hbm_temperature", "get_die_type",
   "get_max_operating_temp", "get_slow_down_temp", "get_pciestats"}
Bare ==
  {"read_socket_power", "read_socket_power_limit", "read_max_socket_power_limit",
   "read_tdp", "read_max_tdp", "read_min_tdp", "read_dram_throttle",
   "read_prochot_status", "read_prochot_residency", "read_iod_bist",
   "read_cclk_freq_limit", "read_socket_c0_residency", "read_ddr_bandwidth",
   "read_bmc_ras_mca_validity_check", "read_pwr_current_active_freq_limit_socket",
   "read_pwr_svi_telemetry_all_rails", "read_socket_freq_range",
   "read_current_dfpstate_frequency", "read_bmc_rapl_units",
   "read_bmc_cpu_base_frequency", "read_ucode_revision", "reset_on_sync_flood",
   "get_bmc_ras_oob_config", "read_smu_fw_ver", "get_avg_dram_throttle",
   "unset_xgmi_pstate", "get_xcc_idle_residency", "get_link_info",
   "get_max_min_gfx_freq", "get_act_gfx_freq_cap", "get_die_hotspot_info",
   "get_mem_hotspot_info", "get_host_status", "get_max_mem_bw_util",
   "get_hbm_throttle", "get_sockets_in_system", "get_curr_xgmi_pstate",
   "get_hbm_dev_info"}

(* The boost limit of a core: revision 0x10 numbers cores from bit 0.      *)
BoostReads == {"read_bios_boost_fmax", "read_esb_boost_limit"}
BoostField(revision) == IF revision = 16 THEN F(31, 0) ELSE F(16, 16)

(* The choices that select the command, not a bit of its word.             *)
Chosen == {"set_gfx_core_clock", "get_alarms", "get_clk_freq_limits"}
ChoiceCount == [set_gfx_core_clock |-> 2, get_alarms |-> 1, get_clk_freq_limits |-> 2]

Packed == Joined(<<Report, Request, Limits, Ras, Dimm, Mi300>>)
SerialNumber == "get_dimm_serial_num"
Bit31Alone ==
  {"get_cpu_rail_iso_freq_policy", "get_dfc_enable", "get_avg_dram_throttle"}
OneCommand ==
  DOMAIN Packed \cup Plain \cup Bare \cup BoostReads \cup Chosen \cup {SerialNumber}

(* The calls that write: nothing comes back.                               *)
Writers ==
  DOMAIN Report \cup (DOMAIN Limits \ {"read_bmc_control_pcie_gen5_rate"})
  \cup {"set_bmc_ras_err_threshold", "set_bmc_ras_oob_config",
        "write_socket_power_limit", "write_dram_throttle", "set_gfx_core_clock",
        "set_mclk_fclk_max_pstate", "set_xgmi_pstate", "unset_xgmi_pstate",
        "set_hbm_throttle"}

(* A parameter or a member of a structure has no more bits than its field, *)
(* and none of more than 31 takes a part of a word.                        *)
Number == 0 .. 2 ^ 30 + (2 ^ 30 - 1)
FitsField(n, f) == n \in Number /\ Bits(n) \subseteq 0 .. f.width - 1

ASSUME CallArgumentsAssumption ==
  \A name \in DOMAIN Packed : \A a \in Arguments(name) :
    /\ a \in Seq(Number)
    /\ Len(a) = Len(Packed[name])
    /\ \A i \in 1 .. Len(a) : FitsField(a[i], Packed[name][i])

-----------------------------------------------------------------------------
(* The tests of the arguments.                                             *)
Ordered(low, high, limit) == low <= high /\ high <= limit

Dpm(a) == Ordered(a[1], a[2], 3) /\ a[3] <= 3

AcceptsCall(name, a) ==
  /\ name = "write_lclk_dpm_level_range" => Dpm(a)
  /\ name = "read_lclk_dpm_level_range" => a[1] <= 3
  /\ name = "write_gmi3_link_width_range" => Ordered(a[1], a[2], 2)
  /\ name = "write_df_pstate_range" => Ordered(a[1], a[2], 2)
  /\ name = "set_xgmi_pstate_range" => Ordered(a[2], a[1], 1)
  /\ name = "read_bmc_control_pcie_gen5_rate" => a[1] <= 2
  /\ name = "read_bmc_ras_fch_reset_reason" => a[1] <= 1
  /\ name = "read_ras_df_err_dump" => a[1] % 4 = 0
  /\ name \in {"set_cpu_rail_iso_freq_policy", "set_dfc_enable"} => a[1] <= 1
  /\ name \in Chosen => a[1] < ChoiceCount[name]

(* The word a call sends.                                                  *)
PackedWord(name, a) == UNION {Placed(a[i], Packed[name][i]) : i \in DOMAIN a}

WordFor(name, revision, a) ==
  CASE name \in Bit31Alone -> Bit31
    [] name \in DOMAIN Packed \ Bit31Alone -> PackedWord(name, a)
    [] name = SerialNumber ->
         PackedWord("read_dimm_spd_register", <<a[1], 10, 517, 1>>)
    [] name \in BoostReads -> Placed(a[1], BoostField(revision))
    [] name = "set_gfx_core_clock" -> Bits(a[2])
    [] name \in Plain -> Bits(a[1])
    [] OTHER -> {}

(* The results a call takes out of the answer.                             *)
Whole == <<F(32, 0)>>
Halves == <<F(16, 16), F(16, 0)>>
EsmiResults ==
  [read_ddr_bandwidth |-> <<F(12, 20), F(12, 8), F(8, 0)>>,
   read_prochot_residency |-> <<F(16, 0)>>,
   read_bmc_ras_mca_validity_check |-> Halves,
   read_dimm_temp_range_and_refresh_rate |-> <<F(1, 3), F(3, 0)>>,
   read_dimm_power_consumption |-> <<F(8, 0), F(9, 8), F(15, 17)>>,
   read_dimm_thermal_sensor |-> <<F(8, 0), F(9, 8), F(11, 21)>>,
   read_pwr_current_active_freq_limit_socket |-> Halves,
   read_socket_freq_range |-> Halves,
   read_current_dfpstate_frequency |-> <<F(16, 16), F(1, 15), F(12, 0)>>,
   read_bmc_rapl_units |-> <<F(4, 16), F(5, 8)>>,
   read_bmc_control_pcie_gen5_rate |-> <<F(2, 0)>>,
   read_lclk_dpm_level_range |-> <<F(8, 0), F(8, 8)>>,
   override_delay_reset_on_sync_flood |-> <<F(1, 0)>>,
   get_bmc_ras_run_time_err_validity_ck |-> <<F(16, 0), F(16, 16)>>,
   read_ras_df_err_validity_check |-> <<F(9, 0), F(9, 16)>>,
   get_cpu_rail_iso_freq_policy |-> <<F(1, 0)>>,
   get_dfc_enable |-> <<F(1, 0)>>]
Mi300Results ==
  [get_mclk_fclk_pstates |-> <<F(16, 0), F(16, 16)>>,
   get_xgmi_pstates |-> <<F(16, 16), F(4, 0)>>,
   get_link_info |-> <<F(5, 5), F(5, 0)>>,
   get_max_min_gfx_freq |-> <<F(16, 0), F(16, 16)>>,
   get_act_gfx_freq_cap |-> <<F(16, 0)>>,
   get_die_hotspot_info |-> <<F(8, 0), F(16, 16)>>,
   get_mem_hotspot_info |-> <<F(4, 0), F(16, 16)>>,
   get_host_status |-> <<F(1, 0), F(1, 1)>>,
   get_max_mem_bw_util |-> Halves,
   get_hbm_temperature |-> <<F(16, 0)>>,
   get_clk_freq_limits |-> <<F(16, 0), F(16, 16)>>,
   get_curr_xgmi_pstate |-> <<F(8, 0)>>,
   get_max_operating_temp |-> <<F(16, 0)>>,
   get_slow_down_temp |-> <<F(16, 0)>>,
   get_hbm_dev_info |-> <<F(8, 0), F(8, 8), F(16, 16)>>]
Unpacking == Joined(<<EsmiResults, Mi300Results>>)

(* The sources that limit the frequency, named by the loop over the bits   *)
(* of the lower half.                                                      *)
Sources(w) == SelectSeq([i \in 1 .. 8 |-> i - 1], LAMBDA b : b \in w)

ResultsOf(name, w) ==
  LET fields == IF name \in DOMAIN Unpacking THEN Unpacking[name]
                ELSE IF name \in Writers THEN <<>> ELSE Whole
      all == [i \in DOMAIN fields |-> Taken(w, fields[i])]
  IN IF name = "read_pwr_current_active_freq_limit_socket"
     THEN <<all[1], Sources(w)>>
     ELSE all
-----------------------------------------------------------------------------
VARIABLES
  memory,      (* what the firmware keeps, a word per slot                 *)
  latest,      (* the latest call and how it ended                         *)
  wishes       (* history: the arguments of the last call that reached a   *)
               (* slot                                                     *)

callVars == <<memory, latest, wishes>>

(* The firmware keeps a report per DIMM and a range per NBIO; a switch is  *)
(* set and read by one command, which bit 31 tells apart.                  *)
KeptBy ==
  [write_bmc_report_dimm_power |-> "dimm_power",
   read_dimm_power_consumption |-> "dimm_power",
   write_bmc_report_dimm_thermal_sensor |-> "dimm_thermal",
   read_dimm_thermal_sensor |-> "dimm_thermal",
   write_lclk_dpm_level_range |-> "lclk",
   read_lclk_dpm_level_range |-> "lclk",
   set_cpu_rail_iso_freq_policy |-> "rail", get_cpu_rail_iso_freq_policy |-> "rail",
   set_dfc_enable |-> "dfc", get_dfc_enable |-> "dfc"]

Slot(name, socket, w) ==
  LET kind == KeptBy[name]
  IN [kind |-> kind, socket |-> socket,
      of |-> CASE kind \in {"dimm_power", "dimm_thermal"} -> Taken(w, F(8, 0))
               [] kind = "lclk" -> Taken(w, F(8, 16))
               [] OTHER -> {}]

Stores(name, w) ==
  name \in DOMAIN KeptBy /\
  IF KeptBy[name] \in {"rail", "dfc"} THEN 31 \notin w ELSE name \in DOMAIN Report

(* Only socket 0 handles the reset on a sync flood.                        *)
SocketFor(name, socket) ==
  IF name \in {"reset_on_sync_flood", "override_delay_reset_on_sync_flood"}
  THEN 0 ELSE socket

CallsInit ==
  /\ memory = <<>>
  /\ wishes = <<>>
  /\ latest = [name |-> "none", socket |-> 0, args |-> <<>>, word |-> {},
               outcome |-> "none", results |-> <<>>]

Ends(name, socket, a, w, outcome, results) ==
  latest' = [name |-> name, socket |-> socket, args |-> a, word |-> w,
             outcome |-> outcome, results |-> results]

RefuseCall(name, socket, a) ==
  /\ ~AcceptsCall(name, a)
  /\ Ends(name, socket, a, {}, "invalid_input", <<>>)
  /\ UNCHANGED <<memory, wishes>>

(* The firmware stores a word.                                             *)
Keep(name, socket, a, w) ==
  LET slot == Slot(name, socket, w)
      slots == DOMAIN memory \cup {slot}
  IN /\ memory' = [s \in slots |-> IF s = slot THEN w ELSE memory[s]]
     /\ wishes' = [s \in slots |-> IF s = slot THEN a ELSE wishes[s]]

(* The answer to a word: what is kept there, or whatever the firmware has. *)
AnswersTo(name, socket, w) ==
  IF name \in DOMAIN KeptBy
  THEN LET slot == Slot(name, socket, w)
       IN IF slot \in DOMAIN memory THEN {memory[slot]} ELSE {}
  ELSE {{}, 0 .. 31}

Serve(name, revision, s, a) ==
  LET socket == SocketFor(name, s)
      w == WordFor(name, revision, a)
  IN /\ AcceptsCall(name, a)
     /\ IF Stores(name, w)
        THEN /\ Keep(name, socket, a, w)
             /\ Ends(name, socket, a, w, "success", <<>>)
        ELSE /\ \E answer \in AnswersTo(name, socket, w) :
                  Ends(name, socket, a, w, "success", ResultsOf(name, answer))
             /\ UNCHANGED <<memory, wishes>>

(* A failure may come with a word about it, which esmi_oob_read_mailbox     *)
(* stores as it does an answer: the calls that hand it the caller's own    *)
(* variable leave it there, and so does read_ras_df_err_validity_check.    *)
HandsOn ==
  (OneCommand \ (DOMAIN Unpacking \cup Writers))
  \cup {"read_ras_df_err_validity_check", "read_bmc_control_pcie_gen5_rate"}

ErrorData(name) ==
  {<<>>} \cup IF name \in HandsOn THEN {<<{}>>, <<0 .. 31>>} ELSE {}

(* A command that fails may have done its work or not.                     *)
FailCall(name, revision, s, a) ==
  LET socket == SocketFor(name, s)
      w == WordFor(name, revision, a)
  IN /\ AcceptsCall(name, a)
     /\ \E left \in ErrorData(name) : Ends(name, socket, a, w, "error", left)
     /\ \/ UNCHANGED <<memory, wishes>>
        \/ Stores(name, w) /\ Keep(name, socket, a, w)

MakeCall(name, revision, socket) ==
  \E a \in Arguments(name) :
    \/ RefuseCall(name, socket, a)
    \/ Serve(name, revision, socket, a)
    \/ FailCall(name, revision, socket, a)

CallsNext ==
  \E name \in OneCommand, revision \in {16, 32}, socket \in {0, 1} :
    MakeCall(name, revision, socket)

CallsSpec == CallsInit /\ [][CallsNext]_callVars

-----------------------------------------------------------------------------
(* The firmware can tell any two accepted calls of a function apart by the *)
(* word they send: no field of a structure reaches into another, loses     *)
(* bits or is left out (the packing of esmi_mailbox.c and                  *)
(* rmi_mailbox_mi300.c).                                                   *)
WordTellsTheCall ==
  latest.outcome \in {"success", "error"} /\ latest.name \in DOMAIN Packed =>
    \A a \in Arguments(latest.name) \ {latest.args} :
      AcceptsCall(latest.name, a) => PackedWord(latest.name, a) # latest.word

(* What a call reads back is what the last call that reached the firmware  *)
(* for the same DIMM, NBIO or switch asked for, each value in its own      *)
(* place, however sets, gets, refusals and failures follow one another:    *)
(* each writer of these files packs what its reader unpacks.               *)
Wished(name, wish) ==
  IF name = "read_lclk_dpm_level_range" THEN <<Bits(wish[1]), Bits(wish[2])>>
  ELSE [i \in DOMAIN wish |-> Bits(wish[i])]

ReadsBack ==
  latest.outcome = "success" /\ latest.name \in DOMAIN Request =>
    latest.results =
      Wished(latest.name, wishes[Slot(latest.name, latest.socket, latest.word)])
=============================================================================

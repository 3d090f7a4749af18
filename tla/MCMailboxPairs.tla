--------------------------- MODULE MCMailboxPairs ---------------------------
(***************************************************************************)
(* The mailbox calls.  A behaviour is about one module ("focus"), for they *)
(* share no state: two clients of PcieConfig or of ApbBoost, a reader of   *)
(* MailboxWords, two threads of LinkBandwidth, two callers of Statistics,  *)
(* or the sequences of MailboxCalls.                                       *)
(*                                                                         *)
(* PcieConfig: two registers at the corners of the fields, one of them of  *)
(* a device that is refused on bus 0, and both refused devices.            *)
(* ApbBoost: P-states up to and past the limit.                            *)
(* MailboxWords: words of one bit, that move between any two commands.     *)
(* LinkBandwidth: an MI300 socket and two others, of the same family and   *)
(* of another; link IDs of either encoding, of both and of none.           *)
(* MailboxCalls: the ends of every field and both sides of every limit.    *)
(***************************************************************************)
EXTENDS PcieConfig, ApbBoost, MailboxWords, LinkBandwidth, Statistics,
        MailboxCalls, TLC

VARIABLE focus   (* what this behaviour is about                           *)

At(segment, bus, device, func, offset) ==
  [func |-> func, device |-> device, bus |-> bus, offset |-> offset,
   segment |-> segment]

MCAddresses ==
  {At(7, 255, 31, 7, 4095), At(0, 1, 24, 0, 4), At(0, 0, 24, 0, 4),
   At(0, 0, 25, 0, 4)}

MCCalls == {"ppin", "psn", "rtc", "energy"}
MCFuse == [f \in {"ppin", "psn"} |-> IF f = "ppin" THEN Join(0, 1) ELSE Join(1, 0)]

MCAsked == {0, 2, 3}

Sp3 == [family |-> 25, model |-> 17]
Mi300x == [family |-> 25, model |-> 144]
Sp5 == [family |-> 26, model |-> 2]
MCProcessor == [s \in 0 .. 2 |-> <<Sp3, Mi300x, Sp5>>[s + 1]]

(* The lists of arguments of the calls of one command.                     *)
Ends2(width) == {0, 2 ^ (width - 1) + (2 ^ (width - 1) - 1)}
Edges(width) == Ends2(width) \cup {2 ^ (width - 1)}
Tested ==
  {"write_lclk_dpm_level_range", "read_lclk_dpm_level_range",
   "write_gmi3_link_width_range", "write_df_pstate_range", "set_xgmi_pstate_range",
   "read_bmc_control_pcie_gen5_rate", "read_bmc_ras_fch_reset_reason",
   "set_cpu_rail_iso_freq_policy", "set_dfc_enable"}
Edge(name, field) ==
  CASE name \in DOMAIN KeptBy /\ KeptBy[name] = "lclk" -> {0, 3, 4}
    [] name \in Tested -> 0 .. 3
    [] name \in DOMAIN KeptBy -> Ends2(field.width)
    [] OTHER -> Edges(field.width)
ListsOf(name) ==
  LET fields == Packed[name]
      n == Len(fields)
      any == UNION {Edge(name, fields[i]) : i \in 1 .. n}
  IN {a \in [1 .. n -> any] : \A i \in 1 .. n : a[i] \in Edge(name, fields[i])}
ArgumentLists ==
  [name \in OneCommand |->
     CASE name \in DOMAIN Packed -> ListsOf(name)
       [] name \in Bare -> {<<>>}
       [] name = SerialNumber -> {<<0>>, <<255>>}
       [] name \in Chosen -> {<<0, 1>>, <<1, 1>>, <<2, 1>>}
       [] OTHER -> {<<0>>, <<1>>, <<65535>>}]
MCArguments(name) == ArgumentLists[name]

(* The parts a behaviour is not about start in one state. *)
PcieRests ==
  \E a \in Addresses, d \in Data :
    /\ Refuses(a)
    /\ addr = [c \in Clients |-> a]
    /\ op = [c \in Clients |-> "read"]
    /\ data = [c \in Clients |-> d]
    /\ config = [b \in Addresses |-> d]
BoostRests == prochot = FALSE /\ boost = Enabled
WordsRest ==
  /\ value = [v \in Values |-> IF v \in Moving THEN Zero ELSE Fuse[v]]
  /\ call = [r \in Readers |-> "ppin"]
LinksRest ==
  asks = [t \in Threads |->
            [socket |-> 0, link |-> 8, bw_type |-> "other", io |-> TRUE]]
StatRests == frozen = 0

MCInit ==
  /\ focus \in {"pcie", "boost", "words", "links", "statistics", "calls"}
  /\ focus # "pcie" => PcieRests
  /\ focus # "boost" => BoostRests
  /\ focus # "words" => WordsRest
  /\ LinksRest
  /\ focus # "statistics" => StatRests
  /\ Init /\ BoostInit /\ WordsInit /\ LinkInit /\ StatInit /\ CallsInit

(* A value that nobody reads stays where it is: it has started anywhere.   *)
Watched ==
  {v \in Moving : \E r \in Readers : stage[r] = "reading" /\
     \E i \in DOMAIN Commands(call[r]) : Commands(call[r])[i].of = v}
OnlyWatchedMove == \A v \in Moving \ Watched : value'[v] = value[v]

Same ==
  Permutations(Clients) \cup Permutations(Data)
  \cup Permutations(Threads) \cup Permutations(Callers)

(* The type of bandwidth matters to a call only until it is accepted.      *)
FewAsks ==
  \A t \in Threads :
    IF asks'[t].bw_type = "total" THEN asks'[t].io
    ELSE asks'[t].link = 8 /\ asks'[t].socket = 0

(* The calls of one kind of report or switch, on one socket; or a call that*)
(* nothing is kept of, and one more after it.                              *)
FewCalls ==
  \/ \E name \in DOMAIN KeptBy :
       /\ latest.name = "none" \/ latest.name \in
            {other \in DOMAIN KeptBy : KeptBy[other] = KeptBy[name]}
       /\ MakeCall(name, 32, 0)
  \/ /\ latest.name = "none"
     /\ \E name \in OneCommand \ DOMAIN KeptBy, revision \in {16, 32},
           socket \in {0, 1} : MakeCall(name, revision, socket)
  \/ latest.name \in OneCommand \ DOMAIN KeptBy /\ MakeCall("read_tdp", 32, 0)

MCNext ==
  /\ CASE focus = "pcie" ->
            Next /\ UNCHANGED <<boostVars, wordsVars, linkVars, statVars, callVars>>
       [] focus = "boost" ->
            BoostNext /\ UNCHANGED <<vars, wordsVars, linkVars, statVars, callVars>>
       [] focus = "words" ->
            /\ WordsNext /\ OnlyWatchedMove
            /\ UNCHANGED <<vars, boostVars, linkVars, statVars, callVars>>
       [] focus = "links" ->
            /\ LinkNext /\ FewAsks
            /\ UNCHANGED <<vars, boostVars, wordsVars, statVars, callVars>>
       [] focus = "statistics" ->
            StatNext /\ UNCHANGED <<vars, boostVars, wordsVars, linkVars, callVars>>
       [] focus = "calls" ->
            /\ FewCalls
            /\ UNCHANGED <<vars, boostVars, wordsVars, linkVars, statVars>>
  /\ UNCHANGED focus

MCSpec ==
  MCInit /\ [][MCNext]_<<focus, vars, boostVars, wordsVars, linkVars, statVars, callVars>>
=============================================================================

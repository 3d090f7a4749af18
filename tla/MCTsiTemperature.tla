-------------------------- MODULE MCTsiTemperature --------------------------
(***************************************************************************)
(* The registers that several settings share, one register per behaviour   *)
(* and two clients on it, with every reserved bit set at power-on; two     *)
(* readers of the temperature next to one client that sets READORDER,      *)
(* where the temperature moves over a whole degree; and the pairs of       *)
(* registers of TsiThreshold, with temperatures at both ends of each       *)
(* range, on and off the steps of 1/8 degree, and just outside the range.  *)
(***************************************************************************)
EXTENDS TsiTemperature, TsiThreshold, TLC

CONSTANTS c1, c2

VARIABLE focus   (* what this behaviour is about                           *)

AllOnes == [r \in Register |-> Bit]
Samples == {{}, {0}, {1}, {0, 2}, {3}}
MCCalls == {"alert_threshold", "hbm_alert_threshold", "alert_config",
            "hbm_alert_config", "timeout_config", "readorder", "ara"}
MCKinds == {"threshold", "hbm", "offset"}
MCRequests == {-128 * 16 - 1, -127 * 16 - 3, 128 * 16, 255 * 16 + 15, 256 * 16}
Same == Permutations(Readers) \cup Permutations(Setters)

OnFocus ==
  IF focus \in Register
  THEN \A c \in Clients : Setting[call[c]].register = focus
  ELSE /\ call = [c \in Clients |-> "readorder"]
       /\ pc[c2] = "idle"

MCInit ==
  /\ TemperatureInit
  /\ ThresholdInit
  /\ focus \in Register \cup {"temperature", "threshold"}
  /\ focus # "temperature" => temp = Lowest /\ latch = NoLatch
  /\ focus # "threshold" => kind = "threshold"
  /\ OnFocus

MCNext ==
  /\ CASE focus = "temperature" -> TemperatureNext /\ UNCHANGED thresholdVars
       [] focus = "threshold" -> ThresholdNext /\ UNCHANGED allVars
       [] OTHER -> RegisterStep /\ UNCHANGED thresholdVars
  /\ UNCHANGED focus
  /\ OnFocus'

MCSpec == MCInit /\ [][MCNext]_<<allVars, thresholdVars, focus>>
=============================================================================

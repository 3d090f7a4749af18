---------------------------- MODULE TsiRegisters ----------------------------
(***************************************************************************)
(* The SB-TSI registers whose bits belong to different settings, and the   *)
(* calls of esmi_tsi.c and tsi_mi300.c that change one setting: each reads *)
(* the byte in one ioctl and writes it back, with its own bits replaced,   *)
(* in another.  Any number of clients do so at once; nothing locks the     *)
(* register in between.  CONFIGURATION is read at one address and written  *)
(* at another (CONFIGWR): it is one register here.                         *)
(*                                                                         *)
(* A byte is the set of its bits that are 1: "&" with a mask is \cap, "|"  *)
(* is \cup.                                                                *)
(***************************************************************************)
EXTENDS Integers

CONSTANTS
  Clients,
  Calls,       (* names of the setting calls in use                        *)
  Arguments,   (* the values passed, as bits before any shift              *)
  PowerOn      (* [Register -> SUBSET Bit]: what the registers start with  *)

Bit == 0 .. 7
Register == {"ALERTTHRESHOLD", "ALERTCONFIG", "CONFIGURATION", "TIMEOUTCONFIG"}

ASSUME ArgumentAssumption == Arguments \subseteq SUBSET Bit
ASSUME PowerOnAssumption == PowerOn \in [Register -> SUBSET Bit]

Shift(value, n) == {b + n : b \in value}

(* A call: its register, the bits of prev it keeps, the width of its value, *)
(* where it puts them, and whether it writes a value that is already set.  *)
Call(register, keep, width, shift, always) ==
  [register |-> register, keep |-> keep, width |-> width,
   shift |-> shift, always |-> always]

(* samples - 1, for samples in 1 .. 8 *)
AlertThreshold ==
  Call("ALERTTHRESHOLD", 3 .. 7, 0 .. 2, 0, TRUE)

(* Mutant: the mask of the CPU's call, which does not know the HBM's.      *)
HbmAlertThresholdAlone ==
  Call("ALERTTHRESHOLD", {6, 7}, 0 .. 2, 3, TRUE)

HbmAlertThreshold ==
  Call("ALERTTHRESHOLD", {0, 1, 2, 6, 7}, 0 .. 2, 3, TRUE)
AlertConfig == Call("ALERTCONFIG", 1 .. 7, {0}, 0, TRUE)
HbmAlertConfig == Call("ALERTCONFIG", Bit \ {1}, {0}, 1, FALSE)
TimeoutConfig == Call("TIMEOUTCONFIG", 0 .. 6, {0}, 7, TRUE)

(* mode ? prev | mask : prev & ~mask is one replacement of the mask's bit. *)
ConfigWr(mask) == Call("CONFIGURATION", Bit \ {mask}, {0}, mask, TRUE)

Setting == [
  alert_threshold     |-> AlertThreshold,
  hbm_alert_threshold |-> HbmAlertThreshold,
  alert_config        |-> AlertConfig,
  hbm_alert_config    |-> HbmAlertConfig,
  timeout_config      |-> TimeoutConfig,
  alert_mask          |-> ConfigWr(7),
  runstop             |-> ConfigWr(6),
  readorder           |-> ConfigWr(5),
  ara                 |-> ConfigWr(1)]

ASSUME CallAssumption == Calls \subseteq DOMAIN Setting

VARIABLES
  reg,         (* the registers                                            *)
  pc,          (* each client's next step                                  *)
  call,        (* the call it makes: the name of a setting                 *)
  value,       (* the bits it sets, in place                               *)
  prev,        (* the byte it read                                         *)
  intended,    (* history: the registers if every call that succeeded had  *)
               (* changed the bits of its own setting only                 *)
  contended    (* history: registers that a client wrote after another     *)
               (* client had changed them since its read                   *)

vars == <<reg, pc, call, value, prev, intended, contended>>

(* The bits a setting owns. *)
Own(name) == Shift(Setting[name].width, Setting[name].shift)

(* The bits of a register that no setting owns. *)
Reserved(r) == Bit \ UNION {Own(n) : n \in {m \in Calls : Setting[m].register = r}}

Init ==
  /\ reg = PowerOn
  /\ pc = [c \in Clients |-> "idle"]
  /\ call \in [Clients -> Calls]
  /\ value = [c \in Clients |-> {}]
  /\ prev = [c \in Clients |-> {}]
  /\ intended = PowerOn
  /\ contended = {}

-----------------------------------------------------------------------------
(* Back to the caller, with whatever status. *)
Return(c) ==
  /\ pc' = [pc EXCEPT ![c] = "idle"]
  /\ value' = [value EXCEPT ![c] = {}]
  /\ prev' = [prev EXCEPT ![c] = {}]

Intend(name, new) ==
  intended' = [intended EXCEPT ![Setting[name].register] =
                 (@ \ Own(name)) \cup (new \cap Own(name))]

(* The read, and the success of the one call that finds its value there. *)
ReadValue(c, name, v) ==
  LET s == Setting[name]
      new == Shift(v, s.shift)
      byte == reg[s.register]
  IN /\ pc[c] = "idle"
     /\ call' = [call EXCEPT ![c] = name]
     /\ IF ~s.always /\ byte \cap Own(name) = new
        THEN Return(c) /\ Intend(name, new)
        ELSE /\ pc' = [pc EXCEPT ![c] = "write"]
             /\ value' = [value EXCEPT ![c] = new]
             /\ prev' = [prev EXCEPT ![c] = byte]
             /\ UNCHANGED intended
     /\ UNCHANGED <<reg, contended>>

(* Mutant: samples = 9 is not refused. *)
ReadUnvalidated(c, name, v) == ReadValue(c, name, v)

(* A value out of range is refused before any access. *)
Read(c, name, v) ==
  /\ v \subseteq Setting[name].width
  /\ ReadValue(c, name, v)

WriteByte(c, byte) ==
  LET r == Setting[call[c]].register
  IN /\ pc[c] = "write"
     /\ reg' = [reg EXCEPT ![r] = byte]
     /\ Intend(call[c], value[c])
     /\ contended' = IF prev[c] = reg[r] THEN contended ELSE contended \cup {r}
     /\ Return(c)
     /\ UNCHANGED call

(* Mutant: the value alone is written. *)
WriteOverAll(c) == WriteByte(c, value[c])

Write(c) ==
  WriteByte(c, (prev[c] \cap Setting[call[c]].keep) \cup value[c])

(* The write may fail (a read that fails changes nothing at all). *)
Fail(c) ==
  /\ pc[c] = "write"
  /\ Return(c)
  /\ UNCHANGED <<reg, call, intended, contended>>

Next ==
  \E c \in Clients :
    \/ \E name \in Calls, v \in Arguments : Read(c, name, v)
    \/ Write(c)
    \/ Fail(c)

Spec == Init /\ [][Next]_vars

-----------------------------------------------------------------------------
TypeOK ==
  /\ reg \in [Register -> SUBSET Bit]
  /\ pc \in [Clients -> {"idle", "write"}]
  /\ call \in [Clients -> Calls]
  /\ value \in [Clients -> SUBSET Bit]
  /\ prev \in [Clients -> SUBSET Bit]
  /\ intended \in [Register -> SUBSET Bit]
  /\ contended \in SUBSET Register

(* As long as no call on a register writes over another client's change,   *)
(* every setting of the register is what its last successful call asked    *)
(* for: the calls for the CPU and for the HBM thresholds, which share a    *)
(* byte, never disturb each other, and an out-of-range value, a failed     *)
(* access or a skipped write changes nothing.                              *)
UncontendedUpdatesSurvive ==
  \A r \in Register \ contended : reg[r] = intended[r]

(* Bits that no setting owns keep their power-on value, whatever calls     *)
(* race: a stale byte that is written back differs in owned bits only.     *)
ReservedBitsKept ==
  \A r \in Register :
    reg[r] \cap Reserved(r) = PowerOn[r] \cap Reserved(r)

-----------------------------------------------------------------------------
(* What a setting is, to its callers: its own bits, without the shift.     *)
Field(name, byte) ==
  {b \in Setting[name].width : b + Setting[name].shift \in byte}

Sharing == [n \in Calls |-> {m \in Calls : Setting[m].register = Setting[n].register}]

Writing(c) == pc[c] = "write"
SettingNow == [n \in Calls |-> Field(n, reg[Setting[n].register])]
AskedNow == [c \in Clients |-> IF Writing(c) THEN call[c] ELSE "none"]
WantedNow == [c \in Clients |-> IF Writing(c) THEN Field(call[c], value[c]) ELSE {}]
SawNow == [c \in Clients |-> IF Writing(c)
                              THEN [n \in Sharing[call[c]] |-> Field(n, prev[c])]
                              ELSE << >>]

Store == INSTANCE SettingsStore WITH
  Settings   <- Calls,
  Values     <- [n \in Calls |-> SUBSET Setting[n].width],
  Neighbours <- Sharing,
  setting    <- SettingNow,
  asked      <- AskedNow,
  wanted     <- WantedNow,
  saw        <- SawNow

(* The calls implement settings of their own: each is set in one step, and *)
(* the settings whose byte it shares are put back together to one moment   *)
(* of the call at worst.  No mask, shift or range of one setting reaches   *)
(* into another, however the reads and writes of the clients mix, and a    *)
(* failure changes nothing.                                                *)
ImplementsSettings == Store!Spec
=============================================================================

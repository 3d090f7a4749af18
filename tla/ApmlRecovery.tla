---------------------------- MODULE ApmlRecovery ----------------------------
(***************************************************************************)
(* apml_recover_dev of apml_recovery.c: the workaround for the erratum     *)
(* after which a device stops answering.  Each of the two devices of a     *)
(* socket can be recovered through the other one: a client sets a request  *)
(* bit in a register of the peer (bit 0 of SBTSI_CONFIGURATION for SBRMI,  *)
(* bit 1 of SBRMI_CONTROL for SBTSI), polls until the hardware clears it,  *)
(* at most MAX_RETRY + 1 times, and reads the revision of the device.      *)
(*                                                                         *)
(* sbtsi_set_configwr of esmi_tsi.c reads and writes the same              *)
(* SBTSI_CONFIGURATION in two ioctls and knows nothing of the request bit; *)
(* it takes part with the clients' steps in any order.                     *)
(***************************************************************************)
EXTENDS Integers

CONSTANTS
  Clients,     (* processes that call apml_recover_dev                     *)
  Setters,     (* processes that call sbtsi_set_configwr                   *)
  Flags,       (* the other bits of the registers                          *)
  MAX_RETRY

ASSUME RetryAssumption == MAX_RETRY \in Nat
ASSUME ActorAssumption == Clients \cap Setters = {} /\ "rec" \notin Flags

VARIABLES
  hung,        (* devices that do not answer                               *)
  reg,         (* bits set in each device's register; "rec" asks the       *)
               (* hardware to recover the other device                     *)
  pc, target,  (* each client's next step, the device it recovers          *)
  config,      (* the local copy of the register                           *)
  retry, ret,
  cleared,     (* history: the client's last poll found the bit clear      *)
  recovered,   (* history: the hardware recovered the target since the     *)
               (* client's request                                         *)
  overwritten, (* history: a setter wrote the register without the bit     *)
               (* since the client's request                               *)
  owed,        (* history: a client requested recovery of the device since *)
               (* the hardware last recovered it                           *)
  stale        (* history: a setter wrote the request bit back as it had   *)
               (* read it, and the hardware has not recovered since        *)

hardware == <<hung, reg>>
history == <<cleared, recovered, overwritten, owed, stale>>
vars == <<hardware, pc, target, config, retry, ret, history>>

Device == {"sbrmi", "sbtsi"}
Peer(d) == IF d = "sbrmi" THEN "sbtsi" ELSE "sbrmi"
Bits == Flags \cup {"rec"}
Actors == Clients \cup Setters
ClientLocations == {"idle", "probe", "read", "request", "poll", "verify"}
SetterLocations == {"idle", "write"}

Init ==
  /\ hung \in SUBSET Device
  /\ reg \in [Device -> SUBSET Flags]
  /\ pc = [a \in Actors |-> "idle"]
  /\ target \in [Clients -> Device]
  /\ config = [a \in Actors |-> {}]
  /\ retry = [c \in Clients |-> MAX_RETRY]
  /\ ret = [c \in Clients |-> "none"]
  /\ cleared = [c \in Clients |-> FALSE]
  /\ recovered = [c \in Clients |-> FALSE]
  /\ overwritten = [c \in Clients |-> FALSE]
  /\ owed = [d \in Device |-> FALSE]
  /\ stale = [d \in Device |-> FALSE]

-----------------------------------------------------------------------------
(* The hardware. *)

Hang(d) ==
  /\ d \notin hung
  /\ hung' = hung \cup {d}
  /\ UNCHANGED <<reg, pc, target, config, retry, ret, history>>

Recover(d) ==
  /\ "rec" \in reg[Peer(d)]
  /\ reg' = [reg EXCEPT ![Peer(d)] = @ \ {"rec"}]
  /\ hung' = hung \ {d}
  /\ recovered' = [c \in Clients |-> recovered[c] \/ target[c] = d]
  /\ owed' = [owed EXCEPT ![d] = FALSE]
  /\ stale' = [stale EXCEPT ![d] = FALSE]
  /\ UNCHANGED <<pc, target, config, retry, ret, cleared, overwritten>>

-----------------------------------------------------------------------------
(* apml_recover_sbrmi and apml_recover_sbtsi, one action per ioctl. *)

Goto(a, from, to) ==
  /\ pc[a] = from
  /\ pc' = [pc EXCEPT ![a] = to]

Answers(c) == Peer(target[c]) \notin hung

Begin(c, d) ==
  /\ Goto(c, "idle", "probe")
  /\ target' = [target EXCEPT ![c] = d]
  /\ retry' = [retry EXCEPT ![c] = MAX_RETRY]
  /\ ret' = [ret EXCEPT ![c] = "none"]
  /\ cleared' = [cleared EXCEPT ![c] = FALSE]
  /\ recovered' = [recovered EXCEPT ![c] = FALSE]
  /\ overwritten' = [overwritten EXCEPT ![c] = FALSE]
  /\ UNCHANGED <<hardware, config, owed, stale>>

ProbePeer(c) ==
  /\ Goto(c, "probe", "read")
  /\ Answers(c)
  /\ UNCHANGED <<hardware, target, config, retry, ret, history>>

ReadRegister(c) ==
  /\ Goto(c, "read", "request")
  /\ Answers(c)
  /\ config' = [config EXCEPT ![c] = reg[Peer(target[c])]]
  /\ UNCHANGED <<hardware, target, retry, ret, history>>

(* Mutant: the register is written back without the request bit. *)
RequestUnmasked(c) ==
  /\ Goto(c, "request", "poll")
  /\ Answers(c)
  /\ reg' = [reg EXCEPT ![Peer(target[c])] = config[c]]
  /\ recovered' = [recovered EXCEPT ![c] = FALSE]
  /\ overwritten' = [overwritten EXCEPT ![c] = FALSE]
  /\ owed' = [owed EXCEPT ![target[c]] = TRUE]
  /\ UNCHANGED <<hung, target, config, retry, ret, cleared, stale>>

RequestRecovery(c) ==
  /\ Goto(c, "request", "poll")
  /\ Answers(c)
  /\ config' = [config EXCEPT ![c] = @ \cup {"rec"}]
  /\ reg' = [reg EXCEPT ![Peer(target[c])] = config'[c]]
  /\ recovered' = [recovered EXCEPT ![c] = FALSE]
  /\ overwritten' = [overwritten EXCEPT ![c] = FALSE]
  /\ owed' = [owed EXCEPT ![target[c]] = TRUE]
  /\ UNCHANGED <<hung, target, retry, ret, cleared, stale>>

(* One round of the loop, the last one with retry = last. *)
PollUntil(c, last, used) ==
  LET current == reg[Peer(target[c])]
      pending == "rec" \in current
  IN /\ Goto(c, "poll", IF pending /\ retry[c] # last THEN "poll" ELSE "verify")
     /\ Answers(c)
     /\ config' = [config EXCEPT ![c] = current]
     /\ retry' = [retry EXCEPT ![c] = IF pending THEN @ - used ELSE @]
     /\ cleared' = [cleared EXCEPT ![c] = ~pending]
     /\ UNCHANGED <<hardware, target, ret, recovered, overwritten,
                    owed, stale>>

(* Mutants: one poll too many; the retries are not counted. *)
PollOnceMore(c) == PollUntil(c, -1, 1)
PollUncounted(c) == PollUntil(c, 0, 0)

(* The loop leaves with the bit clear or with the last retry used up; what *)
(* follows is the same.                                                    *)
Poll(c) == PollUntil(c, 0, 1)

Return(c, status) ==
  /\ pc' = [pc EXCEPT ![c] = "idle"]
  /\ ret' = [ret EXCEPT ![c] = status]
  /\ config' = [config EXCEPT ![c] = {}]
  /\ UNCHANGED <<hardware, target, retry, history>>

VerifyTarget(c) ==
  /\ pc[c] = "verify"
  /\ target[c] \notin hung
  /\ Return(c, "success")

(* Any access may fail, and one to a device that hangs does. *)
Fail(c) ==
  /\ pc[c] # "idle"
  /\ Return(c, "error")

(* The failure of an access to a device that hangs. *)
FailHung(c) ==
  /\ IF pc[c] = "verify" THEN target[c] \in hung ELSE ~Answers(c)
  /\ Fail(c)

ClientStep(c) ==
  \/ ProbePeer(c) \/ ReadRegister(c) \/ RequestRecovery(c)
  \/ Poll(c) \/ VerifyTarget(c) \/ Fail(c)

-----------------------------------------------------------------------------
(* sbtsi_set_configwr. *)

SetRead(s) ==
  /\ Goto(s, "idle", "write")
  /\ "sbtsi" \notin hung
  /\ config' = [config EXCEPT ![s] = reg["sbtsi"]]
  /\ UNCHANGED <<hardware, target, retry, ret, history>>

Write(s, flag, mode) ==
  LET new == IF mode = 1 THEN config[s] \cup {flag} ELSE config[s] \ {flag}
  IN /\ Goto(s, "write", "idle")
     /\ "sbtsi" \notin hung
     /\ reg' = [reg EXCEPT !["sbtsi"] = new]
     /\ config' = [config EXCEPT ![s] = {}]
     /\ overwritten' = [c \in Clients |->
                          \/ overwritten[c]
                          \/ target[c] = "sbrmi" /\ "rec" \notin new]
     /\ stale' = [stale EXCEPT !["sbrmi"] = @ \/ "rec" \in config[s]]
     /\ UNCHANGED <<hung, target, retry, ret, cleared, recovered, owed>>

(* Mutant: the mask is not validated. *)
SetWriteAnyMask(s, flag, mode) == Write(s, flag, mode)

(* The mask is one of the flags; the request bit is refused. *)
SetWrite(s, flag, mode) ==
  /\ flag \in Flags
  /\ Write(s, flag, mode)

SetFail(s) ==
  /\ Goto(s, "write", "idle")
  /\ config' = [config EXCEPT ![s] = {}]
  /\ UNCHANGED <<hardware, target, retry, ret, history>>

SetterStep(s) ==
  \/ SetRead(s) \/ SetFail(s)
  \/ \E flag \in Bits, mode \in {0, 1} : SetWrite(s, flag, mode)

-----------------------------------------------------------------------------
Next ==
  \/ \E d \in Device : Hang(d) \/ Recover(d)
  \/ \E c \in Clients : ClientStep(c) \/ \E d \in Device : Begin(c, d)
  \/ \E s \in Setters : SetterStep(s)

(* A caller runs on, and an ioctl to a device that hangs fails; no other   *)
(* failure, no answer of the hardware and no new call is owed.             *)
Fairness ==
  \A c \in Clients :
    WF_vars(\/ ProbePeer(c) \/ ReadRegister(c) \/ RequestRecovery(c)
            \/ Poll(c) \/ VerifyTarget(c) \/ FailHung(c))

Spec == Init /\ [][Next]_vars
FairSpec == Spec /\ Fairness

-----------------------------------------------------------------------------
TypeOK ==
  /\ hung \in SUBSET Device
  /\ reg \in [Device -> SUBSET Bits]
  /\ pc \in [Actors -> ClientLocations \cup SetterLocations]
  /\ target \in [Clients -> Device]
  /\ config \in [Actors -> SUBSET Bits]
  /\ retry \in [Clients -> -1 .. MAX_RETRY]
  /\ ret \in [Clients -> {"none", "success", "error"}]
  /\ cleared \in [Clients -> BOOLEAN]
  /\ recovered \in [Clients -> BOOLEAN]
  /\ overwritten \in [Clients -> BOOLEAN]
  /\ owed \in [Device -> BOOLEAN]
  /\ stale \in [Device -> BOOLEAN]

(* A poll that finds the request bit clear means that the hardware really  *)
(* recovered the device after this client's own request - however many     *)
(* clients recover both devices at once - unless a setter put an older     *)
(* configuration back over the request.  Only recovery of SBRMI can be     *)
(* hit: nothing else writes SBRMI_CONTROL.                                 *)
ClearedMeansRecovered ==
  \A c \in Clients :
    cleared[c] => recovered[c] \/ (target[c] = "sbrmi" /\ overwritten[c])

(* The hardware is asked to recover a device only while a client's request *)
(* is unserved, or because a setter wrote back a request bit it had read   *)
(* before the hardware cleared it: a setter cannot start a recovery        *)
(* otherwise, and recovery of SBTSI never starts on its own.               *)
NoSpuriousRequest ==
  \A d \in Device :
    "rec" \in reg[Peer(d)] => owed[d] \/ (d = "sbrmi" /\ stale[d])

(* Success means recovery: a call returns OOB_SUCCESS only after it found  *)
(* its request served.                                                     *)
SuccessMeansServed ==
  \A c \in Clients : ret[c] = "success" => cleared[c]

(* The poll loop is bounded: every call returns, also when the hardware    *)
(* never serves the request.                                               *)
CallsReturn ==
  \A c \in Clients : pc[c] # "idle" ~> pc[c] = "idle"
=============================================================================

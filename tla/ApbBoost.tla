------------------------------ MODULE ApbBoost ------------------------------
(***************************************************************************)
(* Fixing the data fabric P-state or giving it back to the boost algorithm *)
(* (write_apb_disable, write_apb_enable of esmi_mailbox.c): a mailbox      *)
(* command reads PROCHOT, and only while it is not asserted a second one   *)
(* changes the setting.  The caller learns from a variable of its own      *)
(* which of the two happened; both return OOB_SUCCESS.                     *)
(***************************************************************************)
EXTENDS Integers

CONSTANTS
  Boosters,
  Asked,         (* the P-states callers ask for                           *)
  CallersClear   (* callers set their variable to FALSE before each call   *)

MaxDfPstate == 2
Enabled == -1

VARIABLES
  prochot,     (* PROCHOT, as the hardware has it                          *)
  boost,       (* the P-state fixed, or Enabled                            *)
  phase, wants, asserted, reply,   (* each client's state and variables    *)
  seen,        (* history: PROCHOT was asserted at some moment of the call *)
  wrote        (* history: clients whose call changed the setting          *)

boostVars == <<prochot, boost, phase, wants, asserted, reply, seen, wrote>>

BoostInit ==
  /\ prochot \in BOOLEAN
  /\ boost \in {Enabled} \cup 0 .. MaxDfPstate
  /\ phase = [c \in Boosters |-> "idle"]
  /\ wants = [c \in Boosters |-> Enabled]
  /\ asserted = [c \in Boosters |-> FALSE]
  /\ reply = [c \in Boosters |-> "none"]
  /\ seen = [c \in Boosters |-> FALSE]
  /\ wrote = {}

Toggle ==
  /\ prochot' = ~prochot
  /\ seen' = [c \in Boosters |-> seen[c] \/ (phase[c] # "idle" /\ prochot')]
  /\ UNCHANGED <<boost, phase, wants, asserted, reply, wrote>>

(* Mutant: one P-state too many is accepted. *)
AcceptsOneMore(p) == p <= MaxDfPstate + 1

AcceptsState(p) == p <= MaxDfPstate

BeginBoost(c, p) ==
  /\ phase[c] = "idle"
  /\ wants' = [wants EXCEPT ![c] = p]
  /\ asserted' = [asserted EXCEPT ![c] = IF CallersClear THEN FALSE ELSE @]
  /\ seen' = [seen EXCEPT ![c] = prochot]
  /\ IF AcceptsState(p)
     THEN /\ phase' = [phase EXCEPT ![c] = "check"]
          /\ reply' = [reply EXCEPT ![c] = "none"]
     ELSE /\ reply' = [reply EXCEPT ![c] = "invalid_input"]
          /\ UNCHANGED phase
  /\ wrote' = wrote \ {c}
  /\ UNCHANGED <<prochot, boost>>

ReturnBoost(c, answer) ==
  /\ phase' = [phase EXCEPT ![c] = "idle"]
  /\ reply' = [reply EXCEPT ![c] = answer]

CheckProchotFor(c, stop) ==
  /\ phase[c] = "check"
  /\ \/ /\ stop
        /\ asserted' = [asserted EXCEPT ![c] = TRUE]
        /\ ReturnBoost(c, "success")
     \/ /\ ~stop
        /\ phase' = [phase EXCEPT ![c] = "write"]
        /\ UNCHANGED <<asserted, reply>>
  /\ UNCHANGED <<prochot, boost, wants, seen, wrote>>

(* Mutant: PROCHOT is reported, and the setting changed all the same. *)
CheckProchotGoesOn(c) ==
  /\ phase[c] = "check"
  /\ phase' = [phase EXCEPT ![c] = "write"]
  /\ asserted' = [asserted EXCEPT ![c] = @ \/ prochot]
  /\ UNCHANGED <<prochot, boost, wants, reply, seen, wrote>>

(* Mutant: the test of the status is turned round. *)
CheckProchotInverted(c) == CheckProchotFor(c, ~prochot)

CheckProchot(c) == CheckProchotFor(c, prochot)

SetBoost(c) ==
  /\ boost' = wants[c]
  /\ wrote' = wrote \cup {c}

WriteBoost(c) ==
  /\ phase[c] = "write"
  /\ SetBoost(c)
  /\ ReturnBoost(c, "success")
  /\ UNCHANGED <<prochot, wants, asserted, seen>>

(* Either command fails; a write that fails may have been done.            *)
FailBoost(c) ==
  /\ phase[c] \in {"check", "write"}
  /\ UNCHANGED <<boost, wrote>> \/ (phase[c] = "write" /\ SetBoost(c))
  /\ ReturnBoost(c, "error")
  /\ UNCHANGED <<prochot, wants, asserted, seen>>

BoostNext ==
  \/ Toggle
  \/ \E c \in Boosters :
       \/ \E p \in Asked \cup {Enabled} : BeginBoost(c, p)
       \/ CheckProchot(c)
       \/ WriteBoost(c)
       \/ FailBoost(c)

BoostSpec == BoostInit /\ [][BoostNext]_boostVars
-----------------------------------------------------------------------------
BoostTypeOK ==
  /\ prochot \in BOOLEAN
  /\ boost \in {Enabled} \cup 0 .. MaxDfPstate
  /\ phase \in [Boosters -> {"idle", "check", "write"}]
  /\ wants \in [Boosters -> Asked \cup {Enabled}]
  /\ asserted \in [Boosters -> BOOLEAN]
  /\ reply \in [Boosters -> {"none", "success", "error", "invalid_input"}]
  /\ seen \in [Boosters -> BOOLEAN]
  /\ wrote \subseteq Boosters

(* A successful call either changed the setting or tells its caller that   *)
(* PROCHOT was asserted, and never both or neither.                        *)
ChangedOrTold ==
  \A c \in Boosters : reply[c] = "success" => (c \in wrote <=> ~asserted[c])

(* A caller told that PROCHOT is asserted was told so because it was, at   *)
(* some moment of the call.                                                *)
AssertedWasSeen ==
  \A c \in Boosters : reply[c] = "success" /\ asserted[c] => seen[c]
=============================================================================

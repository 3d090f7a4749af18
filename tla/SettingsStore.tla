--------------------------- MODULE SettingsStore ---------------------------
(***************************************************************************)
(* What the callers of the setters of SB-TSI may rely on (sbtsi_set_* of   *)
(* esmi_tsi.c, set_sbtsi_* and sbtsi_set_hbm_* of tsi_mi300.c), without    *)
(* registers, masks and shifts: a call sets its own setting in one step.   *)
(* Of the other settings it touches only its neighbours, and can do no     *)
(* more to them than put them back, all together, to what they were at one *)
(* moment of the call; so that nothing happens to them when nobody sets    *)
(* them meanwhile.                                                         *)
(***************************************************************************)
CONSTANTS
  Clients,
  Settings,
  Values,      (* the values of each setting                               *)
  Neighbours   (* the settings each one is kept together with, itself too  *)

VARIABLES
  setting,     (* the value of each setting                                *)
  asked,       (* the setting each client's call is for, or NoCall         *)
  wanted,      (* what that call wants it to be                            *)
  saw          (* the neighbours as they were at one moment of the call    *)

vars == <<setting, asked, wanted, saw>>

NoCall == "none"
Nothing == {}
NoView == << >>

Init ==
  /\ setting \in [Settings -> UNION {Values[s] : s \in Settings}]
  /\ \A s \in Settings : setting[s] \in Values[s]
  /\ asked = [c \in Clients |-> NoCall]
  /\ wanted = [c \in Clients |-> Nothing]
  /\ saw = [c \in Clients |-> NoView]

Begin(c, s) ==
  /\ asked[c] = NoCall
  /\ asked' = [asked EXCEPT ![c] = s]
  /\ \E v \in Values[s] : wanted' = [wanted EXCEPT ![c] = v]
  /\ saw' = [saw EXCEPT ![c] = [n \in Neighbours[s] |-> setting[n]]]
  /\ UNCHANGED setting

End(c) ==
  /\ asked[c] # NoCall
  /\ asked' = [asked EXCEPT ![c] = NoCall]
  /\ wanted' = [wanted EXCEPT ![c] = Nothing]
  /\ saw' = [saw EXCEPT ![c] = NoView]

Complete(c) ==
  /\ End(c)
  /\ setting' = [n \in Settings |->
                   IF n = asked[c] THEN wanted[c]
                   ELSE IF n \in Neighbours[asked[c]] THEN saw[c][n]
                   ELSE setting[n]]

(* A call that fails has changed nothing.                                  *)
Abort(c) == End(c) /\ UNCHANGED setting

Next ==
  \E c \in Clients :
    \/ \E s \in Settings : Begin(c, s)
    \/ Complete(c)
    \/ Abort(c)

Spec == Init /\ [][Next]_vars
=============================================================================

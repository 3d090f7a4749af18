-------------------------- MODULE CounterSnapshot --------------------------
(***************************************************************************)
(* What a caller of read_rapl_core_energy_counters and                     *)
(* read_rapl_pckg_energy_counters may rely on, without the mailbox: a call *)
(* that completes returns a value the counter really held at some moment   *)
(* between the start and the end of the call.  The counter is one value    *)
(* here; RaplEnergy reads it as two words, one mailbox command at a time.  *)
(***************************************************************************)
CONSTANTS
  Readers,   (* threads that call the library                              *)
  Counters,  (* 64-bit energy counters of the sockets                      *)
  Values     (* what a counter can hold                                    *)

VARIABLES
  value,     (* current value of each counter                              *)
  active,    (* is a call of the reader under way                          *)
  target,    (* the counter the reader's last call reads                   *)
  window,    (* every value the target held since the call began           *)
  result     (* the value the reader's last completed call returned        *)

vars == <<value, active, target, window, result>>

Init ==
  /\ value \in [Counters -> Values]
  /\ active = [r \in Readers |-> FALSE]
  /\ target \in [Readers -> Counters]
  /\ window = [r \in Readers |-> {}]
  /\ result \in [Readers -> Values]

(* The hardware moves a counter on under every call that is reading it. *)
Advance(c) ==
  \E v \in Values :
    /\ value' = [value EXCEPT ![c] = v]
    /\ window' = [r \in Readers |->
                    IF active[r] /\ target[r] = c THEN window[r] \cup {v}
                                                  ELSE window[r]]
    /\ UNCHANGED <<active, target, result>>

Begin(r, c) ==
  /\ ~active[r]
  /\ active' = [active EXCEPT ![r] = TRUE]
  /\ target' = [target EXCEPT ![r] = c]
  /\ window' = [window EXCEPT ![r] = {value[c]}]
  /\ UNCHANGED <<value, result>>

Complete(r) ==
  /\ active[r]
  /\ \E v \in window[r] : result' = [result EXCEPT ![r] = v]
  /\ active' = [active EXCEPT ![r] = FALSE]
  /\ window' = [window EXCEPT ![r] = {}]
  /\ UNCHANGED <<value, target>>

(* A call that fails returns nothing: the caller's buffer keeps its value. *)
Abort(r) ==
  /\ active[r]
  /\ active' = [active EXCEPT ![r] = FALSE]
  /\ window' = [window EXCEPT ![r] = {}]
  /\ UNCHANGED <<value, target, result>>

Next ==
  \/ \E c \in Counters : Advance(c)
  \/ \E r \in Readers : \/ \E c \in Counters : Begin(r, c)
                        \/ Complete(r)
                        \/ Abort(r)

Spec == Init /\ [][Next]_vars
=============================================================================

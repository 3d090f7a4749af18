----------------------------- MODULE RaplEnergy -----------------------------
(***************************************************************************)
(* read_rapl_core_energy_counters and read_rapl_pckg_energy_counters of    *)
(* esmi_mailbox.c.  The SMU offers a 64-bit energy counter as two 32-bit   *)
(* words, each behind a mailbox command of its own, and counts on between  *)
(* the commands.  The library reads high, low, high and, when the high     *)
(* word moved, low again; then it scales the result with esu_multiplier, a *)
(* float that all threads and all sockets share and that is zero until the *)
(* first call fills it.                                                    *)
(*                                                                         *)
(* One action per mailbox command (the driver serialises them, nothing     *)
(* serialises the sequence), per access to the shared float, and per step  *)
(* of the hardware.  A word has W values instead of 2^32.                  *)
(***************************************************************************)
EXTENDS Integers

CONSTANTS
  Readers,       (* threads of one process                                 *)
  Counters,      (* core and package counters                              *)
  Sockets,
  SocketOf,      (* [Counters -> Sockets]                                  *)
  EsuOf,         (* [Sockets -> Esus]: bits 12:8 of READ_BMC_RAPL_UNITS    *)
  Esus,
  W,             (* values of a word                                       *)
  NoMultiplier   (* esu_multiplier == 0, its initial value                 *)

ASSUME WordAssumption == W \in Nat /\ W >= 2
ASSUME UnitAssumption ==
  /\ SocketOf \in [Counters -> Sockets]
  /\ EsuOf \in [Sockets -> Esus]
  /\ NoMultiplier \notin Esus

VARIABLES
  hi, lo,          (* the words of every counter in the hardware           *)
  esu_multiplier,  (* the exponent it was computed from, or NoMultiplier   *)
  pc,              (* next step of each reader's call                      *)
  counter,         (* the counter the call reads                           *)
  hi_counter, lo_counter, new_hi_counter,  (* the call's locals            *)
  ret,             (* status of the reader's last call                     *)
  energy,          (* the caller's buffer: a 64-bit value and its scale    *)
  window,          (* history: values the counter held during the call     *)
  carried          (* history: a carry since the call's first word         *)

locals == <<counter, hi_counter, lo_counter, new_hi_counter>>
hardware == <<hi, lo>>
vars == <<hardware, esu_multiplier, pc, locals, ret, energy, window, carried>>

Word == 0 .. W - 1
Value == Word \X Word
Multiplier == Esus \cup {NoMultiplier}
Locations == {"idle", "hi", "lo", "newhi", "relo", "check", "units", "convert"}

(* The locations between the first and the last command on the counter. *)
Between == {"lo", "newhi", "relo"}

Init ==
  /\ hi \in [Counters -> Word]
  /\ lo \in [Counters -> Word]
  /\ esu_multiplier = NoMultiplier
  /\ pc = [r \in Readers |-> "idle"]
  /\ counter \in [Readers -> Counters]
  /\ hi_counter = [r \in Readers |-> 0]
  /\ lo_counter = [r \in Readers |-> 0]
  /\ new_hi_counter = [r \in Readers |-> 0]
  /\ ret = [r \in Readers |-> "none"]
  /\ energy = [r \in Readers |-> [value |-> <<0, 0>>, esu |-> NoMultiplier]]
  /\ window = [r \in Readers |-> {}]
  /\ carried = [r \in Readers |-> FALSE]

-----------------------------------------------------------------------------
(* The hardware. *)

Succ(word) == IF word = W - 1 THEN 0 ELSE word + 1

Reading(r, c) == pc[r] # "idle" /\ counter[r] = c

Move(c, high, low) ==
  /\ hi' = [hi EXCEPT ![c] = high]
  /\ lo' = [lo EXCEPT ![c] = low]
  /\ window' = [r \in Readers |->
                  IF Reading(r, c) THEN window[r] \cup {<<high, low>>}
                                   ELSE window[r]]
  /\ UNCHANGED <<esu_multiplier, pc, locals, ret, energy>>

Count(c) ==
  /\ \E low \in lo[c] + 1 .. W - 1 : Move(c, hi[c], low)
  /\ UNCHANGED carried

(* The low word wraps.  Timing assumption: once between the first and the  *)
(* last command of a call, which are milliseconds apart while the low word *)
(* takes minutes to wrap.                                                  *)
Carry(c) ==
  /\ \A r \in Readers : counter[r] = c /\ pc[r] \in Between => ~carried[r]
  /\ \E low \in 0 .. lo[c] : Move(c, Succ(hi[c]), low)
  /\ carried' = [r \in Readers |->
                   carried[r] \/ (counter[r] = c /\ pc[r] \in Between)]

-----------------------------------------------------------------------------
(* A call. *)

Goto(r, from, to) ==
  /\ pc[r] = from
  /\ pc' = [pc EXCEPT ![r] = to]

Begin(r, c) ==
  /\ Goto(r, "idle", "hi")
  /\ counter' = [counter EXCEPT ![r] = c]
  /\ ret' = [ret EXCEPT ![r] = "none"]
  /\ window' = [window EXCEPT ![r] = {<<hi[c], lo[c]>>}]
  /\ UNCHANGED <<hardware, esu_multiplier, hi_counter, lo_counter,
                 new_hi_counter, energy, carried>>

ReadHi(r) ==
  /\ Goto(r, "hi", "lo")
  /\ hi_counter' = [hi_counter EXCEPT ![r] = hi[counter[r]]]
  /\ carried' = [carried EXCEPT ![r] = FALSE]
  /\ UNCHANGED <<hardware, esu_multiplier, counter, lo_counter,
                 new_hi_counter, ret, energy, window>>

ReadLo(r) ==
  /\ Goto(r, "lo", "newhi")
  /\ lo_counter' = [lo_counter EXCEPT ![r] = lo[counter[r]]]
  /\ UNCHANGED <<hardware, esu_multiplier, counter, hi_counter,
                 new_hi_counter, ret, energy, window, carried>>

(* Mutant: the comparison of the high words (line 1007) is missing. *)
ReadNewHiUnchecked(r) ==
  /\ Goto(r, "newhi", "check")
  /\ new_hi_counter' = [new_hi_counter EXCEPT ![r] = hi[counter[r]]]
  /\ UNCHANGED <<hardware, esu_multiplier, counter, hi_counter,
                 lo_counter, ret, energy, window, carried>>

ReadNewHi(r) ==
  LET high == hi[counter[r]]
  IN /\ Goto(r, "newhi", IF hi_counter[r] # high THEN "relo" ELSE "check")
     /\ new_hi_counter' = [new_hi_counter EXCEPT ![r] = high]
     /\ UNCHANGED <<hardware, esu_multiplier, counter, hi_counter,
                    lo_counter, ret, energy, window, carried>>

(* Mutant: the low word of the first read is kept. *)
RereadLoKept(r) ==
  /\ Goto(r, "relo", "check")
  /\ UNCHANGED <<hardware, esu_multiplier, locals, ret, energy, window,
                 carried>>

RereadLo(r) ==
  /\ Goto(r, "relo", "check")
  /\ lo_counter' = [lo_counter EXCEPT ![r] = lo[counter[r]]]
  /\ UNCHANGED <<hardware, esu_multiplier, counter, hi_counter,
                 new_hi_counter, ret, energy, window, carried>>

CheckMultiplier(r) ==
  /\ Goto(r, "check", IF esu_multiplier = NoMultiplier THEN "units"
                                                       ELSE "convert")
  /\ UNCHANGED <<hardware, esu_multiplier, locals, ret, energy, window,
                 carried>>

(* Mutant: the time unit (bits 19:16), 10, is taken for the energy unit. *)
ReadUnitsTime(r) ==
  /\ Goto(r, "units", "convert")
  /\ esu_multiplier' = 10
  /\ UNCHANGED <<hardware, locals, ret, energy, window, carried>>

(* Mutant: the units are read, but not stored in esu_multiplier. *)
ReadUnitsNoStore(r) ==
  /\ Goto(r, "units", "convert")
  /\ UNCHANGED <<hardware, esu_multiplier, locals, ret, energy, window,
                 carried>>

(* The units of a socket never change: command and store are one step. *)
ReadUnits(r) ==
  /\ Goto(r, "units", "convert")
  /\ esu_multiplier' = EsuOf[SocketOf[counter[r]]]
  /\ UNCHANGED <<hardware, locals, ret, energy, window, carried>>

(* Back to the caller; the locals are gone. *)
Finish(r, status) ==
  /\ pc' = [pc EXCEPT ![r] = "idle"]
  /\ ret' = [ret EXCEPT ![r] = status]
  /\ hi_counter' = [hi_counter EXCEPT ![r] = 0]
  /\ lo_counter' = [lo_counter EXCEPT ![r] = 0]
  /\ new_hi_counter' = [new_hi_counter EXCEPT ![r] = 0]
  /\ window' = [window EXCEPT ![r] = {}]
  /\ carried' = [carried EXCEPT ![r] = FALSE]
  /\ UNCHANGED <<hardware, esu_multiplier, counter>>

(* Mutant: the value is put together with the first high word. *)
ConvertFirstHi(r) ==
  /\ pc[r] = "convert"
  /\ energy' = [energy EXCEPT ![r] =
                  [value |-> <<hi_counter[r], lo_counter[r]>>,
                   esu |-> esu_multiplier]]
  /\ Finish(r, "success")

Convert(r) ==
  /\ pc[r] = "convert"
  /\ energy' = [energy EXCEPT ![r] =
                  [value |-> <<new_hi_counter[r], lo_counter[r]>>,
                   esu |-> esu_multiplier]]
  /\ Finish(r, "success")

(* Any mailbox command of the sequence may fail; the call returns at once. *)
Fail(r) ==
  /\ pc[r] \in {"hi", "units"} \cup Between
  /\ Finish(r, "error")
  /\ UNCHANGED energy

Step(r) ==
  \/ \E c \in Counters : Begin(r, c)
  \/ ReadHi(r) \/ ReadLo(r) \/ ReadNewHi(r) \/ RereadLo(r)
  \/ CheckMultiplier(r) \/ ReadUnits(r) \/ Convert(r) \/ Fail(r)

Next ==
  \/ \E c \in Counters : Count(c) \/ Carry(c)
  \/ \E r \in Readers : Step(r)

Spec == Init /\ [][Next]_vars

-----------------------------------------------------------------------------
TypeOK ==
  /\ hi \in [Counters -> Word]
  /\ lo \in [Counters -> Word]
  /\ esu_multiplier \in Multiplier
  /\ pc \in [Readers -> Locations]
  /\ counter \in [Readers -> Counters]
  /\ hi_counter \in [Readers -> Word]
  /\ lo_counter \in [Readers -> Word]
  /\ new_hi_counter \in [Readers -> Word]
  /\ ret \in [Readers -> {"none", "success", "error"}]
  /\ energy \in [Readers -> [value : Value, esu : Multiplier]]
  /\ window \in [Readers -> SUBSET Value]
  /\ carried \in [Readers -> BOOLEAN]

(* A value is never put together from a high word and a low word of        *)
(* different moments: once the last word is read (lines 999-1014), the     *)
(* pair is a value the counter held during this very call, whatever the    *)
(* counter did between the mailbox commands.                               *)
NoTornRead ==
  \A r \in Readers :
    pc[r] \in {"check", "units", "convert"} =>
      <<new_hi_counter[r], lo_counter[r]>> \in window[r]

(* On a board whose sockets report the same energy unit, the shared        *)
(* esu_multiplier is the unit of the socket that was read, and never the   *)
(* initial zero: threads that race to fill it (lines 1018-1022) cannot     *)
(* make a completed call scale its counter with anything else.             *)
ScaledByOwnUnit ==
  \A r \in Readers :
    ret[r] = "success" => energy[r].esu = EsuOf[SocketOf[counter[r]]]

(* A status and the buffer agree: a call that fails half way leaves the    *)
(* caller's buffer alone, and one that succeeds replaces it only by a      *)
(* value read after the call began.                                        *)
BufferFollowsStatus ==
  [][\A r \in Readers :
       energy'[r] # energy[r] =>
         ret'[r] = "success" /\ energy'[r].value \in window[r]]_vars

(* The calls implement an atomic read of the whole counter: CounterSnapshot *)
(* with both words as one value.                                            *)
Snapshot == INSTANCE CounterSnapshot WITH
  Values <- Value,
  value  <- [c \in Counters |-> <<hi[c], lo[c]>>],
  active <- [r \in Readers |-> pc[r] # "idle"],
  target <- counter,
  result <- [r \in Readers |-> energy[r].value]

ImplementsSnapshot == Snapshot!Spec
=============================================================================

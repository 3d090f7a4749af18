---------------------------- MODULE TsiThreshold ----------------------------
(***************************************************************************)
(* A temperature that SB-TSI keeps in two registers, an integer byte and   *)
(* the top three bits of a decimal byte (steps of 1/8 degree): the high    *)
(* and low thresholds of the CPU and of the HBM, and the CPU temperature   *)
(* offset, which is signed.  A setter writes the integer byte, reads the   *)
(* decimal byte for its reserved bits, and writes it; a getter reads the   *)
(* integer byte, waits, and reads the decimal byte.  Every access is an    *)
(* ioctl of its own that may fail.                                         *)
(*                                                                         *)
(* A temperature is an integer in sixteenths of a degree, so that the      *)
(* truncation to eighths shows.                                            *)
(***************************************************************************)
EXTENDS Integers

CONSTANTS
  Setters, Getters,
  Kinds,       (* which pairs: "threshold", "hbm" or "offset"              *)
  Requests,       (* the temperatures passed to setters                       *)
  Start,       (* the temperature at power-on                              *)
  Low          (* reserved low bits of the decimal byte at power-on        *)

ASSUME CallersAssumption == Setters \cap Getters = {}
ASSUME KindAssumption == Kinds \subseteq {"threshold", "hbm", "offset"}
ASSUME TempAssumption == Requests \subseteq Int
ASSUME LowAssumption == Low \in 0 .. 31

(* hitemp_thr < 0 || hitemp_thr >= 256, and so on: what is not refused *)
Accepts(k, t) ==
  /\ k = "threshold" => 0 <= t /\ t < 256 * 16
  /\ k = "hbm"       => 0 <= t /\ t <= 255 * 16
  /\ k = "offset"    => -128 * 16 <= t /\ t < 128 * 16

(* Conversion of a C float to an integer drops the fraction. *)
Truncate(t) == IF t >= 0 THEN t \div 16 ELSE -((-t) \div 16)

(* Mutant: a negative offset is not moved down to the next integer. *)
IntPartTruncated(t) == Truncate(t)

IntPart(t) ==
  IF t < 0 /\ t # 16 * Truncate(t) THEN Truncate(t) - 1 ELSE Truncate(t)

(* (t - byte_int) / TEMP_INC, truncated *)
Steps(t) == Truncate(8 * (t - 16 * IntPart(t)))

(* A byte as the register holds it, and as the code reads it back. *)
ToByte(i) == i % 256
OfByte(k, b) == IF k = "offset" /\ b >= 128 THEN b - 256 ELSE b

Decode(k, byte_int, steps) == 16 * OfByte(k, byte_int) + 2 * steps

(* What a reader may expect of t: t in whole steps of 1/8 degree. *)
RoundedDown(t) == 2 * (t \div 2)

ASSUME StartAssumption ==
  /\ Start \in Int
  /\ \A k \in Kinds : Accepts(k, Start)
  /\ RoundedDown(Start) = Start

VARIABLES
  kind,        (* the pair that this behaviour is about                    *)
  byteInt,     (* the integer byte                                         *)
  byteDec,     (* the decimal byte: steps in bits 7:5, reserved bits 4:0   *)
  doing, wanted,    (* next step and argument of each caller                    *)
  kept,        (* the decimal byte a setter read                           *)
  gotInt,      (* the integer byte a getter read                           *)
  gotten,         (* the temperature the last get returned                    *)
  last,        (* history: the last temperature set by a call that no      *)
               (* other call disturbed                                     *)
  mixed,       (* history: the bytes may be of different calls since       *)
  alone,       (* history: no other setter was at work during the set      *)
  window,      (* history: temperatures the pair held during the get       *)
  crossed      (* history: bytes written between the get's two reads       *)

registers == <<kind, byteInt, byteDec>>
setterVars == <<wanted, kept, last, mixed, alone>>
getterVars == <<gotInt, gotten, window, crossed>>
thresholdVars == <<registers, doing, setterVars, getterVars>>

Callers == Setters \cup Getters
Reading == Decode(kind, byteInt, byteDec.steps)

(* Setters between their first and last access. *)
Busy == {s \in Setters : doing[s] # "idle"}

ThresholdInit ==
  /\ kind \in Kinds
  /\ byteInt = ToByte(IntPart(Start))
  /\ byteDec = [steps |-> Steps(Start), low |-> Low]
  /\ doing = [c \in Callers |-> "idle"]
  /\ wanted = [s \in Setters |-> Start]
  /\ kept = [s \in Setters |-> Low]
  /\ gotInt = [g \in Getters |-> 0]
  /\ gotten = [g \in Getters |-> Start]
  /\ last = Start
  /\ mixed = FALSE
  /\ alone = [s \in Setters |-> TRUE]
  /\ window = [g \in Getters |-> {}]
  /\ crossed = [g \in Getters |-> {}]

-----------------------------------------------------------------------------
Goto(c, from, to) ==
  /\ doing[c] = from
  /\ doing' = [doing EXCEPT ![c] = to]

(* Getters that have a reading under way see every write. *)
Observe(byte, reading) ==
  /\ window' = [g \in Getters |-> IF doing[g] = "idle" THEN window[g]
                                  ELSE window[g] \cup {reading}]
  /\ crossed' = [g \in Getters |-> IF doing[g] = "getdec"
                                   THEN crossed[g] \cup {byte}
                                   ELSE crossed[g]]
  /\ UNCHANGED <<gotInt, gotten>>

(* The first access of a set; an unacceptable temperature is refused. *)
WriteInt(s, t) ==
  /\ Accepts(kind, t)
  /\ Goto(s, "idle", "read")
  /\ wanted' = [wanted EXCEPT ![s] = t]
  /\ byteInt' = ToByte(IntPart(t))
  /\ alone' = [q \in Setters |->
                 IF q = s THEN Busy = {} ELSE alone[q] /\ doing[q] = "idle"]
  /\ mixed' = (mixed \/ Busy # {})
  /\ Observe("int", Decode(kind, ToByte(IntPart(t)), byteDec.steps))
  /\ UNCHANGED <<kind, byteDec, kept, last>>

ReadDec(s) ==
  /\ Goto(s, "read", "write")
  /\ kept' = [kept EXCEPT ![s] = byteDec.low]
  /\ UNCHANGED <<registers, wanted, last, mixed, alone, getterVars>>

WriteDecWith(s, low) ==
  /\ Goto(s, "write", "idle")
  /\ byteDec' = [steps |-> Steps(wanted[s]) % 8, low |-> low]
  /\ last' = IF alone[s] THEN wanted[s] ELSE last
  /\ mixed' = (mixed /\ ~alone[s])
  /\ Observe("dec", Decode(kind, byteInt, Steps(wanted[s]) % 8))
  /\ UNCHANGED <<kind, byteInt, wanted, kept, alone>>

(* Mutant: the reserved bits are written as zero. *)
WriteDecPlain(s) == WriteDecWith(s, 0)

WriteDec(s) == WriteDecWith(s, kept[s])

(* A later access fails: the integer byte is already the new one. *)
SetFail(s) ==
  /\ doing[s] \in {"read", "write"}
  /\ doing' = [doing EXCEPT ![s] = "idle"]
  /\ mixed' = TRUE
  /\ UNCHANGED <<registers, wanted, kept, last, alone, getterVars>>

Get(g) ==
  /\ Goto(g, "idle", "getint")
  /\ window' = [window EXCEPT ![g] = {Reading}]
  /\ crossed' = [crossed EXCEPT ![g] = {}]
  /\ UNCHANGED <<registers, setterVars, gotInt, gotten>>

ReadInt(g) ==
  /\ Goto(g, "getint", "getdec")
  /\ gotInt' = [gotInt EXCEPT ![g] = byteInt]
  /\ UNCHANGED <<registers, setterVars, gotten, window, crossed>>

(* Mutant: the decimal byte is not shifted. *)
GetDecUnshifted(g) ==
  /\ Goto(g, "getdec", "got")
  /\ gotten' = [gotten EXCEPT ![g] = Decode(kind, gotInt[g], 32 * byteDec.steps + byteDec.low)]
  /\ UNCHANGED <<registers, setterVars, gotInt, window, crossed>>

GetDec(g) ==
  /\ Goto(g, "getdec", "got")
  /\ gotten' = [gotten EXCEPT ![g] = Decode(kind, gotInt[g], byteDec.steps)]
  /\ UNCHANGED <<registers, setterVars, gotInt, window, crossed>>

(* A getter returns, also from an access that failed. *)
GetReturn(g) ==
  /\ doing[g] # "idle"
  /\ doing' = [doing EXCEPT ![g] = "idle"]
  /\ window' = [window EXCEPT ![g] = {}]
  /\ gotInt' = [gotInt EXCEPT ![g] = 0]
  /\ UNCHANGED <<registers, setterVars, gotten, crossed>>

ThresholdNext ==
  \/ \E s \in Setters : \/ \E t \in Requests : WriteInt(s, t)
                        \/ ReadDec(s) \/ WriteDec(s) \/ SetFail(s)
  \/ \E g \in Getters : Get(g) \/ ReadInt(g) \/ GetDec(g) \/ GetReturn(g)

ThresholdSpec == ThresholdInit /\ [][ThresholdNext]_thresholdVars

-----------------------------------------------------------------------------
ThresholdTypeOK ==
  /\ kind \in Kinds
  /\ byteInt \in 0 .. 255
  /\ byteDec \in [steps : 0 .. 7, low : 0 .. 31]
  /\ doing \in [Callers -> {"idle", "read", "write", "getint", "getdec", "got"}]
  /\ wanted \in [Setters -> Int]
  /\ kept \in [Setters -> 0 .. 31]
  /\ gotInt \in [Getters -> 0 .. 255]
  /\ gotten \in [Getters -> Int]
  /\ last \in Int
  /\ mixed \in BOOLEAN
  /\ alone \in [Setters -> BOOLEAN]
  /\ window \in [Getters -> SUBSET Int]
  /\ crossed \in [Getters -> SUBSET {"int", "dec"}]

(* With no set under way, and unless a set failed half way or ran into     *)
(* another since, the registers hold the last temperature set, rounded     *)
(* down to 1/8 degree - also a negative offset; and a set that is repeated *)
(* and succeeds alone repairs what a failed or disturbed one left behind.  *)
ThresholdIsLastSet ==
  Busy = {} /\ ~mixed => Reading = RoundedDown(last)

(* The reserved bits of the decimal byte are never changed, however sets   *)
(* overlap.                                                                *)
LowBitsKept == byteDec.low = Low

(* A get returns a temperature that the pair held during the get, also     *)
(* when a set runs alongside it, unless both bytes were written between    *)
(* its two reads: reading in the order of writing is what the code has for *)
(* a lock.                                                                 *)
GetIsNotTorn ==
  \A g \in Getters :
    doing[g] = "got" /\ crossed[g] # {"int", "dec"} => gotten[g] \in window[g]
=============================================================================

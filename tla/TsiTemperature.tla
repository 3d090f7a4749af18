--------------------------- MODULE TsiTemperature ---------------------------
(***************************************************************************)
(* Reading the CPU temperature (sbtsi_get_cputemp of esmi_tsi.c) from two  *)
(* bytes, the integer and the eighths of a degree, while it moves.  The    *)
(* READORDER bit of CONFIGURATION says which of the two, when read,        *)
(* latches the other; a reader asks for the bit first and then reads the   *)
(* latching byte and, a millisecond later, the latched one.  The bit       *)
(* belongs to one of the settings of TsiRegisters, whose clients run       *)
(* alongside the readers, and the latch is shared by all readers.          *)
(***************************************************************************)
EXTENDS TsiRegisters

CONSTANTS
  Readers,
  Lowest, Highest   (* the temperatures, in eighths of a degree            *)

ASSUME TemperatureAssumption ==
  Lowest \in Nat /\ Highest \in Nat /\ Lowest <= Highest

VARIABLES
  temp,        (* the temperature                                          *)
  latch,       (* the temperature the latch holds a byte of, or NoLatch    *)
  rpc, order,  (* each reader's next step, and the byte it reads first     *)
  first,       (* the byte it read first                                   *)
  got,         (* the temperature it returned                              *)
  held,        (* history: the temperatures since the call began           *)
  reordered,   (* history: READORDER changed since the call began          *)
  disturbed    (* history: another reader read a byte between the two      *)

readerVars == <<rpc, order, first, got>>
history == <<held, reordered, disturbed>>
temperatureVars == <<temp, latch, readerVars, history>>
allVars == <<vars, temperatureVars>>

NoLatch == -1
ReadOrderBit == 5
Temps == Lowest .. Highest
Other(b) == IF b = "int" THEN "dec" ELSE "int"
ByteOf(b, t) == IF b = "int" THEN t \div 8 ELSE t % 8

(* The byte that latches the other. *)
Latching(config) == IF ReadOrderBit \in config THEN "dec" ELSE "int"

TemperatureInit ==
  /\ Init
  /\ temp \in Temps
  /\ latch \in {NoLatch} \cup Temps
  /\ rpc = [r \in Readers |-> "idle"]
  /\ order = [r \in Readers |-> "int"]
  /\ first = [r \in Readers |-> 0]
  /\ got = [r \in Readers |-> 0]
  /\ held = [r \in Readers |-> {}]
  /\ reordered = [r \in Readers |-> FALSE]
  /\ disturbed = [r \in Readers |-> FALSE]

-----------------------------------------------------------------------------
(* The sensor. *)
Move ==
  /\ temp' \in {temp - 1, temp + 1} \cap Temps
  /\ held' = [r \in Readers |-> IF rpc[r] \in {"first", "second"}
                                  THEN held[r] \cup {temp'} ELSE held[r]]
  /\ UNCHANGED <<vars, latch, readerVars, reordered, disturbed>>

(* What the device answers for byte b; it latches the temperature, or      *)
(* answers from the latch.  Whether the latch opens once it has been read  *)
(* is not known, and both happen here.                                     *)
Leads(b) == b = Latching(reg["CONFIGURATION"])
Answer(b) == ByteOf(b, IF Leads(b) \/ latch = NoLatch THEN temp ELSE latch)
MoveLatch(b) == latch' \in IF Leads(b) THEN {temp} ELSE {latch, NoLatch}

(* A client of TsiRegisters runs.  A change of READORDER may open the      *)
(* latch.                                                                  *)
RegisterStep ==
  LET change == Latching(reg'["CONFIGURATION"]) # Latching(reg["CONFIGURATION"])
  IN /\ Next
     /\ reordered' = [r \in Readers |->
                      reordered[r] \/ (rpc[r] \in {"first", "second"} /\ change)]
     /\ latch' = latch \/ (change /\ latch' = NoLatch)
     /\ UNCHANGED <<temp, readerVars, held, disturbed>>

-----------------------------------------------------------------------------
(* sbtsi_get_cputemp, one action per ioctl. *)

(* Mutant: the test of the bit is turned round. *)
ReadsFirstSwapped(config) == Other(Latching(config))

(* rd_order & READORDER_MASK: which byte the code reads first. *)
ReadsFirst(config) == IF ReadOrderBit \in config THEN "dec" ELSE "int"

ReadConfig(r) ==
  /\ rpc[r] = "idle"
  /\ rpc' = [rpc EXCEPT ![r] = "first"]
  /\ order' = [order EXCEPT ![r] = ReadsFirst(reg["CONFIGURATION"])]
  /\ held' = [held EXCEPT ![r] = {temp}]
  /\ UNCHANGED <<vars, temp, latch, first, got, reordered, disturbed>>

Disturb(r) ==
  disturbed' = [q \in Readers |->
                  disturbed[q] \/ (q # r /\ rpc[q] = "second")]

ReadFirst(r) ==
  /\ rpc[r] = "first"
  /\ first' = [first EXCEPT ![r] = Answer(order[r])]
  /\ MoveLatch(order[r])
  /\ rpc' = [rpc EXCEPT ![r] = "second"]
  /\ Disturb(r)
  /\ UNCHANGED <<vars, temp, order, got, held, reordered>>

(* Mutant: the decimal byte is not shifted right by 5. *)
ValueUnshifted(int, dec) == 8 * int + 32 * dec

(* byte_int + (byte_dec >> 5) * TEMP_INC *)
Value(int, dec) == 8 * int + dec

ReadSecond(r) ==
  /\ rpc[r] = "second"
  /\ LET second == Answer(Other(order[r]))
     IN got' = [got EXCEPT ![r] = IF order[r] = "int" THEN Value(first[r], second)
                                                      ELSE Value(second, first[r])]
  /\ MoveLatch(Other(order[r]))
  /\ rpc' = [rpc EXCEPT ![r] = "got"]
  /\ Disturb(r)
  /\ UNCHANGED <<vars, temp, order, first, held, reordered>>

(* A reader returns, also from an access that failed, and its locals are   *)
(* gone.                                                                   *)
ReadReturns(r) ==
  /\ rpc[r] # "idle"
  /\ rpc' = [rpc EXCEPT ![r] = "idle"]
  /\ order' = [order EXCEPT ![r] = "int"]
  /\ first' = [first EXCEPT ![r] = 0]
  /\ got' = [got EXCEPT ![r] = 0]
  /\ held' = [held EXCEPT ![r] = {}]
  /\ reordered' = [reordered EXCEPT ![r] = FALSE]
  /\ disturbed' = [disturbed EXCEPT ![r] = FALSE]
  /\ UNCHANGED <<vars, temp, latch>>

TemperatureNext ==
  \/ Move
  \/ RegisterStep
  \/ \E r \in Readers : ReadConfig(r) \/ ReadFirst(r) \/ ReadSecond(r) \/ ReadReturns(r)

TemperatureSpec == TemperatureInit /\ [][TemperatureNext]_allVars

-----------------------------------------------------------------------------
TemperatureTypeOK ==
  /\ temp \in Temps
  /\ latch \in {NoLatch} \cup Temps
  /\ rpc \in [Readers -> {"idle", "first", "second", "got"}]
  /\ order \in [Readers -> {"int", "dec"}]
  /\ first \in [Readers -> 0 .. Highest]
  /\ got \in [Readers -> 0 .. 8 * (Highest \div 8) + 7]
  /\ held \in [Readers -> SUBSET Temps]
  /\ reordered \in [Readers -> BOOLEAN]
  /\ disturbed \in [Readers -> BOOLEAN]

(* A call returns a temperature the sensor had during the call, the two    *)
(* bytes of one moment, unless another reader moved the latch between its  *)
(* reads or READORDER changed under it.                                    *)
TempWasMeasured ==
  \A r \in Readers :
    rpc[r] = "got" /\ ~reordered[r] /\ ~disturbed[r] => got[r] \in held[r]

(* Other readers cost less than a degree: however many calls overlap, the  *)
(* result is within a degree of a temperature the sensor had during the    *)
(* call, never a latched byte of an earlier one.  Only a change of         *)
(* READORDER after the reader asked for it can bring that back.            *)
WithinADegree ==
  \A r \in Readers :
    rpc[r] = "got" /\ ~reordered[r] =>
      \E t \in held[r] : got[r] - t \in -7 .. 7
=============================================================================

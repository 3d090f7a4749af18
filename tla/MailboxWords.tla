---------------------------- MODULE MailboxWords ----------------------------
(***************************************************************************)
(* Values wider than the 32 bits of a mailbox answer, which a call puts    *)
(* together from several commands, low word first: the PPIN fuse and the   *)
(* RTC of esmi_mailbox.c, the serial number of a die (PSN) and the energy  *)
(* accumulator with its time stamp of rmi_mailbox_mi300.c.  Unlike the     *)
(* RAPL counters of RaplEnergy, no word is read again.                     *)
(*                                                                         *)
(* A word has W values.  The firmware moves the RTC, the energy and the    *)
(* time on between any two commands.  A caller passes one variable for     *)
(* the result (two for energy and time), and the last thing stored there   *)
(* stays.                                                                  *)
(***************************************************************************)
EXTENDS Integers, Sequences

CONSTANTS
  Readers,
  Calls,       (* the calls in use                                         *)
  W,
  Fuse         (* the values of PPIN and PSN                               *)

OneWord == 0 .. W - 1

(* A value of two words; hi << 32 | lo puts it together. *)
Join(lo, hi) == [hi |-> hi, lo |-> lo]
Wide == [hi : OneWord, lo : OneWord]
Zero == Join(0, 0)

ASSUME WordAssumption == W \in Nat \ {0}
ASSUME CallAssumption == Calls \subseteq {"ppin", "psn", "rtc", "energy"}
ASSUME FuseAssumption == Fuse \in [{"ppin", "psn"} -> Wide]

Moving == {"rtc", "energy", "time"}

VARIABLES
  value,       (* the values in the firmware                               *)
  stage, call,    (* each client's state and the call it makes                *)
  index,       (* the command it sends next                                *)
  words,       (* the answers so far                                       *)
  buffer,      (* the caller's variables: <<>> as long as untouched        *)
  outcome,
  held,        (* history: per value, what it was during the call          *)
  carried      (* history: values whose high word moved during the call    *)

wordsVars == <<value, stage, call, index, words, buffer, outcome, held, carried>>

Values == {"ppin", "psn"} \cup Moving

(* The commands of a call: which word of which value each one answers. *)
Low(v) == [of |-> v, high |-> FALSE]
High(v) == [of |-> v, high |-> TRUE]

(* Mutant: HI_WORD_REG is left out of the second command. *)
CommandsLowTwice(name) ==
  IF name = "energy" THEN <<Low("energy"), High("energy"), Low("time"), High("time")>>
                     ELSE <<Low(name), Low(name)>>

Commands(name) ==
  IF name = "energy" THEN <<Low("energy"), High("energy"), Low("time"), High("time")>>
                     ELSE <<Low(name), High(name)>>

Answer(cmd) ==
  IF cmd.high THEN value[cmd.of].hi ELSE value[cmd.of].lo

(* What a value that moves is next. *)
Succ(v) ==
  IF v.lo < W - 1 THEN Join(v.lo + 1, v.hi)
  ELSE Join(0, IF v.hi < W - 1 THEN v.hi + 1 ELSE 0)

WordsInit ==
  /\ value \in {v \in [Values -> Wide] :
                  v["ppin"] = Fuse["ppin"] /\ v["psn"] = Fuse["psn"]}
  /\ stage = [c \in Readers |-> "idle"]
  /\ call \in [Readers -> Calls]
  /\ index = [c \in Readers |-> 1]
  /\ words = [c \in Readers |-> <<>>]
  /\ buffer = [c \in Readers |-> <<>>]
  /\ outcome = [c \in Readers |-> "none"]
  /\ held = [c \in Readers |-> [v \in Values |-> {}]]
  /\ carried = [c \in Readers |-> {}]

-----------------------------------------------------------------------------
(* The firmware. *)
Move(v) ==
  LET new == Succ(value[v])
  IN /\ value' = [value EXCEPT ![v] = new]
     /\ held' = [c \in Readers |->
                   IF stage[c] = "reading"
                   THEN [held[c] EXCEPT ![v] = @ \cup {new}]
                   ELSE held[c]]
     /\ carried' = [c \in Readers |->
                      IF stage[c] = "reading" /\ new.hi # value[v].hi
                      THEN carried[c] \cup {v}
                      ELSE carried[c]]
     /\ UNCHANGED <<stage, call, index, words, buffer, outcome>>

-----------------------------------------------------------------------------
BeginReading(c, name) ==
  /\ stage[c] = "idle"
  /\ stage' = [stage EXCEPT ![c] = "reading"]
  /\ call' = [call EXCEPT ![c] = name]
  /\ index' = [index EXCEPT ![c] = 1]
  /\ words' = [words EXCEPT ![c] = <<>>]
  /\ buffer' = [buffer EXCEPT ![c] = <<>>]
  /\ outcome' = [outcome EXCEPT ![c] = "none"]
  /\ held' = [held EXCEPT ![c] = [v \in Values |-> {value[v]}]]
  /\ carried' = [carried EXCEPT ![c] = {}]
  /\ UNCHANGED value

(* A command that answers, and is not the last one.  All but energy store  *)
(* the low word in the caller's variable at once.                          *)
ReadWord(c) ==
  LET answer == Answer(Commands(call[c])[index[c]])
  IN /\ stage[c] = "reading"
     /\ index[c] < Len(Commands(call[c]))
     /\ index' = [index EXCEPT ![c] = @ + 1]
     /\ words' = [words EXCEPT ![c] = Append(@, answer)]
     /\ buffer' = IF call[c] = "energy" THEN buffer
                  ELSE [buffer EXCEPT ![c] = <<Join(answer, 0)>>]
     /\ UNCHANGED <<value, stage, call, outcome, held, carried>>

Results(c, all) ==
  IF call[c] = "energy" THEN <<Join(all[1], all[2]), Join(all[3], all[4])>>
                        ELSE <<Join(all[1], all[2])>>

ReadLastWord(c) ==
  LET cmds == Commands(call[c])
      all == Append(words[c], Answer(cmds[index[c]]))
  IN /\ stage[c] = "reading"
     /\ index[c] = Len(cmds)
     /\ stage' = [stage EXCEPT ![c] = "idle"]
     /\ words' = [words EXCEPT ![c] = all]
     /\ buffer' = [buffer EXCEPT ![c] = Results(c, all)]
     /\ outcome' = [outcome EXCEPT ![c] = "success"]
     /\ UNCHANGED <<value, call, index, held, carried>>

FailWith(c, after) ==
  /\ stage[c] = "reading"
  /\ stage' = [stage EXCEPT ![c] = "idle"]
  /\ buffer' = [buffer EXCEPT ![c] = after]
  /\ outcome' = [outcome EXCEPT ![c] = "error"]
  /\ UNCHANGED <<value, call, index, words, held, carried>>

(* Mutant: the RTC is not cleared when its second command fails. *)
FailUncleared(c) ==
  FailWith(c, IF call[c] = "psn" /\ index[c] = 2 THEN <<Zero>> ELSE buffer[c])

(* A command fails.  PSN and RTC clear what the first command stored. *)
Fail(c) ==
  FailWith(c, IF call[c] \in {"psn", "rtc"} /\ index[c] = 2 THEN <<Zero>>
                                                           ELSE buffer[c])

WordsNext ==
  \/ \E v \in Moving : Move(v)
  \/ \E c \in Readers :
       \/ \E name \in Calls : BeginReading(c, name)
       \/ ReadWord(c)
       \/ ReadLastWord(c)
       \/ Fail(c)

WordsSpec == WordsInit /\ [][WordsNext]_wordsVars

-----------------------------------------------------------------------------
WordsTypeOK ==
  /\ value \in [Values -> Wide]
  /\ stage \in [Readers -> {"idle", "reading"}]
  /\ call \in [Readers -> Calls]
  /\ index \in [Readers -> 1 .. 4]
  /\ words \in [Readers -> Seq(OneWord)]
  /\ buffer \in [Readers -> Seq(Wide)]
  /\ outcome \in [Readers -> {"none", "success", "error"}]
  /\ held \in [Readers -> [Values -> SUBSET Wide]]
  /\ carried \in [Readers -> SUBSET Moving]

(* The values a successful call returns, by name. *)
Returned(c) ==
  IF call[c] = "energy" THEN {<<"energy", buffer[c][1]>>, <<"time", buffer[c][2]>>}
                        ELSE {<<call[c], buffer[c][1]>>}

(* Fuses are returned as they are, and a value that moves is returned as   *)
(* it was at some moment of the call, unless its high word moved during    *)
(* the call.                                                               *)
WholeUnlessCarried ==
  \A c \in Readers : outcome[c] = "success" =>
    \A r \in Returned(c) : r[1] \notin carried[c] => r[2] \in held[c][r[1]]

(* A call that fails never leaves half a value with its caller: PSN and    *)
(* RTC are cleared, energy and time are not touched.  (PPIN does leave the *)
(* low word.)                                                              *)
NoHalfValue ==
  \A c \in Readers : outcome[c] = "error" =>
    /\ call[c] = "energy" => buffer[c] = <<>>
    /\ call[c] \in {"psn", "rtc"} => buffer[c] \in {<<>>, <<Zero>>}
=============================================================================

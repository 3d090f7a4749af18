------------------------- MODULE MailboxWords_proofs -------------------------
(***************************************************************************)
(* What a call that reads a wide value without reading any word again may  *)
(* promise, for any number of clients and any size of a word; and, in the  *)
(* second half, what the calls of one command promise (MailboxCalls), for  *)
(* any arguments that fit their fields: the words that carry them tell     *)
(* them apart, and a reader gets what was set.                             *)
(***************************************************************************)
EXTENDS MailboxWords, MailboxCalls, SequenceTheorems, TLAPS

LEMMA SuccIsWide ==
  ASSUME NEW v \in Wide
  PROVE  Succ(v) \in Wide
BY WordAssumption, SMT DEF Wide, OneWord, Succ, Join

(* How far a call has come: as many answers as commands sent. *)
Place(c) ==
  /\ words[c] \in Seq(OneWord)
  /\ stage[c] = "reading" =>
       /\ index[c] \in 1 .. Len(Commands(call[c]))
       /\ Len(words[c]) = index[c] - 1

TypeInv ==
  /\ WordsTypeOK
  /\ \A c \in Readers : Place(c)

(* The commands of each call, by number. *)
LEMMA CommandsAre ==
  ASSUME NEW name \in {"ppin", "psn", "rtc", "energy"}
  PROVE  /\ name = "energy" =>
              /\ Len(Commands(name)) = 4
              /\ Commands(name)[1] = Low("energy")
              /\ Commands(name)[2] = High("energy")
              /\ Commands(name)[3] = Low("time")
              /\ Commands(name)[4] = High("time")
         /\ name # "energy" =>
              /\ Len(Commands(name)) = 2
              /\ Commands(name)[1] = Low(name)
              /\ Commands(name)[2] = High(name)
<1>1. CASE name = "energy"
  <2>1. Commands(name) = <<Low("energy"), High("energy"), Low("time"), High("time")>>
    BY <1>1 DEF Commands
  <2> QED BY <1>1, <2>1
<1>2. CASE name # "energy"
  <2>1. Commands(name) = <<Low(name), High(name)>>
    BY <1>2 DEF Commands
  <2> QED BY <1>2, <2>1
<1> QED BY <1>1, <1>2

LEMMA AnswersAre ==
  ASSUME NEW v \in Values
  PROVE  /\ Answer(Low(v)) = value[v].lo
         /\ Answer(High(v)) = value[v].hi
BY DEF Answer, Low, High

(* The call in progress is at one of six places. *)
LEMMA PlaceOfCall ==
  ASSUME TypeInv, NEW c \in Readers, stage[c] = "reading"
  PROVE  /\ call[c] \in {"ppin", "psn", "rtc", "energy"}
         /\ Answer(Commands(call[c])[index[c]]) \in OneWord
         /\ Len(Commands(call[c])) = IF call[c] = "energy" THEN 4 ELSE 2
         /\ index[c] \in 1 .. Len(Commands(call[c]))
<1>1. call[c] \in {"ppin", "psn", "rtc", "energy"}
  BY CallAssumption DEF TypeInv, WordsTypeOK
<1>2. \A v \in Values : value[v].lo \in OneWord /\ value[v].hi \in OneWord
  BY DEF TypeInv, WordsTypeOK, Wide
<1>3. index[c] \in 1 .. Len(Commands(call[c]))
  BY DEF TypeInv, Place
<1>4. CASE call[c] = "energy"
  <2>1. index[c] \in {1, 2, 3, 4}
    <3>1. Len(Commands(call[c])) = 4
      BY <1>1, <1>4, CommandsAre
    <3> QED BY <1>3, <3>1
  <2>2. {"energy", "time"} \subseteq Values
    BY DEF Values, Moving
  <2> QED BY <1>1, <1>2, <1>3, <1>4, <2>1, <2>2, CommandsAre, AnswersAre
<1>5. CASE call[c] # "energy"
  <2>1. index[c] \in {1, 2}
    <3>1. Len(Commands(call[c])) = 2
      BY <1>1, <1>5, CommandsAre
    <3> QED BY <1>3, <3>1
  <2>2. call[c] \in Values
    BY <1>1 DEF Values, Moving
  <2> QED BY <1>1, <1>2, <1>3, <1>5, <2>1, <2>2, CommandsAre, AnswersAre
<1> QED BY <1>4, <1>5

LEMMA TypeInvariant == WordsSpec => []TypeInv
<1>1. WordsInit => TypeInv
  <2> SUFFICES ASSUME WordsInit PROVE TypeInv
    OBVIOUS
  <2>1. /\ words \in [Readers -> Seq(OneWord)] /\ buffer \in [Readers -> Seq(Wide)]
        /\ \A c \in Readers : Place(c)
    BY DEF WordsInit, Place
  <2>2. held \in [Readers -> [Values -> SUBSET Wide]]
    BY DEF WordsInit
  <2> QED BY <2>1, <2>2 DEF WordsInit, TypeInv, WordsTypeOK
<1>2. TypeInv /\ [WordsNext]_wordsVars => TypeInv'
  <2> SUFFICES ASSUME TypeInv, [WordsNext]_wordsVars PROVE TypeInv'
    OBVIOUS
  <2> USE DEF TypeInv
  <2>1. ASSUME NEW v \in Moving, Move(v) PROVE TypeInv'
    <3>1. v \in Values
      BY DEF Values
    <3>2. Succ(value[v]) \in Wide
      BY <3>1, SuccIsWide DEF WordsTypeOK
    <3>3. (value \in [Values -> Wide])'
      BY <2>1, <3>1, <3>2 DEF Move, WordsTypeOK
    <3>4. (held \in [Readers -> [Values -> SUBSET Wide]])'
      <4> SUFFICES ASSUME NEW c \in Readers
                   PROVE  held'[c] \in [Values -> SUBSET Wide]
        BY <2>1 DEF Move
      <4>1. held'[c] = held[c] \/
            held'[c] = [held[c] EXCEPT ![v] = @ \cup {Succ(value[v])}]
        BY <2>1 DEF Move
      <4>2. held[c] \in [Values -> SUBSET Wide]
        BY DEF WordsTypeOK
      <4>3. held[c][v] \cup {Succ(value[v])} \in SUBSET Wide
        BY <4>2, <3>1, <3>2
      <4> QED BY <4>1, <4>2, <4>3
    <3>5. (carried \in [Readers -> SUBSET Moving])'
      BY <2>1 DEF Move, WordsTypeOK
    <3> QED BY <2>1, <3>3, <3>4, <3>5 DEF Move, WordsTypeOK, Place
  <2>2. ASSUME NEW c \in Readers, NEW name \in Calls, BeginReading(c, name)
        PROVE  TypeInv'
    <3>1. name \in {"ppin", "psn", "rtc", "energy"}
      BY CallAssumption
    <3>2. 1 \in 1 .. Len(Commands(name))
      BY <3>1, CommandsAre
    <3>3. \A d \in Readers : Place(d)'
      <4> SUFFICES ASSUME NEW d \in Readers PROVE Place(d)'
        OBVIOUS
      <4>1. CASE d = c
        <5>1. /\ stage'[c] = "reading" /\ call'[c] = name
              /\ index'[c] = 1 /\ words'[c] = <<>>
          BY <2>2 DEF BeginReading, WordsTypeOK, Place
        <5>2. words'[c] \in Seq(OneWord) /\ Len(words'[c]) = 0
          BY <5>1
        <5> QED BY <3>2, <4>1, <5>1, <5>2 DEF Place, Commands, Low, High
      <4>2. CASE d # c
        BY <2>2, <4>2 DEF BeginReading, Place, WordsTypeOK
      <4> QED BY <4>1, <4>2
    <3>4. (held \in [Readers -> [Values -> SUBSET Wide]])'
      <4>1. [v \in Values |-> {value[v]}] \in [Values -> SUBSET Wide]
        BY DEF WordsTypeOK
      <4> QED BY <2>2, <4>1 DEF BeginReading, WordsTypeOK
    <3>5. (words \in [Readers -> Seq(OneWord)] /\ buffer \in [Readers -> Seq(Wide)])'
      BY <2>2 DEF BeginReading, WordsTypeOK
    <3> QED BY <2>2, <3>3, <3>4, <3>5 DEF BeginReading, WordsTypeOK
  <2>3. ASSUME NEW c \in Readers, ReadWord(c) PROVE TypeInv'
    <3> DEFINE answer == Answer(Commands(call[c])[index[c]])
    <3> HIDE DEF answer
    <3>1. stage[c] = "reading"
      BY <2>3 DEF ReadWord
    <3>2. answer \in OneWord /\ Len(Commands(call[c])) \in {2, 4}
          /\ index[c] \in 1 .. Len(Commands(call[c]))
      BY <3>1, PlaceOfCall DEF answer
    <3>3. /\ index[c] < Len(Commands(call[c]))
          /\ index' = [index EXCEPT ![c] = @ + 1]
          /\ words' = [words EXCEPT ![c] = Append(@, answer)]
          /\ buffer' = (IF call[c] = "energy" THEN buffer
                        ELSE [buffer EXCEPT ![c] = <<Join(answer, 0)>>])
          /\ UNCHANGED <<value, stage, call, outcome, held, carried>>
      BY <2>3 DEF ReadWord, answer
    <3>4. Join(answer, 0) \in Wide
      BY <3>2, WordAssumption, SMT DEF Join, Wide, OneWord
    <3>5. words' \in [Readers -> Seq(OneWord)]
      BY <3>2, <3>3 DEF WordsTypeOK
    <3>6. buffer' \in [Readers -> Seq(Wide)]
      BY <3>3, <3>4 DEF WordsTypeOK
    <3>7. \A d \in Readers : Place(d)'
      <4> SUFFICES ASSUME NEW d \in Readers PROVE Place(d)'
        OBVIOUS
      <4>1. CASE d = c
        <5>1. Len(words'[c]) = Len(words[c]) + 1
          <6>0. words[c] \in Seq(OneWord) /\ words'[c] \in Seq(OneWord)
            BY <3>5 DEF WordsTypeOK
          <6>1. words[c] \in Seq(OneWord) /\ words'[c] = Append(words[c], answer)
            BY <6>0, <3>3 DEF WordsTypeOK
          <6> QED BY <3>2, <6>1
        <5>2. index'[c] = index[c] + 1 /\ Len(words[c]) = index[c] - 1
          BY <3>1, <3>3 DEF WordsTypeOK, Place
        <5>3. index'[c] \in 1 .. Len(Commands(call[c]))
          BY <3>2, <3>3, <5>2
        <5>4. Len(words'[c]) = index'[c] - 1
          BY <3>2, <5>1, <5>2
        <5>5. Len(Commands(call'[c])) = Len(Commands(call[c]))
          BY <3>3 DEF Commands
        <5> QED BY <3>5, <4>1, <5>3, <5>4, <5>5 DEF Place
      <4>2. CASE d # c
        BY <3>3, <3>5, <4>2 DEF Place, WordsTypeOK
      <4> QED BY <4>1, <4>2
    <3>8. (index \in [Readers -> 1 .. 4])'
      <4>1. index[c] + 1 \in 1 .. 4
        <5> DEFINE n == Len(Commands(call[c]))
                   i == index[c]
        <5>1. n \in {2, 4}
          BY <3>2
        <5>2. i \in 1 .. n /\ i < n
          BY <3>2, <3>3
        <5> HIDE DEF n, i
        <5>3. i + 1 \in 1 .. 4
          BY <5>1, <5>2
        <5> QED BY <5>3 DEF i
      <4> QED BY <3>3, <4>1 DEF WordsTypeOK
    <3> QED BY <3>3, <3>5, <3>6, <3>7, <3>8 DEF WordsTypeOK
  <2>4. ASSUME NEW c \in Readers, ReadLastWord(c) PROVE TypeInv'
    <3> DEFINE answer == Answer(Commands(call[c])[index[c]])
               all == Append(words[c], answer)
    <3> HIDE DEF answer
    <3>1. stage[c] = "reading" /\ index[c] = Len(Commands(call[c]))
      BY <2>4 DEF ReadLastWord
    <3>2. answer \in OneWord
      BY <3>1, PlaceOfCall DEF answer
    <3>3. /\ stage' = [stage EXCEPT ![c] = "idle"]
          /\ words' = [words EXCEPT ![c] = all]
          /\ buffer' = [buffer EXCEPT ![c] = Results(c, all)]
          /\ outcome' = [outcome EXCEPT ![c] = "success"]
          /\ UNCHANGED <<value, call, index, held, carried>>
      BY <2>4 DEF ReadLastWord, answer
    <3>4. all \in Seq(OneWord) /\ Len(all) = IF call[c] = "energy" THEN 4 ELSE 2
      BY <3>1, <3>2, PlaceOfCall DEF Place
    <3>5. Results(c, all) \in Seq(Wide)
      <4>1. \A i \in 1 .. Len(all) : all[i] \in OneWord
        BY <3>4
      <4>2. \A lo, hi \in OneWord : Join(lo, hi) \in Wide
        BY DEF Join, Wide
      <4>3. CASE call[c] = "energy"
        <5>1. all[1] \in OneWord /\ all[2] \in OneWord /\ all[3] \in OneWord /\ all[4] \in OneWord
          BY <3>4, <4>1, <4>3
        <5>2. Join(all[1], all[2]) \in Wide /\ Join(all[3], all[4]) \in Wide
          BY <4>2, <5>1
        <5>3. Results(c, all) = <<Join(all[1], all[2]), Join(all[3], all[4])>>
          BY <4>3 DEF Results
        <5> HIDE DEF all
        <5> QED BY <5>2, <5>3
      <4>4. CASE call[c] # "energy"
        <5>1. all[1] \in OneWord /\ all[2] \in OneWord
          BY <3>4, <4>1, <4>4
        <5>2. Join(all[1], all[2]) \in Wide
          BY <4>2, <5>1
        <5>3. Results(c, all) = <<Join(all[1], all[2])>>
          BY <4>4 DEF Results
        <5> HIDE DEF all
        <5> QED BY <5>2, <5>3
      <4> QED BY <4>3, <4>4
    <3>6. words' \in [Readers -> Seq(OneWord)] /\ buffer' \in [Readers -> Seq(Wide)]
      BY <3>3, <3>4, <3>5 DEF WordsTypeOK
    <3>7. \A d \in Readers : Place(d)'
      BY <3>3, <3>6 DEF Place, WordsTypeOK
    <3> QED BY <3>3, <3>6, <3>7 DEF WordsTypeOK
  <2>5. ASSUME NEW c \in Readers, Fail(c) PROVE TypeInv'
    <3>1. Zero \in Wide
      BY WordAssumption, SMT DEF Zero, Join, Wide, OneWord
    <3>2. buffer' \in [Readers -> Seq(Wide)]
      BY <2>5, <3>1 DEF Fail, FailWith, WordsTypeOK
    <3> QED BY <2>5, <3>2 DEF Fail, FailWith, WordsTypeOK, Place
  <2>6. CASE UNCHANGED wordsVars
    BY <2>6 DEF wordsVars, WordsTypeOK, Place
  <2> QED BY <2>1, <2>2, <2>3, <2>4, <2>5, <2>6 DEF WordsNext
<1> QED BY <1>1, <1>2, PTL DEF WordsSpec

(* Words stay words and a call never sends more commands than it has, for  *)
(* any number of clients and any W.                                        *)
THEOREM TypeCorrect == WordsSpec => []WordsTypeOK
<1>1. TypeInv => WordsTypeOK
  BY DEF TypeInv
<1> QED BY <1>1, TypeInvariant, PTL

-----------------------------------------------------------------------------
(* What a call has read so far: a low word that the value had during the   *)
(* call, and a whole value that it had, unless the high word moved.        *)
LowWasHeld(c, v, w) == \E h \in held[c][v] : h.lo = w

Reading(c) ==
  /\ \A v \in Values : value[v] \in held[c][v]
  /\ \A v \in Values \ carried[c] :
       \A h \in held[c][v] : h.hi = value[v].hi
  /\ index[c] >= 2 => LowWasHeld(c, call[c], words[c][1])
  /\ call[c] = "energy" =>
       /\ index[c] >= 3 /\ "energy" \notin carried[c] =>
            Join(words[c][1], words[c][2]) \in held[c]["energy"]
       /\ index[c] >= 4 => LowWasHeld(c, "time", words[c][3])

WholeInv ==
  /\ \A c \in Readers : stage[c] = "reading" => Reading(c) /\ outcome[c] = "none"
  /\ WholeUnlessCarried

(* The fourth word appended leaves the first three where they are.         *)
LEMMA AppendFourth ==
  ASSUME NEW S, NEW s \in Seq(S), NEW a \in S, NEW n \in Nat, Len(s) = n - 1,
         NEW t, t = Append(s, a)
  PROVE  n = 4 => t[4] = a /\ t[3] = s[3] /\ t[2] = s[2] /\ t[1] = s[1]
<1>1. t[n] = a
  OBVIOUS
<1>2. \A i \in 1 .. n - 1 : t[i] = s[i]
  OBVIOUS
<1>3. n = 4 => 1 \in 1 .. n - 1 /\ 2 \in 1 .. n - 1 /\ 3 \in 1 .. n - 1
  OBVIOUS
<1> QED BY <1>1, <1>2, <1>3, Zenon

(* A low word that was held, with the high word of a value whose high word *)
(* has not moved, is a value that was held.                                *)
LEMMA JoinedWasHeld ==
  ASSUME TypeInv, NEW c \in Readers, NEW v \in Values \ carried[c],
         NEW w, LowWasHeld(c, v, w),
         \A h \in held[c][v] : h.hi = value[v].hi
  PROVE  Join(w, value[v].hi) \in held[c][v]
<1>1. PICK h \in held[c][v] : h.lo = w
  BY DEF LowWasHeld
<1>2. h \in Wide
  BY <1>1 DEF TypeInv, WordsTypeOK
<1>3. h = [hi |-> h.hi, lo |-> h.lo]
  BY <1>2 DEF Wide
<1> QED BY <1>1, <1>3 DEF Join

(* A fuse is returned as it is and a moving value as it was at some moment *)
(* of the call, unless its high word moved meanwhile.                      *)
THEOREM ReadsAreWhole == WordsSpec => []WholeUnlessCarried
<1>1. WordsInit => WholeInv
  BY DEF WordsInit, WholeInv, WholeUnlessCarried
<1>2. TypeInv /\ WholeInv /\ [WordsNext]_wordsVars => WholeInv'
  <2> SUFFICES ASSUME TypeInv, WholeInv, [WordsNext]_wordsVars PROVE WholeInv'
    OBVIOUS
  <2>0. \A c \in Readers : call[c] \in Values
    BY CallAssumption DEF TypeInv, WordsTypeOK, Values, Moving
  <2>1. ASSUME NEW v \in Moving, Move(v) PROVE WholeInv'
    <3>1. /\ v \in Values
          /\ value' = [value EXCEPT ![v] = Succ(value[v])]
          /\ UNCHANGED <<stage, call, index, words, buffer, outcome>>
      BY <2>1 DEF Move, Values
    <3>2. ASSUME NEW c \in Readers, stage[c] = "reading"
          PROVE  Reading(c)'
      <4>1. /\ held'[c] = [held[c] EXCEPT ![v] = @ \cup {Succ(value[v])}]
            /\ carried'[c] = IF Succ(value[v]).hi # value[v].hi
                             THEN carried[c] \cup {v} ELSE carried[c]
        BY <2>1, <3>2 DEF Move
      <4>2. Reading(c)
        BY <3>2 DEF WholeInv
      <4>3. /\ held[c] \in [Values -> SUBSET Wide]
            /\ value \in [Values -> Wide]
        BY DEF TypeInv, WordsTypeOK
      <4>4. /\ carried[c] \subseteq carried'[c]
            /\ \A u \in Values : held[c][u] \subseteq held'[c][u]
            /\ \A u \in Values \ {v} : held'[c][u] = held[c][u] /\ value'[u] = value[u]
            /\ held'[c][v] = held[c][v] \cup {Succ(value[v])}
            /\ value'[v] = Succ(value[v])
        BY <4>1, <4>3, <3>1
      <4>5. \A u \in Values : value'[u] \in held'[c][u]
        BY <4>2, <4>4 DEF Reading
      <4>6. \A u \in Values \ carried'[c] :
              \A h \in held'[c][u] : h.hi = value'[u].hi
        <5> SUFFICES ASSUME NEW u \in Values \ carried'[c], NEW h \in held'[c][u]
                     PROVE  h.hi = value'[u].hi
          OBVIOUS
        <5>1. u \notin carried[c]
          BY <4>4
        <5>2. CASE u # v
          BY <5>1, <5>2, <4>2, <4>4 DEF Reading
        <5>3. CASE u = v
          <6>1. Succ(value[v]).hi = value[v].hi
            BY <4>1, <5>3
          <6> QED BY <5>1, <5>3, <6>1, <4>2, <4>4 DEF Reading
        <5> QED BY <5>2, <5>3
      <4>7. \A u \in Values, w \in OneWord :
              LowWasHeld(c, u, w) => LowWasHeld(c, u, w)'
        BY <4>4 DEF LowWasHeld
      <4>8. {"energy", "time", call[c]} \subseteq Values
        BY <2>0 DEF Values, Moving
      <4>9. /\ index[c] >= 2 => words[c][1] \in OneWord
            /\ index[c] >= 4 => words[c][3] \in OneWord
        <5>1. words[c] \in Seq(OneWord) /\ Len(words[c]) = index[c] - 1
              /\ index[c] \in Nat
          BY <3>2 DEF TypeInv, WordsTypeOK, Place
        <5> QED BY <5>1
      <4>10. index[c] >= 2 => LowWasHeld(c, call[c], words[c][1])'
        BY <3>1, <4>2, <4>7, <4>8, <4>9 DEF Reading, LowWasHeld
      <4>11. call[c] = "energy" /\ index[c] >= 4 =>
               LowWasHeld(c, "time", words[c][3])'
        BY <3>1, <4>2, <4>7, <4>8, <4>9 DEF Reading, LowWasHeld
      <4>12. call[c] = "energy" /\ index[c] >= 3 /\ "energy" \notin carried'[c] =>
               Join(words[c][1], words[c][2]) \in held'[c]["energy"]
        BY <4>2, <4>4, <4>8 DEF Reading
      <4> QED BY <3>1, <4>5, <4>6, <4>10, <4>11, <4>12 DEF Reading
    <3>3. WholeUnlessCarried'
      <4> SUFFICES ASSUME NEW c \in Readers, outcome[c] = "success"
                   PROVE  \A r \in Returned(c)' :
                            r[1] \notin carried'[c] => r[2] \in held'[c][r[1]]
        BY <3>1 DEF WholeUnlessCarried
      <4>1. stage[c] # "reading"
        BY DEF WholeInv
      <4>2. held'[c] = held[c] /\ carried'[c] = carried[c]
        BY <2>1, <4>1 DEF Move
      <4>3. Returned(c)' = Returned(c)
        BY <3>1 DEF Returned
      <4> QED BY <4>2, <4>3 DEF WholeInv, WholeUnlessCarried
    <3> QED BY <3>1, <3>2, <3>3 DEF WholeInv
  <2>2. ASSUME NEW c \in Readers, NEW name \in Calls, BeginReading(c, name)
        PROVE  WholeInv'
    <3>1. \A d \in Readers \ {c} :
            /\ UNCHANGED <<stage[d], call[d], index[d], words[d], buffer[d], outcome[d],
                           held[d], carried[d]>>
            /\ Reading(d)' = Reading(d)
      BY <2>2 DEF BeginReading, Reading, LowWasHeld, TypeInv, WordsTypeOK
    <3>2. Reading(c)' /\ outcome'[c] = "none"
      <4>1. /\ held'[c] = [v \in Values |-> {value[v]}] /\ carried'[c] = {}
            /\ index'[c] = 1 /\ value' = value /\ outcome'[c] = "none"
        BY <2>2 DEF BeginReading, TypeInv, WordsTypeOK
      <4> QED BY <4>1 DEF Reading
    <3>3. WholeUnlessCarried'
      <4> SUFFICES ASSUME NEW d \in Readers, outcome'[d] = "success"
                   PROVE  \A r \in Returned(d)' :
                            r[1] \notin carried'[d] => r[2] \in held'[d][r[1]]
        BY DEF WholeUnlessCarried
      <4>1. d # c
        BY <3>2
      <4>2. Returned(d)' = Returned(d)
        BY <3>1, <4>1 DEF Returned
      <4> QED BY <3>1, <4>1, <4>2 DEF WholeInv, WholeUnlessCarried
    <3> QED BY <3>1, <3>2, <3>3 DEF WholeInv
  <2>3. ASSUME NEW c \in Readers, ReadWord(c) PROVE WholeInv'
    <3> DEFINE answer == Answer(Commands(call[c])[index[c]])
    <3>1. /\ stage[c] = "reading" /\ Reading(c) /\ outcome[c] = "none"
          /\ index[c] < Len(Commands(call[c]))
          /\ index'[c] = index[c] + 1
          /\ words'[c] = Append(words[c], answer)
          /\ UNCHANGED <<value, stage, call, outcome, held, carried>>
          /\ \A d \in Readers \ {c} :
               UNCHANGED <<index[d], words[d], buffer[d]>>
      BY <2>3 DEF ReadWord, WholeInv, TypeInv, WordsTypeOK
    <3>2. /\ words[c] \in Seq(OneWord) /\ Len(words[c]) = index[c] - 1
          /\ index[c] \in Nat
      BY <3>1 DEF TypeInv, WordsTypeOK, Place
    <3>3. /\ call[c] \in {"ppin", "psn", "rtc", "energy"}
          /\ index[c] \in 1 .. 3
          /\ call[c] # "energy" => index[c] = 1
          /\ answer \in OneWord
      <4>1. Len(Commands(call[c])) = IF call[c] = "energy" THEN 4 ELSE 2
        BY <3>1, PlaceOfCall
      <4>2. index[c] \in 1 .. Len(Commands(call[c]))
        BY <3>1, PlaceOfCall
      <4> HIDE DEF answer
      <4>3. index[c] \in 1 .. 3 /\ (call[c] # "energy" => index[c] = 1)
        <5>1. CASE call[c] = "energy"
          BY <3>1, <3>2, <4>1, <4>2, <5>1
        <5>2. CASE call[c] # "energy"
          BY <3>1, <3>2, <4>1, <4>2, <5>2
        <5> QED BY <5>1, <5>2
      <4>4. answer \in OneWord
        BY <3>1, PlaceOfCall DEF answer
      <4> QED BY <3>1, <4>3, <4>4, PlaceOfCall
    <3>4. /\ index[c] = 1 => words'[c][1] = answer
          /\ index[c] = 2 => words'[c][1] = words[c][1] /\ words'[c][2] = answer
          /\ index[c] = 3 => /\ words'[c][1] = words[c][1]
                             /\ words'[c][2] = words[c][2]
                             /\ words'[c][3] = answer
      <4> HIDE DEF answer
      <4> QED BY <3>1, <3>2, <3>3
    <3>5. /\ index[c] = 1 => answer = value[call[c]].lo
          /\ index[c] = 2 => answer = value["energy"].hi
          /\ index[c] = 3 => answer = value["time"].lo
      <4>1. call[c] \in Values /\ {"energy", "time"} \subseteq Values
        BY <2>0 DEF Values, Moving
      <4>2. CASE call[c] = "energy"
        BY <3>3, <4>1, <4>2, CommandsAre, AnswersAre
      <4>3. CASE call[c] # "energy"
        BY <3>3, <4>1, <4>3, CommandsAre, AnswersAre
      <4> QED BY <4>2, <4>3
    <3> HIDE DEF answer
    <3>6. Reading(c)'
      <4>1. /\ value[call[c]] \in held[c][call[c]]
            /\ value["time"] \in held[c]["time"]
        BY <2>0, <3>1 DEF Reading, Values, Moving
      <4>2. LowWasHeld(c, call[c], words'[c][1])
        <5>1. CASE index[c] = 1
          BY <3>4, <3>5, <4>1, <5>1 DEF LowWasHeld
        <5>2. CASE index[c] >= 2
          BY <3>1, <3>3, <3>4, <5>2 DEF Reading
        <5> QED BY <3>3, <5>1, <5>2
      <4>3. ASSUME call[c] = "energy", index[c] >= 2, "energy" \notin carried[c]
            PROVE  Join(words'[c][1], words'[c][2]) \in held[c]["energy"]
        <5>0. "energy" \in Values \ carried[c]
          BY <4>3 DEF Values, Moving
        <5>1. CASE index[c] = 2
          <6>1. words'[c][2] = value["energy"].hi
            BY <3>4, <3>5, <5>1
          <6>2. LowWasHeld(c, "energy", words'[c][1])
            BY <4>2, <4>3
          <6>3. \A h \in held[c]["energy"] : h.hi = value["energy"].hi
            BY <3>1, <5>0 DEF Reading
          <6> QED BY <5>0, <6>1, <6>2, <6>3, JoinedWasHeld
        <5>2. CASE index[c] = 3
          <6>1. Join(words[c][1], words[c][2]) \in held[c]["energy"]
            BY <3>1, <4>3, <5>2 DEF Reading
          <6>2. words'[c][1] = words[c][1] /\ words'[c][2] = words[c][2]
            BY <3>4, <5>2
          <6> QED BY <6>1, <6>2
        <5> QED BY <3>3, <4>3, <5>1, <5>2
      <4>4. index[c] >= 3 => LowWasHeld(c, "time", words'[c][3])
        BY <3>3, <3>4, <3>5, <4>1 DEF LowWasHeld
      <4>5. /\ index'[c] >= 3 => index[c] >= 2
            /\ index'[c] >= 4 => index[c] >= 3
        BY <3>1, <3>2
      <4> QED BY <3>1, <4>2, <4>3, <4>4, <4>5 DEF Reading, LowWasHeld
    <3>7. \A d \in Readers \ {c} : Reading(d)' = Reading(d)
      BY <3>1 DEF Reading, LowWasHeld
    <3>8. WholeUnlessCarried'
      <4> SUFFICES ASSUME NEW d \in Readers, outcome'[d] = "success"
                   PROVE  \A r \in Returned(d)' :
                            r[1] \notin carried'[d] => r[2] \in held'[d][r[1]]
        BY DEF WholeUnlessCarried
      <4>1. d # c /\ outcome[d] = "success"
        BY <3>1
      <4>2. Returned(d)' = Returned(d)
        BY <3>1, <4>1 DEF Returned
      <4> QED BY <3>1, <4>1, <4>2 DEF WholeInv, WholeUnlessCarried
    <3> QED BY <3>1, <3>6, <3>7, <3>8 DEF WholeInv
  <2>4. ASSUME NEW c \in Readers, ReadLastWord(c) PROVE WholeInv'
    <3> DEFINE answer == Answer(Commands(call[c])[index[c]])
               all == Append(words[c], answer)
    <3>1. /\ stage[c] = "reading" /\ Reading(c)
          /\ index[c] = Len(Commands(call[c]))
          /\ stage'[c] = "idle" /\ buffer'[c] = Results(c, all)
          /\ UNCHANGED <<value, call, index, held, carried>>
          /\ \A d \in Readers \ {c} :
               UNCHANGED <<stage[d], words[d], buffer[d], outcome[d]>>
      BY <2>4 DEF ReadLastWord, WholeInv, TypeInv, WordsTypeOK
    <3>2. /\ words[c] \in Seq(OneWord) /\ Len(words[c]) = index[c] - 1
          /\ index[c] \in Nat
      BY <3>1 DEF TypeInv, WordsTypeOK, Place
    <3>3. /\ call[c] \in {"ppin", "psn", "rtc", "energy"}
          /\ index[c] = IF call[c] = "energy" THEN 4 ELSE 2
          /\ answer \in OneWord
      BY <3>1, PlaceOfCall
    <3>4. answer = IF call[c] = "energy" THEN value["time"].hi ELSE value[call[c]].hi
      <4>1. call[c] \in Values /\ "time" \in Values
        BY <2>0 DEF Values, Moving
      <4>2. CASE call[c] = "energy"
        BY <3>3, <4>1, <4>2, CommandsAre, AnswersAre
      <4>3. CASE call[c] # "energy"
        BY <3>3, <4>1, <4>3, CommandsAre, AnswersAre
      <4> QED BY <4>2, <4>3
    <3> HIDE DEF answer
    <3>5. ASSUME NEW v \in Values \ carried[c], NEW w, LowWasHeld(c, v, w)
          PROVE  Join(w, value[v].hi) \in held[c][v]
      BY <3>1, <3>5, JoinedWasHeld DEF Reading
    <3>6. WholeUnlessCarried'
      <4> SUFFICES ASSUME NEW d \in Readers, outcome'[d] = "success"
                   PROVE  \A r \in Returned(d)' :
                            r[1] \notin carried'[d] => r[2] \in held'[d][r[1]]
        BY DEF WholeUnlessCarried
      <4>1. CASE d # c
        <5>1. Returned(d)' = Returned(d) /\ outcome[d] = "success"
          BY <3>1, <4>1 DEF Returned
        <5> QED BY <3>1, <4>1, <5>1 DEF WholeInv, WholeUnlessCarried
      <4>2. CASE d = c /\ call[c] = "energy"
        <5>1. /\ all[1] = words[c][1] /\ all[2] = words[c][2]
              /\ all[3] = words[c][3] /\ all[4] = answer
          <6>1. /\ words[c] \in Seq(OneWord) /\ Len(words[c]) = index[c] - 1
                /\ index[c] \in Nat /\ index[c] = 4 /\ answer \in OneWord
            BY <3>2, <3>3, <4>2
          <6>2. all = Append(words[c], answer)
            OBVIOUS
          <6> HIDE DEF all
          <6>3. index[c] = 4 =>
                  all[4] = answer /\ all[3] = words[c][3]
                  /\ all[2] = words[c][2] /\ all[1] = words[c][1]
            BY <6>1, <6>2, AppendFourth
          <6> QED BY <6>1, <6>3
        <5>2. buffer'[c] = <<Join(words[c][1], words[c][2]),
                             Join(words[c][3], answer)>>
          BY <3>1, <4>2, <5>1 DEF Results
        <5>3. Returned(c)' = {<<"energy", Join(words[c][1], words[c][2])>>,
                              <<"time", Join(words[c][3], answer)>>}
          BY <3>1, <4>2, <5>2 DEF Returned
        <5>4. "energy" \notin carried[c] =>
                Join(words[c][1], words[c][2]) \in held[c]["energy"]
          BY <3>1, <3>3, <4>2 DEF Reading
        <5>5. "time" \notin carried[c] =>
                Join(words[c][3], answer) \in held[c]["time"]
          <6>1. LowWasHeld(c, "time", words[c][3]) /\ "time" \in Values
            BY <3>1, <3>3, <4>2 DEF Reading, Values, Moving
          <6> QED BY <3>4, <3>5, <4>2, <6>1
        <5> QED BY <3>1, <4>2, <5>3, <5>4, <5>5
      <4>3. CASE d = c /\ call[c] # "energy"
        <5>1. all[1] = words[c][1] /\ all[2] = answer
          BY <3>2, <3>3, <4>3
        <5>2. buffer'[c] = <<Join(words[c][1], answer)>>
          BY <3>1, <4>3, <5>1 DEF Results
        <5>3. Returned(c)' = {<<call[c], Join(words[c][1], answer)>>}
          BY <3>1, <4>3, <5>2 DEF Returned
        <5>4. call[c] \notin carried[c] =>
                Join(words[c][1], answer) \in held[c][call[c]]
          <6>1. LowWasHeld(c, call[c], words[c][1]) /\ call[c] \in Values
            BY <2>0, <3>1, <3>3, <4>3 DEF Reading
          <6> QED BY <3>4, <3>5, <4>3, <6>1
        <5> QED BY <3>1, <4>3, <5>3, <5>4
      <4> QED BY <4>1, <4>2, <4>3
    <3>7. \A d \in Readers \ {c} : Reading(d)' = Reading(d)
      BY <3>1 DEF Reading, LowWasHeld
    <3> QED BY <3>1, <3>6, <3>7 DEF WholeInv
  <2>5. ASSUME NEW c \in Readers, Fail(c) PROVE WholeInv'
    <3>1. /\ stage'[c] = "idle" /\ outcome'[c] = "error"
          /\ UNCHANGED <<value, call, index, words, held, carried>>
          /\ \A d \in Readers \ {c} : UNCHANGED <<stage[d], buffer[d], outcome[d]>>
      BY <2>5 DEF Fail, FailWith, TypeInv, WordsTypeOK
    <3>2. \A d \in Readers : Reading(d)' = Reading(d)
      BY <3>1 DEF Reading, LowWasHeld
    <3>3. WholeUnlessCarried'
      <4> SUFFICES ASSUME NEW d \in Readers, outcome'[d] = "success"
                   PROVE  \A r \in Returned(d)' :
                            r[1] \notin carried'[d] => r[2] \in held'[d][r[1]]
        BY DEF WholeUnlessCarried
      <4>1. d # c /\ outcome[d] = "success"
        BY <3>1
      <4>2. Returned(d)' = Returned(d)
        BY <3>1, <4>1 DEF Returned
      <4> QED BY <3>1, <4>1, <4>2 DEF WholeInv, WholeUnlessCarried
    <3> QED BY <3>1, <3>2, <3>3 DEF WholeInv
  <2>6. CASE UNCHANGED wordsVars
    BY <2>6 DEF wordsVars, WholeInv, WholeUnlessCarried, Returned, Reading, LowWasHeld
  <2> QED BY <2>1, <2>2, <2>3, <2>4, <2>5, <2>6 DEF WordsNext
<1>3. WholeInv => WholeUnlessCarried
  BY DEF WholeInv
<1> QED BY <1>1, <1>2, <1>3, TypeInvariant, PTL DEF WordsSpec
-----------------------------------------------------------------------------
(* The caller's variables during a call: energy touches them only at its   *)
(* end, the others with their first answer.                                *)
Untouched(c) ==
  call[c] = "energy" \/ (call[c] \in {"psn", "rtc"} /\ index[c] # 2) =>
    buffer[c] = <<>>

HalfInv ==
  /\ \A c \in Readers : stage[c] = "reading" => Untouched(c) /\ outcome[c] = "none"
  /\ NoHalfValue

(* When a command fails, no half of a serial number, a time or an energy   *)
(* stays with the caller: get_psn and read_rtc clear what their first      *)
(* command stored, and the energy accumulator is stored only at the end.   *)
THEOREM HalfValuesAreCleared == WordsSpec => []NoHalfValue
<1>1. WordsInit => HalfInv
  BY DEF WordsInit, HalfInv, NoHalfValue
<1>2. TypeInv /\ HalfInv /\ [WordsNext]_wordsVars => HalfInv'
  <2> SUFFICES ASSUME TypeInv, HalfInv, [WordsNext]_wordsVars PROVE HalfInv'
    OBVIOUS
  <2>0. \A c \in Readers : call[c] \in {"ppin", "psn", "rtc", "energy"}
    BY CallAssumption DEF TypeInv, WordsTypeOK
  <2>1. ASSUME NEW v \in Moving, Move(v) PROVE HalfInv'
    BY <2>1 DEF Move, HalfInv, NoHalfValue, Untouched
  <2>2. ASSUME NEW c \in Readers, NEW name \in Calls, BeginReading(c, name) PROVE HalfInv'
    <3>1. /\ buffer'[c] = <<>> /\ outcome'[c] = "none"
          /\ \A d \in Readers \ {c} :
               UNCHANGED <<stage[d], call[d], index[d], buffer[d], outcome[d]>>
      BY <2>2 DEF BeginReading, TypeInv, WordsTypeOK
    <3> QED BY <3>1 DEF HalfInv, NoHalfValue, Untouched
  <2>3. ASSUME NEW c \in Readers, ReadWord(c) PROVE HalfInv'
    <3>1. /\ stage[c] = "reading" /\ index[c] < Len(Commands(call[c]))
          /\ index'[c] = index[c] + 1 /\ index[c] \in 1 .. 4
          /\ call[c] = "energy" => buffer'[c] = buffer[c]
          /\ UNCHANGED <<stage, call, outcome>>
          /\ \A d \in Readers \ {c} : UNCHANGED <<index[d], buffer[d]>>
      BY <2>3 DEF ReadWord, TypeInv, WordsTypeOK
    <3>2. call[c] \in {"psn", "rtc"} => index'[c] = 2
      BY <2>0, <3>1, PlaceOfCall
    <3>3. Untouched(c)'
      BY <3>1, <3>2 DEF Untouched, HalfInv
    <3>4. \A d \in Readers \ {c} : Untouched(d)' = Untouched(d)
      BY <3>1 DEF Untouched
    <3>5. NoHalfValue'
      <4>1. outcome[c] = "none"
        BY <3>1 DEF HalfInv
      <4>2. \A d \in Readers : outcome'[d] = "error" =>
              outcome[d] = "error" /\ call'[d] = call[d] /\ buffer'[d] = buffer[d]
        BY <3>1, <4>1
      <4> QED BY <4>2 DEF HalfInv, NoHalfValue
    <3> QED BY <3>1, <3>3, <3>4, <3>5 DEF HalfInv
  <2>4. ASSUME NEW c \in Readers, ReadLastWord(c) PROVE HalfInv'
    <3>1. /\ stage'[c] = "idle" /\ outcome'[c] = "success"
          /\ UNCHANGED <<call, index>>
          /\ \A d \in Readers \ {c} : UNCHANGED <<stage[d], buffer[d], outcome[d]>>
      BY <2>4 DEF ReadLastWord, TypeInv, WordsTypeOK
    <3> QED BY <3>1 DEF HalfInv, NoHalfValue, Untouched
  <2>5. ASSUME NEW c \in Readers, Fail(c) PROVE HalfInv'
    <3>1. /\ stage[c] = "reading" /\ stage'[c] = "idle"
          /\ buffer'[c] = IF call[c] \in {"psn", "rtc"} /\ index[c] = 2
                          THEN <<Zero>> ELSE buffer[c]
          /\ UNCHANGED <<call, index>>
          /\ \A d \in Readers \ {c} : UNCHANGED <<stage[d], buffer[d], outcome[d]>>
      BY <2>5 DEF Fail, FailWith, TypeInv, WordsTypeOK
    <3>2. Untouched(c)
      BY <3>1 DEF HalfInv
    <3>3. \A d \in Readers \ {c} : Untouched(d)' = Untouched(d)
      BY <3>1 DEF Untouched
    <3>4. /\ call[c] = "energy" => buffer'[c] = <<>>
          /\ call[c] \in {"psn", "rtc"} => buffer'[c] \in {<<>>, <<Zero>>}
      BY <3>1, <3>2 DEF Untouched
    <3>5. NoHalfValue'
      <4> SUFFICES ASSUME NEW d \in Readers, outcome'[d] = "error"
                   PROVE  /\ call'[d] = "energy" => buffer'[d] = <<>>
                          /\ call'[d] \in {"psn", "rtc"} =>
                               buffer'[d] \in {<<>>, <<Zero>>}
        BY DEF NoHalfValue, Zero, Join
      <4>1. CASE d = c
        BY <2>0, <3>1, <3>4, <4>1
      <4>2. CASE d # c
        BY <3>1, <4>2 DEF HalfInv, NoHalfValue
      <4> QED BY <4>1, <4>2
    <3> QED BY <3>1, <3>3, <3>5 DEF HalfInv
  <2>6. CASE UNCHANGED wordsVars
    BY <2>6 DEF wordsVars, HalfInv, NoHalfValue, Untouched
  <2> QED BY <2>1, <2>2, <2>3, <2>4, <2>5, <2>6 DEF WordsNext
<1>3. HalfInv => NoHalfValue
  BY DEF HalfInv
<1> QED BY <1>1, <1>2, <1>3, TypeInvariant, PTL DEF WordsSpec

-----------------------------------------------------------------------------
(* MailboxCalls.                                                           *)

(* A number below 2^31 is known by its bits.                                *)
LEMMA Powers ==
  /\ 2 ^ 0 = 1
  /\ \A b \in 0 .. 29 : 2 ^ b \in Nat \ {0} /\ 2 ^ (b + 1) = 2 * 2 ^ b
<1>1. \A b \in 0 .. 29 :
        \/ b = 0 \/ b = 1 \/ b = 2 \/ b = 3 \/ b = 4 \/ b = 5 \/ b = 6 \/ b = 7
        \/ b = 8 \/ b = 9 \/ b = 10 \/ b = 11 \/ b = 12 \/ b = 13 \/ b = 14
        \/ b = 15 \/ b = 16 \/ b = 17 \/ b = 18 \/ b = 19 \/ b = 20 \/ b = 21
        \/ b = 22 \/ b = 23 \/ b = 24 \/ b = 25 \/ b = 26 \/ b = 27 \/ b = 28
        \/ b = 29
  OBVIOUS
<1> QED BY <1>1, SMT

LEMMA HalvedQuotient ==
  ASSUME NEW n \in Nat, NEW p \in Nat \ {0}
  PROVE  n \div p = 2 * (n \div (2 * p)) + ((n \div p) % 2)
<1> DEFINE q == n \div p
           h == q \div 2
<1>1. q \in Nat /\ p * q <= n /\ n < p * q + p
  OBVIOUS
<1>2. h \in Nat /\ q = 2 * h + (q % 2) /\ q % 2 \in {0, 1}
  BY <1>1
<1>3. (2 * p) * h <= n /\ n < (2 * p) * h + 2 * p
  BY <1>1, <1>2
<1>4. n \div (2 * p) = h
  BY <1>2, <1>3
<1> QED BY <1>2, <1>4

LEMMA BitsTell == \A m, n \in Number : Bits(m) = Bits(n) => m = n
<1> SUFFICES ASSUME NEW m \in Number, NEW n \in Number, Bits(m) = Bits(n) PROVE m = n
  OBVIOUS
<1> DEFINE Same(b) == m \div 2 ^ b = n \div 2 ^ b
<1>1. m \in Nat /\ n \in Nat
  BY SMT DEF Number
<1>2. \A b \in 0 .. 30 : (m \div 2 ^ b) % 2 = 1 <=> (n \div 2 ^ b) % 2 = 1
  BY DEF Bits
<1>3. \A b \in 0 .. 29 : Same(b + 1) => Same(b)
  <2> SUFFICES ASSUME NEW b \in 0 .. 29, Same(b + 1) PROVE Same(b)
    OBVIOUS
  <2> DEFINE p == 2 ^ b
  <2>1. p \in Nat \ {0} /\ 2 ^ (b + 1) = 2 * p
    BY Powers
  <2>2. (m \div p) % 2 = 1 <=> (n \div p) % 2 = 1
    <3>1. b \in 0 .. 30
      OBVIOUS
    <3> QED BY <1>2, <3>1, Zenon
  <2>3. m \div (2 * p) = n \div (2 * p)
    BY <2>1
  <2> HIDE DEF p
  <2>4. m \div p \in Int /\ n \div p \in Int
    BY <1>1, <2>1
  <2>5. (m \div p) % 2 = (n \div p) % 2
    BY <2>2, <2>4
  <2>6. m \div p = n \div p
    BY <1>1, <2>1, <2>3, <2>5, HalvedQuotient
  <2> QED BY <2>6 DEF p
<1>4. Same(30)
  <2>1. m \div 2 ^ 30 \in {0, 1} /\ n \div 2 ^ 30 \in {0, 1}
    BY SMT DEF Number
  <2> QED BY <1>2, <2>1, SMT
<1>5. /\ (Same(1) => Same(0)) /\ (Same(2) => Same(1)) /\ (Same(3) => Same(2))
      /\ (Same(4) => Same(3)) /\ (Same(5) => Same(4)) /\ (Same(6) => Same(5))
      /\ (Same(7) => Same(6)) /\ (Same(8) => Same(7)) /\ (Same(9) => Same(8))
      /\ (Same(10) => Same(9)) /\ (Same(11) => Same(10)) /\ (Same(12) => Same(11))
      /\ (Same(13) => Same(12)) /\ (Same(14) => Same(13)) /\ (Same(15) => Same(14))
      /\ (Same(16) => Same(15)) /\ (Same(17) => Same(16)) /\ (Same(18) => Same(17))
      /\ (Same(19) => Same(18)) /\ (Same(20) => Same(19)) /\ (Same(21) => Same(20))
      /\ (Same(22) => Same(21)) /\ (Same(23) => Same(22)) /\ (Same(24) => Same(23))
      /\ (Same(25) => Same(24)) /\ (Same(26) => Same(25)) /\ (Same(27) => Same(26))
      /\ (Same(28) => Same(27)) /\ (Same(29) => Same(28)) /\ (Same(30) => Same(29))
  <2> HIDE DEF Same
  <2> QED BY <1>3
<1>6. Same(0)
  <2> HIDE DEF Same
  <2> QED BY <1>4, <1>5
<1> QED BY <1>1, <1>6, Powers, SMT

(* Fields that do not reach into one another.                               *)
Field == [width : 1 .. 31, at : 0 .. 31]
Apart(f, g) == f.at + f.width <= g.at \/ g.at + g.width <= f.at
FieldList(fields) ==
  /\ fields \in Seq(Field)
  /\ \A i, j \in 1 .. Len(fields) : i # j => Apart(fields[i], fields[j])

LEMMA FieldParts == \A f \in Field : f.width \in 1 .. 31 /\ f.at \in 0 .. 31
BY DEF Field

LEMMA BitsOfField ==
  ASSUME NEW f \in Field, NEW n, FitsField(n, f), NEW b \in Bits(n)
  PROVE  b \in 0 .. f.width - 1 /\ b \in Int /\ b < f.width /\ 0 <= b
<1>1. f.width \in 1 .. 31
  BY DEF Field
<1>2. b \in 0 .. f.width - 1
  BY DEF FitsField
<1> QED BY <1>1, <1>2

(* A bit that two fields share shows that they are not apart.               *)
LEMMA SharedBit ==
  ASSUME NEW f \in Field, NEW g \in Field, NEW b \in 0 .. f.width - 1,
         NEW c \in 0 .. g.width - 1, b + f.at = c + g.at
  PROVE  ~Apart(f, g) /\ (f = g => b = c)
<1>1. f.width \in Int /\ f.at \in Int /\ g.width \in Int /\ g.at \in Int
  BY FieldParts
<1>2. b \in Int /\ 0 <= b /\ b < f.width /\ c \in Int /\ 0 <= c /\ c < g.width
  BY <1>1
<1> QED BY <1>1, <1>2 DEF Apart

(* What is packed into such a word is taken out of it again.                *)
LEMMA TakenOut ==
  ASSUME NEW fields, FieldList(fields), NEW a \in Seq(Number), Len(a) = Len(fields),
         \A i \in 1 .. Len(a) : FitsField(a[i], fields[i])
  PROVE  \A i \in 1 .. Len(a) :
           Taken(UNION {Placed(a[j], fields[j]) : j \in DOMAIN a}, fields[i]) = Bits(a[i])
<1> DEFINE w == UNION {Placed(a[j], fields[j]) : j \in DOMAIN a}
<1>1. DOMAIN a = 1 .. Len(a) /\ DOMAIN fields = 1 .. Len(a)
  BY DEF FieldList
<1>2. \A j \in 1 .. Len(a) : /\ fields[j] \in Field
                             /\ fields[j].width \in 1 .. 31 /\ fields[j].at \in 0 .. 31
  <2>1. \A j \in 1 .. Len(a) : fields[j] \in Field
    BY <1>1, ElementOfSeq DEF FieldList
  <2> QED BY <2>1, FieldParts
<1>3. SUFFICES ASSUME NEW i \in 1 .. Len(a) PROVE Taken(w, fields[i]) = Bits(a[i])
  OBVIOUS
<1>4. ASSUME NEW b \in Bits(a[i])
      PROVE  b \in 0 .. fields[i].width - 1 /\ b + fields[i].at \in w
  <2>1. b \in 0 .. fields[i].width - 1 /\ b < fields[i].width
    BY <1>2, BitsOfField
  <2>2. b + fields[i].at \in Placed(a[i], fields[i])
    BY <1>4, <2>1 DEF Placed
  <2> QED BY <1>1, <2>1, <2>2
<1>5. ASSUME NEW b \in 0 .. fields[i].width - 1, b + fields[i].at \in w
      PROVE  b \in Bits(a[i])
  <2>1. PICK j \in 1 .. Len(a) : b + fields[i].at \in Placed(a[j], fields[j])
    BY <1>1, <1>5
  <2>2. PICK c \in Bits(a[j]) : c < fields[j].width /\ b + fields[i].at = c + fields[j].at
    BY <2>1 DEF Placed
  <2>3. c \in 0 .. fields[j].width - 1
    BY <1>2, BitsOfField
  <2>4. fields[i] \in Field /\ fields[j] \in Field
    BY <1>2
  <2>5. /\ ~Apart(fields[i], fields[j])
        /\ fields[i] = fields[j] => b = c
    BY <2>2, <2>3, <2>4, SharedBit
  <2>6. i = j
    BY <1>1, <2>5 DEF FieldList
  <2> QED BY <2>2, <2>5, <2>6
<1> HIDE DEF w
<1> QED BY <1>4, <1>5 DEF Taken

LEMMA ApartBothWays == \A f, g : Apart(f, g) => Apart(g, f)
BY DEF Apart

LEMMA Lists ==
  /\ FieldList(<< >>)
  /\ \A f \in Field : FieldList(<<f>>)
  /\ \A f, g \in Field : Apart(f, g) => FieldList(<<f, g>>)
  /\ \A f, g, h \in Field :
       Apart(f, g) /\ Apart(f, h) /\ Apart(g, h) => FieldList(<<f, g, h>>)
  /\ \A f, g, h, k \in Field :
       /\ Apart(f, g) /\ Apart(f, h) /\ Apart(f, k)
       /\ Apart(g, h) /\ Apart(g, k) /\ Apart(h, k)
       => FieldList(<<f, g, h, k>>)
  /\ \A f, g, h, k, l \in Field :
       /\ Apart(f, g) /\ Apart(f, h) /\ Apart(f, k) /\ Apart(f, l)
       /\ Apart(g, h) /\ Apart(g, k) /\ Apart(g, l)
       /\ Apart(h, k) /\ Apart(h, l) /\ Apart(k, l)
       => FieldList(<<f, g, h, k, l>>)
BY ApartBothWays DEF FieldList

LEMMA FieldsInUse ==
  /\ F(8, 0) \in Field /\ F(9, 8) \in Field /\ F(15, 17) \in Field
  /\ F(11, 21) \in Field /\ F(8, 8) \in Field /\ F(8, 16) \in Field
  /\ F(16, 16) \in Field /\ F(16, 0) \in Field /\ F(8, 24) \in Field
  /\ F(24, 0) \in Field /\ F(31, 0) \in Field /\ F(1, 8) \in Field
  /\ F(1, 9) \in Field /\ F(2, 0) \in Field /\ F(1, 31) \in Field
  /\ F(16, 2) \in Field /\ F(4, 18) \in Field /\ F(1, 0) \in Field
  /\ F(2, 1) \in Field /\ F(5, 3) \in Field /\ F(4, 8) \in Field
  /\ F(11, 12) \in Field /\ F(1, 23) \in Field /\ F(3, 2) \in Field
BY DEF F, Field

LEMMA FieldsApart ==
  /\ Apart(F(8, 0), F(9, 8)) /\ Apart(F(8, 0), F(15, 17))
  /\ Apart(F(9, 8), F(15, 17)) /\ Apart(F(8, 0), F(11, 21))
  /\ Apart(F(9, 8), F(11, 21)) /\ Apart(F(8, 0), F(8, 8))
  /\ Apart(F(8, 0), F(8, 16)) /\ Apart(F(8, 8), F(8, 16))
  /\ Apart(F(16, 16), F(16, 0)) /\ Apart(F(8, 8), F(8, 0))
  /\ Apart(F(8, 24), F(24, 0)) /\ Apart(F(16, 0), F(16, 16))
  /\ Apart(F(8, 0), F(1, 8)) /\ Apart(F(8, 0), F(1, 9))
  /\ Apart(F(1, 8), F(1, 9)) /\ Apart(F(2, 0), F(1, 31))
  /\ Apart(F(2, 0), F(16, 2)) /\ Apart(F(2, 0), F(4, 18))
  /\ Apart(F(16, 2), F(4, 18)) /\ Apart(F(1, 0), F(2, 1))
  /\ Apart(F(1, 0), F(5, 3)) /\ Apart(F(1, 0), F(1, 8))
  /\ Apart(F(1, 0), F(1, 31)) /\ Apart(F(2, 1), F(5, 3))
  /\ Apart(F(2, 1), F(1, 8)) /\ Apart(F(2, 1), F(1, 31))
  /\ Apart(F(5, 3), F(1, 8)) /\ Apart(F(5, 3), F(1, 31))
  /\ Apart(F(1, 8), F(1, 31)) /\ Apart(F(8, 0), F(8, 24))
  /\ Apart(F(8, 8), F(8, 24)) /\ Apart(F(8, 16), F(8, 24))
  /\ Apart(F(8, 0), F(4, 8)) /\ Apart(F(8, 0), F(11, 12))
  /\ Apart(F(8, 0), F(1, 23)) /\ Apart(F(4, 8), F(11, 12))
  /\ Apart(F(4, 8), F(1, 23)) /\ Apart(F(11, 12), F(1, 23))
  /\ Apart(F(2, 0), F(3, 2))
BY DEF F, Apart

LEMMA ListsInUse ==
  /\ FieldList(<<F(8, 0), F(9, 8), F(15, 17)>>)
  /\ FieldList(<<F(8, 0), F(9, 8), F(11, 21)>>)
  /\ FieldList(<<F(8, 0), F(8, 8), F(8, 16)>>)
  /\ FieldList(<<F(8, 0)>>)
  /\ FieldList(<<F(8, 16)>>)
  /\ FieldList(<<F(16, 16), F(16, 0)>>)
  /\ FieldList(<<F(16, 0)>>)
  /\ FieldList(<<F(8, 8), F(8, 0)>>)
  /\ FieldList(<<F(8, 0), F(8, 8)>>)
  /\ FieldList(<<F(8, 24), F(24, 0)>>)
  /\ FieldList(<<F(16, 0), F(16, 16)>>)
  /\ FieldList(<<F(31, 0)>>)
  /\ FieldList(<<F(8, 0), F(1, 8), F(1, 9)>>)
  /\ FieldList(<<F(2, 0), F(1, 31)>>)
  /\ FieldList(<<F(2, 0), F(16, 2), F(4, 18)>>)
  /\ FieldList(<<F(1, 0), F(2, 1), F(5, 3), F(1, 8), F(1, 31)>>)
  /\ FieldList(<<F(8, 0), F(8, 8), F(8, 16), F(8, 24)>>)
  /\ FieldList(<<F(8, 0), F(4, 8), F(11, 12), F(1, 23)>>)
  /\ FieldList(<<F(2, 0), F(3, 2)>>)
<1>1. /\ FieldList(<<F(8, 0)>>)
      /\ FieldList(<<F(8, 16)>>)
      /\ FieldList(<<F(16, 0)>>)
      /\ FieldList(<<F(31, 0)>>)
  BY FieldsInUse, FieldsApart, Lists
<1>2. /\ FieldList(<<F(16, 16), F(16, 0)>>)
      /\ FieldList(<<F(8, 8), F(8, 0)>>)
      /\ FieldList(<<F(8, 0), F(8, 8)>>)
      /\ FieldList(<<F(8, 24), F(24, 0)>>)
      /\ FieldList(<<F(16, 0), F(16, 16)>>)
      /\ FieldList(<<F(2, 0), F(1, 31)>>)
      /\ FieldList(<<F(2, 0), F(3, 2)>>)
  BY FieldsInUse, FieldsApart, Lists
<1>3. /\ FieldList(<<F(8, 0), F(9, 8), F(15, 17)>>)
  BY FieldsInUse, FieldsApart, Lists
<1>4. /\ FieldList(<<F(8, 0), F(9, 8), F(11, 21)>>)
  BY FieldsInUse, FieldsApart, Lists
<1>5. /\ FieldList(<<F(8, 0), F(8, 8), F(8, 16)>>)
  BY FieldsInUse, FieldsApart, Lists
<1>6. /\ FieldList(<<F(8, 0), F(1, 8), F(1, 9)>>)
  BY FieldsInUse, FieldsApart, Lists
<1>7. /\ FieldList(<<F(2, 0), F(16, 2), F(4, 18)>>)
  BY FieldsInUse, FieldsApart, Lists
<1>8. /\ FieldList(<<F(1, 0), F(2, 1), F(5, 3), F(1, 8), F(1, 31)>>)
  BY FieldsInUse, FieldsApart, Lists
<1>9. /\ FieldList(<<F(8, 0), F(8, 8), F(8, 16), F(8, 24)>>)
  BY FieldsInUse, FieldsApart, Lists
<1>10. /\ FieldList(<<F(8, 0), F(4, 8), F(11, 12), F(1, 23)>>)
  BY FieldsInUse, FieldsApart, Lists
<1> QED BY <1>1, <1>2, <1>3, <1>4, <1>5, <1>6, <1>7, <1>8, <1>9, <1>10

LEMMA ReportFields == \A name \in DOMAIN Report : FieldList(Report[name])
<1>1. /\ FieldList(Report.write_bmc_report_dimm_power)
      /\ FieldList(Report.write_bmc_report_dimm_thermal_sensor)
      /\ FieldList(Report.write_lclk_dpm_level_range)
      /\ FieldList(Report.set_cpu_rail_iso_freq_policy)
      /\ FieldList(Report.set_dfc_enable)
  BY ListsInUse, Lists DEF Report, ReportWith
<1>2. DOMAIN Report = {"write_bmc_report_dimm_power",
        "write_bmc_report_dimm_thermal_sensor",
        "write_lclk_dpm_level_range",
        "set_cpu_rail_iso_freq_policy",
        "set_dfc_enable"}
  BY DEF Report, ReportWith
<1> QED BY <1>1, <1>2

LEMMA RequestFields == \A name \in DOMAIN Request : FieldList(Request[name])
<1>1. /\ FieldList(Request.read_dimm_power_consumption)
      /\ FieldList(Request.read_dimm_thermal_sensor)
      /\ FieldList(Request.read_lclk_dpm_level_range)
      /\ FieldList(Request.get_cpu_rail_iso_freq_policy)
      /\ FieldList(Request.get_dfc_enable)
  BY ListsInUse, Lists DEF Request
<1>2. DOMAIN Request = {"read_dimm_power_consumption",
        "read_dimm_thermal_sensor",
        "read_lclk_dpm_level_range",
        "get_cpu_rail_iso_freq_policy",
        "get_dfc_enable"}
  BY DEF Request
<1> QED BY <1>1, <1>2

LEMMA LimitsFields == \A name \in DOMAIN Limits : FieldList(Limits[name])
<1>1. /\ FieldList(Limits.write_esb_boost_limit)
      /\ FieldList(Limits.write_esb_boost_limit_allcores)
      /\ FieldList(Limits.write_gmi3_link_width_range)
      /\ FieldList(Limits.write_xgmi_link_width_range)
      /\ FieldList(Limits.write_df_pstate_range)
      /\ FieldList(Limits.set_xgmi_pstate_range)
      /\ FieldList(Limits.write_pwr_efficiency_mode)
      /\ FieldList(Limits.read_bmc_control_pcie_gen5_rate)
  BY ListsInUse, Lists DEF Limits
<1>2. DOMAIN Limits = {"write_esb_boost_limit",
        "write_esb_boost_limit_allcores",
        "write_gmi3_link_width_range",
        "write_xgmi_link_width_range",
        "write_df_pstate_range",
        "set_xgmi_pstate_range",
        "write_pwr_efficiency_mode",
        "read_bmc_control_pcie_gen5_rate"}
  BY DEF Limits
<1> QED BY <1>1, <1>2

LEMMA RasFields == \A name \in DOMAIN Ras : FieldList(Ras[name])
<1>1. /\ FieldList(Ras.read_nbio_error_logging_register)
      /\ FieldList(Ras.read_bmc_ras_mca_msr_dump)
      /\ FieldList(Ras.read_bmc_ras_fch_reset_reason)
      /\ FieldList(Ras.override_delay_reset_on_sync_flood)
      /\ FieldList(Ras.get_bmc_ras_run_time_err_validity_ck)
      /\ FieldList(Ras.get_bmc_ras_run_time_error_info)
      /\ FieldList(Ras.set_bmc_ras_err_threshold)
      /\ FieldList(Ras.set_bmc_ras_oob_config)
      /\ FieldList(Ras.read_ras_df_err_validity_check)
      /\ FieldList(Ras.read_ras_df_err_dump)
  BY ListsInUse, Lists DEF Ras, RasWith
<1>2. DOMAIN Ras = {"read_nbio_error_logging_register",
        "read_bmc_ras_mca_msr_dump",
        "read_bmc_ras_fch_reset_reason",
        "override_delay_reset_on_sync_flood",
        "get_bmc_ras_run_time_err_validity_ck",
        "get_bmc_ras_run_time_error_info",
        "set_bmc_ras_err_threshold",
        "set_bmc_ras_oob_config",
        "read_ras_df_err_validity_check",
        "read_ras_df_err_dump"}
  BY DEF Ras, RasWith
<1> QED BY <1>1, <1>2

LEMMA DimmFields == \A name \in DOMAIN Dimm : FieldList(Dimm[name])
<1>1. /\ FieldList(Dimm.read_dimm_temp_range_and_refresh_rate)
      /\ FieldList(Dimm.read_dimm_spd_register)
      /\ FieldList(Dimm.get_ch_dram_throttle)
  BY ListsInUse, Lists DEF Dimm
<1>2. DOMAIN Dimm = {"read_dimm_temp_range_and_refresh_rate",
        "read_dimm_spd_register",
        "get_ch_dram_throttle"}
  BY DEF Dimm
<1> QED BY <1>1, <1>2

LEMMA Mi300Fields == \A name \in DOMAIN Mi300 : FieldList(Mi300[name])
<1>1. /\ FieldList(Mi300.get_mclk_fclk_pstates)
      /\ FieldList(Mi300.get_xgmi_pstates)
      /\ FieldList(Mi300.get_bist_results)
      /\ FieldList(Mi300.get_svi_rail_telemetry)
  BY ListsInUse, Lists DEF Mi300
<1>2. DOMAIN Mi300 = {"get_mclk_fclk_pstates",
        "get_xgmi_pstates",
        "get_bist_results",
        "get_svi_rail_telemetry"}
  BY DEF Mi300
<1> QED BY <1>1, <1>2

LEMMA LookedUp ==
  ASSUME NEW parts
  PROVE  /\ \A i \in DOMAIN parts : DOMAIN parts[i] \subseteq DOMAIN Joined(parts)
         /\ \A x \in DOMAIN Joined(parts) :
              \E i \in DOMAIN parts : x \in DOMAIN parts[i] /\ Joined(parts)[x] = parts[i][x]
<1>1. DOMAIN Joined(parts) = Entries(parts)
  BY DEF Joined
<1>2. ASSUME NEW x \in Entries(parts)
      PROVE  \E i \in DOMAIN parts : x \in DOMAIN parts[i] /\ Joined(parts)[x] = parts[i][x]
  <2> DEFINE i == CHOOSE k \in DOMAIN parts : x \in DOMAIN parts[k]
  <2>1. i \in DOMAIN parts /\ x \in DOMAIN parts[i]
    BY DEF Entries
  <2>2. Joined(parts)[x] = parts[i][x]
    BY DEF Joined
  <2> QED BY <2>1, <2>2
<1> QED BY <1>1, <1>2 DEF Entries

LEMMA PackedTables ==
  /\ \A name \in DOMAIN Packed :
       \/ name \in DOMAIN Report /\ Packed[name] = Report[name]
       \/ name \in DOMAIN Request /\ Packed[name] = Request[name]
       \/ name \in DOMAIN Limits /\ Packed[name] = Limits[name]
       \/ name \in DOMAIN Ras /\ Packed[name] = Ras[name]
       \/ name \in DOMAIN Dimm /\ Packed[name] = Dimm[name]
       \/ name \in DOMAIN Mi300 /\ Packed[name] = Mi300[name]
  /\ DOMAIN Report \subseteq DOMAIN Packed /\ DOMAIN Request \subseteq DOMAIN Packed
<1> DEFINE parts == <<Report, Request, Limits, Ras, Dimm, Mi300>>
<1>1. /\ DOMAIN parts = 1 .. 6
      /\ parts[1] = Report /\ parts[2] = Request /\ parts[3] = Limits
      /\ parts[4] = Ras /\ parts[5] = Dimm /\ parts[6] = Mi300
  OBVIOUS
<1>2. Packed = Joined(parts)
  BY DEF Packed
<1> HIDE DEF parts
<1>3. \A i \in 1 .. 6 : i = 1 \/ i = 2 \/ i = 3 \/ i = 4 \/ i = 5 \/ i = 6
  OBVIOUS
<1>4. ASSUME NEW name \in DOMAIN Packed
      PROVE  \/ name \in DOMAIN Report /\ Packed[name] = Report[name]
             \/ name \in DOMAIN Request /\ Packed[name] = Request[name]
             \/ name \in DOMAIN Limits /\ Packed[name] = Limits[name]
             \/ name \in DOMAIN Ras /\ Packed[name] = Ras[name]
             \/ name \in DOMAIN Dimm /\ Packed[name] = Dimm[name]
             \/ name \in DOMAIN Mi300 /\ Packed[name] = Mi300[name]
  <2>1. PICK i \in 1 .. 6 : name \in DOMAIN parts[i] /\ Packed[name] = parts[i][name]
    BY <1>1, <1>2, LookedUp
  <2> QED BY <1>1, <1>3, <2>1
<1>5. DOMAIN Report \subseteq DOMAIN Packed /\ DOMAIN Request \subseteq DOMAIN Packed
  BY <1>1, <1>2, LookedUp
<1> QED BY <1>4, <1>5

LEMMA PackedFields == \A name \in DOMAIN Packed : FieldList(Packed[name])
BY PackedTables, ReportFields, RequestFields, LimitsFields, RasFields, DimmFields, Mi300Fields

(* A list of arguments is recovered from its word.                          *)
LEMMA WordRecovers ==
  ASSUME NEW name \in DOMAIN Packed, NEW a \in Arguments(name)
  PROVE  /\ a \in Seq(Number) /\ Len(a) = Len(Packed[name])
         /\ \A i \in 1 .. Len(a) : Taken(PackedWord(name, a), Packed[name][i]) = Bits(a[i])
BY CallArgumentsAssumption, PackedFields, TakenOut DEF PackedWord

LEMMA WordsDiffer ==
  ASSUME NEW name \in DOMAIN Packed, NEW a \in Arguments(name), NEW b \in Arguments(name),
         PackedWord(name, a) = PackedWord(name, b)
  PROVE  a = b
<1>1. /\ a \in Seq(Number) /\ b \in Seq(Number) /\ Len(a) = Len(b)
      /\ \A i \in 1 .. Len(a) : Bits(a[i]) = Bits(b[i])
  BY WordRecovers
<1>2. \A i \in 1 .. Len(a) : a[i] \in Number /\ b[i] \in Number
  BY <1>1, ElementOfSeq
<1>3. \A i \in 1 .. Len(a) : a[i] = b[i]
  BY <1>1, <1>2, BitsTell
<1> QED BY <1>1, <1>3, SeqEqual

(***************************************************************************)
(* The calls that the firmware keeps something of.                         *)
(***************************************************************************)
LEMMA KeepersAre ==
  /\ DOMAIN Report = {"write_bmc_report_dimm_power", "write_bmc_report_dimm_thermal_sensor",
                      "write_lclk_dpm_level_range", "set_cpu_rail_iso_freq_policy",
                      "set_dfc_enable"}
  /\ DOMAIN Request = {"read_dimm_power_consumption", "read_dimm_thermal_sensor",
                       "read_lclk_dpm_level_range", "get_cpu_rail_iso_freq_policy",
                       "get_dfc_enable"}
  /\ DOMAIN KeptBy = DOMAIN Report \cup DOMAIN Request
  /\ KeptBy.write_bmc_report_dimm_power = "dimm_power"
  /\ KeptBy.write_bmc_report_dimm_thermal_sensor = "dimm_thermal"
  /\ KeptBy.write_lclk_dpm_level_range = "lclk"
  /\ KeptBy.set_cpu_rail_iso_freq_policy = "rail" /\ KeptBy.set_dfc_enable = "dfc"
  /\ KeptBy.read_dimm_power_consumption = "dimm_power"
  /\ KeptBy.read_dimm_thermal_sensor = "dimm_thermal"
  /\ KeptBy.read_lclk_dpm_level_range = "lclk"
  /\ KeptBy.get_cpu_rail_iso_freq_policy = "rail" /\ KeptBy.get_dfc_enable = "dfc"
BY DEF Report, ReportWith, Request, KeptBy

LEMMA SentWords ==
  /\ \A name \in DOMAIN Packed \ Bit31Alone : \A revision, a :
       WordFor(name, revision, a) = PackedWord(name, a)
  /\ \A name \in Bit31Alone : \A revision, a : WordFor(name, revision, a) = Bit31
<1>1. \A name \in DOMAIN Packed :
        name # SerialNumber /\ name \notin BoostReads /\ name # "set_gfx_core_clock"
        /\ name \notin Plain
  <2>1. \A name \in DOMAIN Report \cup DOMAIN Request \cup DOMAIN Limits :
          name # SerialNumber /\ name \notin BoostReads /\ name # "set_gfx_core_clock"
          /\ name \notin Plain
    BY DEF Report, ReportWith, Request, Limits, SerialNumber, BoostReads, Plain
  <2>2. \A name \in DOMAIN Ras \cup DOMAIN Dimm \cup DOMAIN Mi300 :
          name # SerialNumber /\ name \notin BoostReads /\ name # "set_gfx_core_clock"
          /\ name \notin Plain
    BY DEF Ras, RasWith, Dimm, Mi300, SerialNumber, BoostReads, Plain
  <2> QED BY <2>1, <2>2, PackedTables
<1>2. \A name \in Bit31Alone :
        name # SerialNumber /\ name \notin BoostReads /\ name # "set_gfx_core_clock"
        /\ name \notin Plain
  BY DEF Bit31Alone, SerialNumber, BoostReads, Plain
<1>3. ASSUME NEW name \in DOMAIN Packed \ Bit31Alone, NEW revision, NEW a
      PROVE  WordFor(name, revision, a) = PackedWord(name, a)
  BY <1>1 DEF WordFor
<1>4. ASSUME NEW name \in Bit31Alone, NEW revision, NEW a
      PROVE  WordFor(name, revision, a) = Bit31
  BY <1>2 DEF WordFor
<1> QED BY <1>3, <1>4

LEMMA OnlyReportsAreStored ==
  ASSUME NEW name, NEW revision, NEW a, Stores(name, WordFor(name, revision, a))
  PROVE  /\ name \in DOMAIN Report /\ name \in DOMAIN Packed \ Bit31Alone
         /\ WordFor(name, revision, a) = PackedWord(name, a)
<1>1. name \in DOMAIN KeptBy
  BY DEF Stores
<1>2. name \notin Bit31Alone
  <2> SUFFICES ASSUME name \in Bit31Alone PROVE FALSE
    OBVIOUS
  <2>1. name \in {"get_cpu_rail_iso_freq_policy", "get_dfc_enable"}
    BY <1>1, KeepersAre DEF Bit31Alone
  <2>2. KeptBy[name] \in {"rail", "dfc"}
    BY <2>1, KeepersAre
  <2>3. 31 \in WordFor(name, revision, a)
    BY SentWords DEF Bit31
  <2> QED BY <2>2, <2>3 DEF Stores
<1>3. name \in DOMAIN Report
  BY <1>1, <1>2, KeepersAre DEF Stores, Bit31Alone
<1> QED BY <1>2, <1>3, PackedTables, SentWords

LEMMA NumbersAreNat == \A n \in Number : n \in Nat
BY SMT DEF Number

LEMMA SmallBits == \A n \in {0, 1} : Bits(n) \subseteq {0}
<1> SUFFICES ASSUME NEW n \in {0, 1}, NEW b \in 0 .. 30, b # 0, (n \div 2 ^ b) % 2 = 1
             PROVE  FALSE
  BY Zenon DEF Bits
<1> DEFINE p == 2 ^ (b - 1)
<1>1. b - 1 \in 0 .. 29 /\ (b - 1) + 1 = b
  OBVIOUS
<1>2. p \in Nat \ {0} /\ 2 ^ b = 2 * p
  BY <1>1, Powers
<1> HIDE DEF p
<1>3. n \div (2 * p) = 0
  BY <1>2
<1> QED BY <1>2, <1>3

(* What a reader takes out of the word of the writer of its slot.           *)
LEMMA ReaderAndWriter ==
  ASSUME NEW reader \in DOMAIN Request, NEW name \in DOMAIN Report,
         KeptBy[reader] = KeptBy[name], NEW a \in Arguments(name), AcceptsCall(name, a)
  PROVE  ResultsOf(reader, PackedWord(name, a)) = Wished(reader, a)
<1> DEFINE w == PackedWord(name, a)
<1>1. /\ name \in DOMAIN Packed /\ Packed[name] = Report[name]
      /\ a \in Seq(Number) /\ Len(a) = Len(Report[name])
      /\ \A i \in 1 .. Len(a) : Taken(w, Report[name][i]) = Bits(a[i])
  <2>1. name \in DOMAIN Packed /\ Packed[name] = Report[name]
    <3>1. name \notin DOMAIN Request /\ name \notin DOMAIN Limits /\ name \notin DOMAIN Ras
          /\ name \notin DOMAIN Dimm /\ name \notin DOMAIN Mi300
      BY KeepersAre DEF Limits, Ras, RasWith, Dimm, Mi300
    <3> QED BY <3>1, PackedTables
  <2> QED BY <2>1, WordRecovers
<1>2. /\ reader \in DOMAIN EsmiResults => reader \in DOMAIN Unpacking
      /\ reader \in DOMAIN EsmiResults => Unpacking[reader] = EsmiResults[reader]
  <2> DEFINE parts == <<EsmiResults, Mi300Results>>
  <2>1. DOMAIN parts = {1, 2} /\ parts[1] = EsmiResults /\ parts[2] = Mi300Results
    OBVIOUS
  <2>2. Unpacking = Joined(parts)
    BY DEF Unpacking
  <2> HIDE DEF parts
  <2>3. reader \notin DOMAIN Mi300Results
    BY KeepersAre DEF Mi300Results
  <2> QED BY <2>1, <2>2, <2>3, LookedUp
<1>3. /\ EsmiResults.read_dimm_power_consumption = <<F(8, 0), F(9, 8), F(15, 17)>>
      /\ EsmiResults.read_dimm_thermal_sensor = <<F(8, 0), F(9, 8), F(11, 21)>>
      /\ EsmiResults.read_lclk_dpm_level_range = <<F(8, 0), F(8, 8)>>
      /\ EsmiResults.get_cpu_rail_iso_freq_policy = <<F(1, 0)>>
      /\ EsmiResults.get_dfc_enable = <<F(1, 0)>>
      /\ DOMAIN Request \subseteq DOMAIN EsmiResults
  BY KeepersAre DEF EsmiResults
<1>4. /\ Report.write_bmc_report_dimm_power = <<F(8, 0), F(9, 8), F(15, 17)>>
      /\ Report.write_bmc_report_dimm_thermal_sensor = <<F(8, 0), F(9, 8), F(11, 21)>>
      /\ Report.write_lclk_dpm_level_range = <<F(8, 0), F(8, 8), F(8, 16)>>
      /\ Report.set_cpu_rail_iso_freq_policy = <<F(8, 0)>>
      /\ Report.set_dfc_enable = <<F(8, 0)>>
  BY DEF Report, ReportWith
<1>5. reader # "read_pwr_current_active_freq_limit_socket"
  BY KeepersAre
<1> DEFINE all(fields) == [i \in DOMAIN fields |-> Taken(w, fields[i])]
<1>6. ResultsOf(reader, w) = all(EsmiResults[reader])
  BY <1>2, <1>3, <1>5 DEF ResultsOf
<1>7. DOMAIN a = 1 .. Len(a)
  BY <1>1
<1> HIDE DEF w
<1>8. CASE name \in {"write_bmc_report_dimm_power", "write_bmc_report_dimm_thermal_sensor"}
  <2>1. /\ EsmiResults[reader] = Report[name] /\ Len(Report[name]) = 3
        /\ reader # "read_lclk_dpm_level_range" /\ DOMAIN Report[name] = 1 .. 3
    BY <1>3, <1>4, <1>8, KeepersAre
  <2>2. all(EsmiResults[reader]) = [i \in DOMAIN a |-> Bits(a[i])]
    BY <1>1, <1>7, <2>1
  <2> QED BY <1>6, <2>1, <2>2 DEF Wished, w
<1>9. CASE name = "write_lclk_dpm_level_range"
  <2>1. reader = "read_lclk_dpm_level_range"
    BY <1>9, KeepersAre
  <2>2. /\ Len(a) = 3 /\ Taken(w, F(8, 0)) = Bits(a[1]) /\ Taken(w, F(8, 8)) = Bits(a[2])
    BY <1>1, <1>4, <1>9
  <2>3. all(<<F(8, 0), F(8, 8)>>) = <<Taken(w, F(8, 0)), Taken(w, F(8, 8))>>
    OBVIOUS
  <2> QED BY <1>3, <1>6, <2>1, <2>2, <2>3 DEF Wished, w
<1>10. CASE name \in {"set_cpu_rail_iso_freq_policy", "set_dfc_enable"}
  <2>1. /\ reader # "read_lclk_dpm_level_range" /\ EsmiResults[reader] = <<F(1, 0)>>
        /\ Report[name] = <<F(8, 0)>> /\ Len(a) = 1
    BY <1>1, <1>3, <1>4, <1>10, KeepersAre
  <2>2. a[1] \in {0, 1}
    <3>1. a[1] \in Nat
      <4>1. a \in Seq(Number) /\ 1 \in 1 .. Len(a)
        BY <1>1, <2>1
      <4>2. a[1] \in Number
        BY <4>1, ElementOfSeq
      <4> QED BY <4>2, NumbersAreNat
    <3>2. a[1] <= 1
      BY <1>10 DEF AcceptsCall
    <3> QED BY <3>1, <3>2
  <2>3. Taken(w, F(8, 0)) = Bits(a[1]) /\ Bits(a[1]) \subseteq {0}
    BY <1>1, <2>1, <2>2, SmallBits
  <2>4. Taken(w, F(1, 0)) = Bits(a[1])
    BY <2>3 DEF Taken, F
  <2>5. all(<<F(1, 0)>>) = [i \in DOMAIN a |-> Bits(a[i])]
    BY <1>7, <2>1, <2>4
  <2> QED BY <1>6, <2>1, <2>5 DEF Wished, w
<1> QED BY <1>8, <1>9, <1>10, KeepersAre DEF w

-----------------------------------------------------------------------------
(* What is kept is the word of the last call that reached its slot, and the *)
(* latest call's word carries its arguments.                                *)
KeptInv ==
  /\ DOMAIN wishes = DOMAIN memory
  /\ \A slot \in DOMAIN memory : \E name \in DOMAIN Report : \E a \in Arguments(name) :
       /\ AcceptsCall(name, a) /\ KeptBy[name] = slot.kind
       /\ memory[slot] = PackedWord(name, a) /\ wishes[slot] = a

LatestInv ==
  latest.outcome \in {"success", "error"} /\ latest.name \in DOMAIN Packed =>
    /\ latest.args \in Arguments(latest.name)
    /\ latest.name \notin Bit31Alone => latest.word = PackedWord(latest.name, latest.args)

CallsInv == KeptInv /\ LatestInv /\ ReadsBack

LEMMA KeepKeeps ==
  ASSUME KeptInv, NEW name, NEW revision, NEW socket, NEW a \in Arguments(name),
         AcceptsCall(name, a), Stores(name, WordFor(name, revision, a)),
         Keep(name, socket, a, WordFor(name, revision, a))
  PROVE  KeptInv'
<1> DEFINE w == WordFor(name, revision, a)
           slot == Slot(name, socket, w)
<1>1. name \in DOMAIN Report /\ w = PackedWord(name, a)
  BY OnlyReportsAreStored
<1>2. slot.kind = KeptBy[name]
  BY DEF Slot
<1> HIDE DEF w
<1>3. /\ memory' = [s \in DOMAIN memory \cup {slot} |-> IF s = slot THEN w ELSE memory[s]]
      /\ wishes' = [s \in DOMAIN memory \cup {slot} |-> IF s = slot THEN a ELSE wishes[s]]
  BY DEF Keep, w
<1> HIDE DEF slot
<1>4. ASSUME NEW s \in DOMAIN memory'
      PROVE  \E n \in DOMAIN Report : \E b \in Arguments(n) :
               /\ AcceptsCall(n, b) /\ KeptBy[n] = s.kind
               /\ memory'[s] = PackedWord(n, b) /\ wishes'[s] = b
  <2>1. CASE s = slot
    <3>1. memory'[s] = w /\ wishes'[s] = a
      BY <1>3, <2>1
    <3> QED BY <1>1, <1>2, <2>1, <3>1
  <2>2. CASE s # slot
    <3>1. s \in DOMAIN memory /\ memory'[s] = memory[s] /\ wishes'[s] = wishes[s]
      BY <1>3, <2>2
    <3> QED BY <3>1 DEF KeptInv
  <2> QED BY <2>1, <2>2
<1>5. DOMAIN wishes' = DOMAIN memory'
  BY <1>3
<1> QED BY <1>4, <1>5 DEF KeptInv

LEMMA CallKeeps ==
  ASSUME CallsInv, NEW name, NEW revision, NEW s, NEW a \in Arguments(name),
         \/ RefuseCall(name, s, a)
         \/ Serve(name, revision, s, a)
         \/ FailCall(name, revision, s, a)
  PROVE  CallsInv'
<1> DEFINE socket == SocketFor(name, s)
           w == WordFor(name, revision, a)
<1>1. CASE RefuseCall(name, s, a)
  <2>1. latest'.outcome = "invalid_input" /\ UNCHANGED <<memory, wishes>>
    BY <1>1 DEF RefuseCall, Ends
  <2> QED BY <2>1 DEF CallsInv, KeptInv, LatestInv, ReadsBack
<1>2. CASE Serve(name, revision, s, a) \/ FailCall(name, revision, s, a)
  <2>1. /\ AcceptsCall(name, a) /\ latest'.name = name /\ latest'.args = a
        /\ latest'.word = w /\ latest'.socket = socket
    BY <1>2 DEF Serve, FailCall, Ends
  <2>2. \/ UNCHANGED <<memory, wishes>>
        \/ Stores(name, w) /\ Keep(name, socket, a, w)
    BY <1>2 DEF Serve, FailCall
  <2>3. KeptInv'
    BY <2>1, <2>2, KeepKeeps DEF CallsInv, KeptInv
  <2>4. LatestInv'
    BY <2>1, SentWords DEF LatestInv
  <2>5. ReadsBack'
    <3> SUFFICES ASSUME latest'.outcome = "success", name \in DOMAIN Request
                 PROVE  latest'.results = Wished(name, wishes'[Slot(name, socket, w)])
      BY <2>1 DEF ReadsBack
    <3>1. name \notin DOMAIN Report
      BY KeepersAre
    <3>2. /\ ~Stores(name, w) /\ Serve(name, revision, s, a)
      BY <1>2, <3>1, OnlyReportsAreStored DEF FailCall, Ends
    <3>3. /\ UNCHANGED <<memory, wishes>>
          /\ \E answer \in AnswersTo(name, socket, w) : latest'.results = ResultsOf(name, answer)
      BY <3>2 DEF Serve, Ends
    <3> DEFINE slot == Slot(name, socket, w)
    <3>4. slot \in DOMAIN memory /\ latest'.results = ResultsOf(name, memory[slot])
      BY <3>3, KeepersAre DEF AnswersTo
    <3>5. slot.kind = KeptBy[name]
      BY DEF Slot
    <3> HIDE DEF slot
    <3>6. PICK n \in DOMAIN Report : \E b \in Arguments(n) :
            /\ AcceptsCall(n, b) /\ KeptBy[n] = slot.kind
            /\ memory[slot] = PackedWord(n, b) /\ wishes[slot] = b
      BY <3>4 DEF CallsInv, KeptInv
    <3>7. PICK b \in Arguments(n) :
            /\ AcceptsCall(n, b) /\ KeptBy[n] = slot.kind
            /\ memory[slot] = PackedWord(n, b) /\ wishes[slot] = b
      BY <3>6
    <3>8. ResultsOf(name, memory[slot]) = Wished(name, wishes[slot])
      BY <3>5, <3>7, ReaderAndWriter
    <3> QED BY <3>3, <3>4, <3>8 DEF slot
  <2> QED BY <2>3, <2>4, <2>5 DEF CallsInv
<1> QED BY <1>1, <1>2

LEMMA CallsInvariant == CallsSpec => []CallsInv
<1>1. CallsInit => CallsInv
  BY DEF CallsInit, CallsInv, KeptInv, LatestInv, ReadsBack
<1>2. CallsInv /\ [CallsNext]_callVars => CallsInv'
  <2>1. CallsInv /\ CallsNext => CallsInv'
    BY CallKeeps DEF CallsNext, MakeCall
  <2>2. CallsInv /\ UNCHANGED callVars => CallsInv'
    BY DEF callVars, CallsInv, KeptInv, LatestInv, ReadsBack
  <2> QED BY <2>1, <2>2
<1> QED BY <1>1, <1>2, PTL DEF CallsSpec

(* No two accepted calls of a function send one word: whatever the          *)
(* arguments, as long as each fits the bits its parameter or member has.    *)
THEOREM WordsTellTheCalls == CallsSpec => []WordTellsTheCall
<1>1. CallsInv => WordTellsTheCall
  <2> SUFFICES ASSUME LatestInv, latest.outcome \in {"success", "error"},
                      latest.name \in DOMAIN Packed,
                      NEW a \in Arguments(latest.name) \ {latest.args}
               PROVE  PackedWord(latest.name, a) # latest.word
    BY DEF CallsInv, WordTellsTheCall
  <2>1. CASE latest.name \notin Bit31Alone
    BY <2>1, WordsDiffer DEF LatestInv
  <2>2. CASE latest.name \in Bit31Alone
    <3>1. Packed[latest.name] = << >>
      <4>1. latest.name \notin DOMAIN Report /\ latest.name \notin DOMAIN Limits
            /\ latest.name \notin DOMAIN Ras /\ latest.name \notin DOMAIN Dimm
            /\ latest.name \notin DOMAIN Mi300
        BY <2>2 DEF Bit31Alone, Report, ReportWith, Limits, Ras, RasWith, Dimm, Mi300
      <4>2. Request[latest.name] = << >>
        BY <2>2, <4>1, PackedTables DEF Bit31Alone, Request
      <4> QED BY <4>1, <4>2, PackedTables
    <3>2. \A b \in Arguments(latest.name) : b \in Seq(Number) /\ Len(b) = 0
      BY <3>1, WordRecovers
    <3>3. a = latest.args
      BY <3>2, EmptySeq DEF LatestInv
    <3> QED BY <3>3
  <2> QED BY <2>1, <2>2
<1> QED BY <1>1, CallsInvariant, PTL

(* What a call reads back is what the last call that reached the same DIMM, *)
(* NBIO or switch asked for.                                                *)
THEOREM ReadersGetWhatWasSet == CallsSpec => []ReadsBack
<1>1. CallsInv => ReadsBack
  BY DEF CallsInv
<1> QED BY <1>1, CallsInvariant, PTL
=============================================================================

-------------------------- MODULE RaplEnergy_proofs --------------------------
(***************************************************************************)
(* Proofs about RaplEnergy for every set of threads and counters and every *)
(* word size W >= 2: types, no torn read, the scale, and the refinement of *)
(* CounterSnapshot.                                                        *)
(***************************************************************************)
EXTENDS RaplEnergy, TLAPS

(* Type correctness of every variable in every reachable state. *)
LEMMA TypeInit == Init => TypeOK
  BY WordAssumption, UnitAssumption
  DEF Init, TypeOK, Word, Value, Multiplier, Locations

LEMMA TypeStep == TypeOK /\ [Next]_vars => TypeOK'
<1> SUFFICES ASSUME TypeOK, [Next]_vars PROVE TypeOK'
  OBVIOUS
<1> USE WordAssumption, UnitAssumption
<1>1. ASSUME NEW c \in Counters, Count(c) PROVE TypeOK'
  <2>1. PICK low \in lo[c] + 1 .. W - 1 : Move(c, hi[c], low)
    BY <1>1 DEF Count
  <2>2. low \in Word /\ hi[c] \in Word
    BY DEF TypeOK, Word
  <2>3. window' \in [Readers -> SUBSET Value]
    BY <2>1, <2>2 DEF Move, TypeOK, Value
  <2> QED
    BY <1>1, <2>1, <2>2, <2>3 DEF Count, Move, TypeOK, locals
<1>2. ASSUME NEW c \in Counters, Carry(c) PROVE TypeOK'
  <2>1. PICK low \in 0 .. lo[c] : Move(c, Succ(hi[c]), low)
    BY <1>2 DEF Carry
  <2>a. hi[c] \in Word /\ lo[c] \in Word
    BY DEF TypeOK
  <2>b. low \in Word
    BY <2>a DEF Word
  <2>c. Succ(hi[c]) \in Word
    BY <2>a DEF Word, Succ
  <2>2. low \in Word /\ Succ(hi[c]) \in Word
    BY <2>b, <2>c
  <2>3. window' \in [Readers -> SUBSET Value]
    BY <2>1, <2>2 DEF Move, TypeOK, Value
  <2>4. carried' \in [Readers -> BOOLEAN]
    BY <1>2 DEF Carry
  <2> QED
    BY <2>1, <2>2, <2>3, <2>4 DEF Move, TypeOK, locals
<1>3. ASSUME NEW r \in Readers, NEW c \in Counters, Begin(r, c) PROVE TypeOK'
  BY <1>3 DEF Begin, Goto, TypeOK, Value, hardware, Locations
<1>4. ASSUME NEW r \in Readers, ReadHi(r) PROVE TypeOK'
  BY <1>4 DEF ReadHi, Goto, TypeOK, hardware, Locations
<1>5. ASSUME NEW r \in Readers, ReadLo(r) PROVE TypeOK'
  BY <1>5 DEF ReadLo, Goto, TypeOK, hardware, Locations
<1>6. ASSUME NEW r \in Readers, ReadNewHi(r) PROVE TypeOK'
  BY <1>6 DEF ReadNewHi, Goto, TypeOK, hardware, Locations
<1>7. ASSUME NEW r \in Readers, RereadLo(r) PROVE TypeOK'
  BY <1>7 DEF RereadLo, Goto, TypeOK, hardware, Locations
<1>8. ASSUME NEW r \in Readers, CheckMultiplier(r) PROVE TypeOK'
  BY <1>8 DEF CheckMultiplier, Goto, TypeOK, hardware, locals, Locations
<1>9. ASSUME NEW r \in Readers, ReadUnits(r) PROVE TypeOK'
  BY <1>9 DEF ReadUnits, Goto, TypeOK, hardware, locals, Locations, Multiplier
<1>10. ASSUME NEW r \in Readers, Convert(r) PROVE TypeOK'
  BY <1>10
  DEF Convert, Finish, TypeOK, hardware, Locations, Value, Word
<1>11. ASSUME NEW r \in Readers, Fail(r) PROVE TypeOK'
  BY <1>11 DEF Fail, Finish, TypeOK, hardware, Locations, Word
<1>12. CASE UNCHANGED vars
  BY <1>12 DEF vars, hardware, locals, TypeOK
<1> QED
  BY <1>1, <1>2, <1>3, <1>4, <1>5, <1>6, <1>7, <1>8, <1>9, <1>10, <1>11,
     <1>12 DEF Next, Step

(* Every variable keeps its type: words stay words, also across a wrap. *)
THEOREM TypeCorrect == Spec => []TypeOK
<1> QED
  BY TypeInit, TypeStep, PTL DEF Spec

-----------------------------------------------------------------------------
(***************************************************************************)
(* No torn read.  What the call knows at each location.  The high word it  *)
(* read first is still current, or one carry old: that is what the second  *)
(* read of the high word finds out, and why the low word read again under  *)
(* a changed high word belongs to it.                                      *)
(***************************************************************************)
CurrentInWindow(r) ==
  pc[r] # "idle" => <<hi[counter[r]], lo[counter[r]]>> \in window[r]

HighWord(r) ==
  pc[r] \in Between =>
    hi[counter[r]] = IF carried[r] THEN Succ(hi_counter[r])
                                   ELSE hi_counter[r]

LowWord(r) ==
  pc[r] = "newhi" /\ ~carried[r] =>
    <<hi_counter[r], lo_counter[r]>> \in window[r]

SecondHighWord(r) ==
  pc[r] = "relo" => carried[r] /\ new_hi_counter[r] = hi[counter[r]]

WholeValue(r) ==
  pc[r] \in {"check", "units", "convert"} =>
    <<new_hi_counter[r], lo_counter[r]>> \in window[r]

ReadInv(r) ==
  /\ CurrentInWindow(r)
  /\ HighWord(r)
  /\ LowWord(r)
  /\ SecondHighWord(r)
  /\ WholeValue(r)

IInv == TypeOK /\ \A r \in Readers : ReadInv(r)

(* A carry is visible in the high word. *)
LEMMA SuccDiffers == ASSUME NEW w \in Word PROVE Succ(w) # w
  BY WordAssumption DEF Word, Succ

LEMMA ReadInvInit == Init => IInv
<1> SUFFICES ASSUME Init PROVE IInv
  OBVIOUS
<1>1. \A r \in Readers : pc[r] = "idle"
  BY DEF Init
<1> QED
  BY <1>1, TypeInit DEF IInv, ReadInv, CurrentInWindow, HighWord, LowWord,
     SecondHighWord, WholeValue, Between

LEMMA ReadInvStep == IInv /\ [Next]_vars => IInv'
<1> SUFFICES ASSUME IInv, [Next]_vars PROVE IInv'
  OBVIOUS
<1>t. TypeOK /\ TypeOK'
  BY TypeStep DEF IInv
<1> SUFFICES ASSUME NEW q \in Readers PROVE ReadInv(q)'
  BY <1>t DEF IInv
<1>q. ReadInv(q)
  BY DEF IInv
<1> DEFINE c0 == counter[q]
<1>c. /\ c0 \in Counters /\ hi[c0] \in Word /\ lo[c0] \in Word
      /\ hi_counter[q] \in Word
  BY <1>t DEF TypeOK
<1>1. ASSUME NEW c \in Counters, Count(c) PROVE ReadInv(q)'
  <2>1. PICK low \in lo[c] + 1 .. W - 1 : Move(c, hi[c], low)
    BY <1>1 DEF Count
  <2>2. /\ UNCHANGED <<pc, locals, carried>>
        /\ hi'[c0] = hi[c0]
    BY <1>1, <2>1, <1>t DEF Count, Move, TypeOK
  <2>3. window[q] \subseteq window'[q]
    BY <2>1 DEF Move
  <2>4. CurrentInWindow(q)'
    <3>1. CASE Reading(q, c)
      BY <3>1, <2>1, <2>2, <1>t DEF Reading, Move, CurrentInWindow, TypeOK, locals
    <3>2. CASE ~Reading(q, c)
      BY <3>2, <2>1, <2>2, <2>3, <1>q, <1>t
      DEF Reading, Move, CurrentInWindow, ReadInv, TypeOK, locals
    <3> QED BY <3>1, <3>2
  <2> QED
    BY <2>2, <2>3, <2>4, <1>q
    DEF ReadInv, HighWord, LowWord, SecondHighWord, WholeValue, locals
<1>2. ASSUME NEW c \in Counters, Carry(c) PROVE ReadInv(q)'
  <2>1. PICK low \in 0 .. lo[c] : Move(c, Succ(hi[c]), low)
    BY <1>2 DEF Carry
  <2>2. /\ UNCHANGED <<pc, locals>>
        /\ window[q] \subseteq window'[q]
    BY <2>1 DEF Move
  <2>3. CASE Reading(q, c)
    <3>1. /\ hi'[c0] = Succ(hi[c0])
          /\ <<hi'[c0], lo'[c0]>> \in window'[q]
      BY <2>1, <2>3, <1>t DEF Move, Reading, TypeOK
    <3>2. pc[q] \in Between => ~carried[q] /\ carried'[q]
      BY <1>2, <2>3 DEF Carry, Reading
    <3> QED
      BY <3>1, <3>2, <2>2, <2>3, <1>q
      DEF ReadInv, CurrentInWindow, HighWord, LowWord, SecondHighWord,
          WholeValue, locals, Between, Reading
  <2>4. CASE ~Reading(q, c)
    <3>1. pc[q] # "idle" => hi'[c0] = hi[c0] /\ lo'[c0] = lo[c0]
      BY <2>1, <2>4, <1>t DEF Move, Reading, TypeOK
    <3>2. pc[q] # "idle" => carried'[q] = carried[q]
      BY <1>2, <2>4, <1>t DEF Carry, Reading, TypeOK
    <3> QED
      BY <3>1, <3>2, <2>2, <1>q
      DEF ReadInv, CurrentInWindow, HighWord, LowWord, SecondHighWord,
          WholeValue, locals, Between
  <2> QED
    BY <2>3, <2>4
(* Steps of a reader's call leave the hardware alone. *)
<1>3. ASSUME NEW r \in Readers, NEW c \in Counters, Begin(r, c)
      PROVE ReadInv(q)'
  BY <1>3, <1>q, <1>t
  DEF Begin, Goto, ReadInv, CurrentInWindow, HighWord, LowWord,
      SecondHighWord, WholeValue, Between, hardware, TypeOK
<1>4. ASSUME NEW r \in Readers, ReadHi(r) PROVE ReadInv(q)'
  BY <1>4, <1>q, <1>t
  DEF ReadHi, Goto, ReadInv, CurrentInWindow, HighWord, LowWord,
      SecondHighWord, WholeValue, Between, hardware, TypeOK
<1>5. ASSUME NEW r \in Readers, ReadLo(r) PROVE ReadInv(q)'
  BY <1>5, <1>q, <1>t
  DEF ReadLo, Goto, ReadInv, CurrentInWindow, HighWord, LowWord,
      SecondHighWord, WholeValue, Between, hardware, TypeOK
<1>6. ASSUME NEW r \in Readers, ReadNewHi(r) PROVE ReadInv(q)'
  <2>1. CASE r = q
    <3>1. carried[q] <=> hi[c0] # hi_counter[q]
      BY <1>6, <2>1, <1>q, <1>c, SuccDiffers
      DEF ReadInv, HighWord, ReadNewHi, Goto, Between
    <3> QED
      BY <3>1, <2>1, <1>6, <1>q, <1>t
      DEF ReadNewHi, Goto, ReadInv, CurrentInWindow, HighWord, LowWord,
          SecondHighWord, WholeValue, Between, hardware, TypeOK
  <2>2. CASE r # q
    BY <2>2, <1>6, <1>q, <1>t
    DEF ReadNewHi, Goto, ReadInv, CurrentInWindow, HighWord, LowWord,
        SecondHighWord, WholeValue, hardware, TypeOK
  <2> QED
    BY <2>1, <2>2
<1>7. ASSUME NEW r \in Readers, RereadLo(r) PROVE ReadInv(q)'
  BY <1>7, <1>q, <1>t
  DEF RereadLo, Goto, ReadInv, CurrentInWindow, HighWord, LowWord,
      SecondHighWord, WholeValue, Between, hardware, TypeOK
<1>8. ASSUME NEW r \in Readers, CheckMultiplier(r) PROVE ReadInv(q)'
  BY <1>8, <1>q, <1>t
  DEF CheckMultiplier, Goto, ReadInv, CurrentInWindow, HighWord, LowWord,
      SecondHighWord, WholeValue, Between, hardware, locals, TypeOK
<1>9. ASSUME NEW r \in Readers, ReadUnits(r) PROVE ReadInv(q)'
  BY <1>9, <1>q, <1>t
  DEF ReadUnits, Goto, ReadInv, CurrentInWindow, HighWord, LowWord,
      SecondHighWord, WholeValue, Between, hardware, locals, TypeOK
<1>10. ASSUME NEW r \in Readers, NEW status, Finish(r, status)
       PROVE ReadInv(q)'
  BY <1>10, <1>q, <1>t
  DEF Finish, ReadInv, CurrentInWindow, HighWord, LowWord,
      SecondHighWord, WholeValue, Between, hardware, TypeOK
<1>11. CASE UNCHANGED vars
  BY <1>11, <1>q
  DEF vars, hardware, locals, ReadInv, CurrentInWindow, HighWord, LowWord,
      SecondHighWord, WholeValue
<1> QED
  BY <1>1, <1>2, <1>3, <1>4, <1>5, <1>6, <1>7, <1>8, <1>9, <1>10, <1>11
  DEF Next, Step, Convert, Fail

(* The pair of words a call puts together is a value the counter held      *)
(* during the call, for every interleaving of the commands of any number   *)
(* of threads with the counter, as long as the low word wraps at most once *)
(* between the first and the last command (the guard of Carry).            *)
THEOREM ReadsAreNeverTorn == Spec => []NoTornRead
<1>1. IInv => NoTornRead
  BY DEF IInv, ReadInv, WholeValue, NoTornRead
<1> QED
  BY <1>1, ReadInvInit, ReadInvStep, PTL DEF Spec

(* A failed call leaves the caller's buffer alone; a completed one puts a  *)
(* value there that the counter held during the call.                      *)
THEOREM BuffersFollowStatus == Spec => BufferFollowsStatus
<1> DEFINE Written ==
      \A r \in Readers :
        energy'[r] # energy[r] =>
          ret'[r] = "success" /\ energy'[r].value \in window[r]
<1>1. ASSUME IInv, [Next]_vars PROVE [Written]_vars
  <2>1. ASSUME NEW r \in Readers, Convert(r) PROVE Written
    <3>1. <<new_hi_counter[r], lo_counter[r]>> \in window[r]
      BY <1>1, <2>1 DEF Convert, IInv, ReadInv, WholeValue
    <3> QED
      BY <1>1, <2>1, <3>1 DEF Convert, Finish, IInv, TypeOK
  <2>2. CASE UNCHANGED energy
    BY <2>2
  <2> QED
    BY <1>1, <2>1, <2>2
    DEF Next, Step, Count, Carry, Move, Begin, ReadHi, ReadLo, ReadNewHi,
        RereadLo, CheckMultiplier, ReadUnits, Fail, vars
<1> QED
  BY <1>1, ReadInvInit, ReadInvStep, PTL DEF Spec, BufferFollowsStatus

-----------------------------------------------------------------------------
(***************************************************************************)
(* The shared multiplier, on a board whose sockets have one energy unit.   *)
(***************************************************************************)
Uniform == \A s, u \in Sockets : EsuOf[s] = EsuOf[u]

MultiplierInv ==
  \A c \in Counters : esu_multiplier \in {NoMultiplier, EsuOf[SocketOf[c]]}

ScaleInv(r) ==
  /\ pc[r] # "idle" => ret[r] = "none"
  /\ pc[r] = "convert" => esu_multiplier # NoMultiplier
  /\ ret[r] = "success" => energy[r].esu = EsuOf[SocketOf[counter[r]]]

UInv == TypeOK /\ MultiplierInv /\ \A r \in Readers : ScaleInv(r)

LEMMA UInvInit == Init => UInv
  BY TypeInit DEF Init, UInv, MultiplierInv, ScaleInv

LEMMA UInvStep ==
  ASSUME Uniform, UInv, [Next]_vars PROVE UInv'
<1>t. TypeOK /\ TypeOK'
  BY TypeStep DEF UInv
<1>u. \A c, d \in Counters : EsuOf[SocketOf[c]] = EsuOf[SocketOf[d]]
  BY UnitAssumption DEF Uniform
<1>n. \A c \in Counters : EsuOf[SocketOf[c]] # NoMultiplier
  BY UnitAssumption
<1>1. CASE UNCHANGED <<esu_multiplier, pc, ret, energy, counter>>
  BY <1>1, <1>t DEF UInv, MultiplierInv, ScaleInv
<1>2. ASSUME NEW r \in Readers, NEW c \in Counters, Begin(r, c) PROVE UInv'
  BY <1>2, <1>t DEF Begin, Goto, UInv, MultiplierInv, ScaleInv, TypeOK
<1>3. ASSUME NEW r \in Readers, NEW from, NEW to, Goto(r, from, to),
             from # "idle", to \notin {"idle", "convert"},
             UNCHANGED <<esu_multiplier, ret, energy, counter>>
      PROVE UInv'
  BY <1>3, <1>t DEF Goto, UInv, MultiplierInv, ScaleInv, TypeOK
<1>4. ASSUME NEW r \in Readers, CheckMultiplier(r) PROVE UInv'
  BY <1>4, <1>t
  DEF CheckMultiplier, Goto, locals, UInv, MultiplierInv, ScaleInv, TypeOK
<1>5. ASSUME NEW r \in Readers, ReadUnits(r) PROVE UInv'
  <2>1. counter[r] \in Counters
    BY <1>t DEF TypeOK
  <2>2. /\ esu_multiplier' = EsuOf[SocketOf[counter[r]]]
        /\ MultiplierInv'
    BY <2>1, <1>5, <1>u DEF ReadUnits, MultiplierInv
  <2> QED
    BY <2>1, <2>2, <1>5, <1>t, <1>n
    DEF ReadUnits, Goto, locals, UInv, ScaleInv, TypeOK
<1>6. ASSUME NEW r \in Readers, Convert(r) PROVE UInv'
  <2>1. counter[r] \in Counters
    BY <1>t DEF TypeOK
  <2>2. esu_multiplier = EsuOf[SocketOf[counter[r]]]
    BY <2>1, <1>6 DEF Convert, UInv, MultiplierInv, ScaleInv
  <2> QED
    BY <2>2, <1>6, <1>t
    DEF Convert, Finish, UInv, MultiplierInv, ScaleInv, TypeOK
<1>7. ASSUME NEW r \in Readers, Fail(r) PROVE UInv'
  BY <1>7, <1>t DEF Fail, Finish, UInv, MultiplierInv, ScaleInv, TypeOK
<1> QED
  <2>1. ASSUME NEW c \in Counters, Count(c) \/ Carry(c) PROVE UInv'
    BY <2>1, <1>1 DEF Count, Carry, Move, locals
  <2>2. ASSUME NEW r \in Readers,
               ReadHi(r) \/ ReadLo(r) \/ ReadNewHi(r) \/ RereadLo(r)
        PROVE UInv'
    BY <2>2, <1>3 DEF ReadHi, ReadLo, ReadNewHi, RereadLo
  <2>3. CASE UNCHANGED vars
    BY <2>3, <1>1 DEF vars, locals
  <2> QED
    BY <2>1, <2>2, <2>3, <1>2, <1>4, <1>5, <1>6, <1>7 DEF Next, Step

(* With one energy unit on the board, a completed call has scaled its      *)
(* counter with the unit of its own socket, whichever thread of however    *)
(* many filled the shared multiplier, and never with the initial zero.     *)
THEOREM SharedMultiplierIsOwn ==
  Uniform => (Spec => []ScaledByOwnUnit)
<1> SUFFICES ASSUME Uniform PROVE Spec => []ScaledByOwnUnit
  OBVIOUS
<1>1. UInv => ScaledByOwnUnit
  BY DEF UInv, ScaleInv, ScaledByOwnUnit
<1>2. UInv /\ [Next]_vars => UInv'
  BY UInvStep
<1> QED
  BY <1>1, <1>2, UInvInit, PTL DEF Spec

-----------------------------------------------------------------------------
(***************************************************************************)
(* Refinement: a step on the hardware is Advance, Begin is Begin, Convert  *)
(* is Complete, Fail is Abort, and every other step stutters.              *)
(***************************************************************************)
AbsValue == [c \in Counters |-> <<hi[c], lo[c]>>]
AbsActive == [r \in Readers |-> pc[r] # "idle"]
AbsResult == [r \in Readers |-> energy[r].value]

LEMMA SnapshotInit == Init => Snapshot!Init
<1> SUFFICES ASSUME Init PROVE Snapshot!Init
  OBVIOUS
<1>1. AbsValue \in [Counters -> Value]
  BY DEF Init, AbsValue, Value
<1>2. AbsResult \in [Readers -> Value]
  BY WordAssumption DEF Init, AbsResult, Value, Word
<1>3. AbsActive = [r \in Readers |-> FALSE]
  BY DEF Init, AbsActive
<1> QED
  BY <1>1, <1>2, <1>3
  DEF Init, Snapshot!Init, AbsValue, AbsResult, AbsActive

LEMMA SnapshotStep ==
  ASSUME IInv, [Next]_vars PROVE [Snapshot!Next]_(Snapshot!vars)
<1>t. TypeOK /\ TypeOK'
  BY TypeStep DEF IInv
<1> USE DEF Snapshot!vars
<1>1. ASSUME NEW c \in Counters, NEW high \in Word, NEW low \in Word,
             Move(c, high, low)
      PROVE Snapshot!Next
  <2>1. /\ AbsValue' = [AbsValue EXCEPT ![c] = <<high, low>>]
        /\ <<high, low>> \in Value
    BY <1>1, <1>t DEF Move, AbsValue, TypeOK, Value
  <2>2. UNCHANGED <<AbsActive, counter, AbsResult>>
    BY <1>1 DEF Move, locals, AbsActive, AbsResult
  <2>3. window' = [r \in Readers |->
                     IF AbsActive[r] /\ counter[r] = c
                     THEN window[r] \cup {<<high, low>>} ELSE window[r]]
    BY <1>1 DEF Move, Reading, AbsActive
  <2>4. Snapshot!Advance(c)
    BY <2>1, <2>2, <2>3
    DEF Snapshot!Advance, AbsValue, AbsActive, AbsResult
  <2> QED
    BY <2>4 DEF Snapshot!Next
<1>2. ASSUME NEW c \in Counters, Count(c) \/ Carry(c) PROVE Snapshot!Next
  <2>1. hi[c] \in Word /\ lo[c] \in Word
    BY <1>t DEF TypeOK
  <2>2. Succ(hi[c]) \in Word
    BY <2>1, WordAssumption DEF Word, Succ
  <2>3. lo[c] + 1 .. W - 1 \subseteq Word /\ 0 .. lo[c] \subseteq Word
    BY <2>1, WordAssumption DEF Word
  <2> QED
    BY <1>1, <1>2, <2>1, <2>2, <2>3 DEF Count, Carry
<1>3. ASSUME NEW r \in Readers, NEW c \in Counters, Begin(r, c)
      PROVE Snapshot!Next
  <2>1. ~AbsActive[r] /\ AbsActive' = [AbsActive EXCEPT ![r] = TRUE]
    BY <1>3, <1>t DEF Begin, Goto, AbsActive, TypeOK
  <2>2. Snapshot!Begin(r, c)
    BY <1>3, <2>1
    DEF Begin, Snapshot!Begin, AbsActive, hardware
  <2> QED
    BY <2>2 DEF Snapshot!Next
<1>4. ASSUME NEW r \in Readers, NEW from, NEW to, Goto(r, from, to),
             from # "idle", to # "idle",
             UNCHANGED <<hardware, counter, energy, window>>
      PROVE UNCHANGED Snapshot!vars
  <2>1. AbsActive' = AbsActive
    BY <1>4, <1>t DEF Goto, AbsActive, TypeOK
  <2> QED
    BY <2>1, <1>4 DEF hardware, AbsActive
<1>5. ASSUME NEW r \in Readers, Convert(r) PROVE Snapshot!Next
  <2>1. AbsActive[r] /\ AbsActive' = [AbsActive EXCEPT ![r] = FALSE]
    BY <1>5, <1>t DEF Convert, Finish, AbsActive, TypeOK
  <2>2. <<new_hi_counter[r], lo_counter[r]>> \in window[r]
    BY <1>5 DEF Convert, IInv, ReadInv, WholeValue
  <2>3. AbsResult' = [AbsResult EXCEPT ![r] =
                        <<new_hi_counter[r], lo_counter[r]>>]
    BY <1>5, <1>t DEF Convert, AbsResult, TypeOK
  <2>4. /\ window' = [window EXCEPT ![r] = {}]
        /\ UNCHANGED <<hi, lo, counter>>
    BY <1>5 DEF Convert, Finish, hardware
  <2>5. Snapshot!Complete(r)
    BY <2>1, <2>2, <2>3, <2>4
    DEF Snapshot!Complete, AbsActive, AbsResult
  <2> QED
    BY <2>5 DEF Snapshot!Next
<1>6. ASSUME NEW r \in Readers, Fail(r) PROVE Snapshot!Next
  <2>1. AbsActive[r] /\ AbsActive' = [AbsActive EXCEPT ![r] = FALSE]
    BY <1>6, <1>t DEF Fail, Finish, AbsActive, Between, TypeOK
  <2>2. Snapshot!Abort(r)
    BY <1>6, <2>1 DEF Fail, Finish, Snapshot!Abort, AbsActive, hardware
  <2> QED
    BY <2>2 DEF Snapshot!Next
<1> QED
  <2>1. ASSUME NEW r \in Readers,
               \/ ReadHi(r) \/ ReadLo(r) \/ ReadNewHi(r) \/ RereadLo(r)
               \/ CheckMultiplier(r) \/ ReadUnits(r)
        PROVE UNCHANGED Snapshot!vars
    BY <2>1, <1>4
    DEF ReadHi, ReadLo, ReadNewHi, RereadLo, CheckMultiplier, ReadUnits,
        hardware, locals
  <2>2. CASE UNCHANGED vars
    BY <2>2 DEF vars, hardware, locals
  <2> QED
    BY <2>1, <2>2, <1>2, <1>3, <1>5, <1>6 DEF Next, Step

(* The sequence of mailbox commands implements an atomic read of the whole *)
(* 64-bit counter.                                                         *)
THEOREM Refinement == Spec => ImplementsSnapshot
<1> QED
  BY SnapshotInit, SnapshotStep, ReadInvInit, ReadInvStep, PTL
  DEF Spec, ImplementsSnapshot, Snapshot!Spec
=============================================================================

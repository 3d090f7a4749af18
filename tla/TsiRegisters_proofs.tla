------------------------ MODULE TsiRegisters_proofs ------------------------
(***************************************************************************)
(* Proofs about TsiRegisters for any number of clients, any choice of      *)
(* calls and arguments and any power-on values, about the temperature read *)
(* beside them (TsiTemperature), and about the temperatures kept in two    *)
(* bytes (TsiThreshold), for any number of setters and getters.            *)
(***************************************************************************)
EXTENDS TsiTemperature, TsiThreshold, TLAPS

Names == {"alert_threshold", "hbm_alert_threshold", "alert_config",
          "hbm_alert_config", "timeout_config", "alert_mask", "runstop",
          "readorder", "ara"}

LEMMA SettingNames == DOMAIN Setting = Names /\ Calls \subseteq Names
  BY CallAssumption DEF Setting, Names

(* What the nine calls have in common: the mask keeps exactly the bits     *)
(* that the call does not own.                                             *)
LEMMA MaskIsComplement ==
  ASSUME NEW n \in Names
  PROVE  /\ Setting[n].register \in Register
         /\ Own(n) \subseteq Bit
         /\ Setting[n].keep = Bit \ Own(n)
<1> USE DEF Own, Shift, Call, Setting, Register, Bit
<1>1. CASE n = "alert_threshold"
  BY <1>1 DEF AlertThreshold
<1>2. CASE n = "hbm_alert_threshold"
  BY <1>2 DEF HbmAlertThreshold
<1>3. CASE n = "alert_config"
  BY <1>3 DEF AlertConfig
<1>4. CASE n = "hbm_alert_config"
  BY <1>4 DEF HbmAlertConfig
<1>5. CASE n = "timeout_config"
  BY <1>5 DEF TimeoutConfig
<1>6. CASE n = "alert_mask"
  BY <1>6 DEF ConfigWr
<1>7. CASE n = "runstop"
  BY <1>7 DEF ConfigWr
<1>8. CASE n = "readorder"
  BY <1>8 DEF ConfigWr
<1>9. CASE n = "ara"
  BY <1>9 DEF ConfigWr
<1> QED
  BY <1>1, <1>2, <1>3, <1>4, <1>5, <1>6, <1>7, <1>8, <1>9 DEF Names

(* Between read and write: the value lies within the call's own bits, and  *)
(* the byte read, however old, has the reserved bits of the register.      *)
PendingInv(c) ==
  pc[c] = "write" =>
    LET r == Setting[call[c]].register
    IN  /\ value[c] \subseteq Own(call[c])
        /\ prev[c] \cap Reserved(r) = PowerOn[r] \cap Reserved(r)

IInv ==
  /\ TypeOK
  /\ \A c \in Clients : PendingInv(c)
  /\ ReservedBitsKept
  /\ UncontendedUpdatesSurvive

LEMMA IInvInit == Init => IInv
  BY PowerOnAssumption
  DEF Init, IInv, TypeOK, PendingInv, ReservedBitsKept,
      UncontendedUpdatesSurvive

LEMMA ReadStep ==
  ASSUME IInv, NEW c \in Clients, NEW name \in Calls, NEW v \in Arguments,
         Read(c, name, v)
  PROVE  IInv'
<1> DEFINE s == Setting[name]
           new == Shift(v, s.shift)
<1>t. TypeOK
  BY DEF IInv
<1>1. s.register \in Register /\ new \subseteq Own(name) /\ Own(name) \subseteq Bit
  <2>1. new \subseteq Own(name)
    BY DEF Read, Own, Shift
  <2> QED
    BY <2>1, SettingNames, MaskIsComplement
<1>2. CASE /\ Return(c) /\ Intend(name, new) /\ UNCHANGED <<reg, contended>>
           /\ call' = [call EXCEPT ![c] = name]
           /\ reg[s.register] \cap Own(name) = new
  <2>1. intended' = [intended EXCEPT ![s.register] = (@ \ Own(name)) \cup new]
    BY <1>2, <1>1 DEF Intend
  <2>2. TypeOK' /\ \A d \in Clients : PendingInv(d)'
    <3>1. intended' \in [Register -> SUBSET Bit]
      BY <2>1, <1>1, <1>t DEF TypeOK
    <3>2. TypeOK'
      BY <3>1, <1>2, <1>t DEF TypeOK, Return
    <3> QED BY <3>2, <1>2, <1>t DEF Return, IInv, TypeOK, PendingInv
  <2>3. UncontendedUpdatesSurvive'
    <3> SUFFICES ASSUME NEW q \in Register, q \notin contended
                 PROVE  reg[q] = intended'[q]
      BY <1>2 DEF UncontendedUpdatesSurvive
    <3>1. reg[q] = intended[q]
      BY DEF IInv, UncontendedUpdatesSurvive
    <3>2. CASE q = s.register
      <4>1. intended'[q] = (intended[q] \ Own(name)) \cup new
        BY <2>1, <3>2, <1>t DEF TypeOK
      <4> QED BY <4>1, <3>1, <3>2, <1>2
    <3>3. CASE q # s.register
      BY <2>1, <3>1, <3>3, <1>t DEF TypeOK
    <3> QED BY <3>2, <3>3
  <2>4. ReservedBitsKept'
    BY <1>2 DEF IInv, ReservedBitsKept
  <2> QED BY <2>2, <2>3, <2>4 DEF IInv
<1>3. CASE /\ pc' = [pc EXCEPT ![c] = "write"]
           /\ value' = [value EXCEPT ![c] = new]
           /\ prev' = [prev EXCEPT ![c] = reg[s.register]]
           /\ call' = [call EXCEPT ![c] = name]
           /\ UNCHANGED <<reg, intended, contended>>
  <2>1. TypeOK'
    BY <1>3, <1>1, <1>t DEF TypeOK
  <2>2. ASSUME NEW d \in Clients PROVE PendingInv(d)'
    <3>1. CASE d = c
      BY <3>1, <1>3, <1>1, <1>t DEF TypeOK, PendingInv, IInv, ReservedBitsKept
    <3>2. CASE d # c
      BY <3>2, <1>3, <1>t DEF TypeOK, PendingInv, IInv
    <3> QED
      BY <3>1, <3>2
  <2>3. ReservedBitsKept' /\ UncontendedUpdatesSurvive'
    BY <1>3 DEF IInv, ReservedBitsKept, UncontendedUpdatesSurvive
  <2> QED
    BY <2>1, <2>2, <2>3 DEF IInv
<1>4. CASE ~s.always /\ reg[s.register] \cap Own(name) = new
  BY <1>2, <1>4 DEF Read, ReadValue
<1>5. CASE ~(~s.always /\ reg[s.register] \cap Own(name) = new)
  BY <1>3, <1>5 DEF Read, ReadValue
<1> QED
  BY <1>4, <1>5

LEMMA WriteStep ==
  ASSUME IInv, NEW c \in Clients, Write(c) PROVE IInv'
<1> DEFINE name == call[c]
           r == Setting[name].register
           byte == (prev[c] \cap Setting[name].keep) \cup value[c]
<1>t. TypeOK /\ name \in Calls /\ name \in Names
  BY SettingNames DEF IInv, TypeOK
<1>m. /\ r \in Register /\ Own(name) \subseteq Bit
      /\ Setting[name].keep = Bit \ Own(name)
  BY <1>t, MaskIsComplement
<1>p. /\ value[c] \subseteq Own(name)
      /\ prev[c] \cap Reserved(r) = PowerOn[r] \cap Reserved(r)
      /\ prev[c] \subseteq Bit
  BY <1>t DEF Write, WriteByte, IInv, PendingInv, TypeOK
<1>w. /\ reg' = [reg EXCEPT ![r] = byte]
      /\ intended' = [intended EXCEPT ![r] =
                        (@ \ Own(name)) \cup (value[c] \cap Own(name))]
      /\ contended' = IF prev[c] = reg[r] THEN contended
                                          ELSE contended \cup {r}
      /\ Return(c) /\ UNCHANGED call
  BY DEF Write, WriteByte, Intend
<1>1. byte = (prev[c] \ Own(name)) \cup value[c] /\ byte \subseteq Bit
  BY <1>m, <1>p
<1>2. TypeOK'
  <2>1. reg' \in [Register -> SUBSET Bit]
    BY <1>1, <1>w, <1>t, <1>m DEF TypeOK
  <2>2. intended' \in [Register -> SUBSET Bit]
    <3>1. (intended[r] \ Own(name)) \cup (value[c] \cap Own(name)) \subseteq Bit
      BY <1>m, <1>t DEF TypeOK
    <3> QED
      BY <3>1, <1>w, <1>t, <1>m DEF TypeOK
  <2>3. contended' \in SUBSET Register
    BY <1>w, <1>t, <1>m DEF TypeOK
  <2> QED
    BY <2>1, <2>2, <2>3, <1>w, <1>t DEF Return, TypeOK
<1>3. ASSUME NEW d \in Clients PROVE PendingInv(d)'
  BY <1>w, <1>t DEF Return, TypeOK, IInv, PendingInv
<1>4. ReservedBitsKept'
  <2>1. Own(name) \cap Reserved(r) = {}
    BY <1>t DEF Reserved
  <2>2. byte \cap Reserved(r) = PowerOn[r] \cap Reserved(r)
    BY <2>1, <1>1, <1>p
  <2> QED
    BY <2>2, <1>w, <1>t, <1>m DEF TypeOK, IInv, ReservedBitsKept
<1>5. UncontendedUpdatesSurvive'
  <2> SUFFICES ASSUME NEW q \in Register, q \notin contended'
               PROVE  reg'[q] = intended'[q]
    BY DEF UncontendedUpdatesSurvive
  <2>1. q \notin contended /\ reg[q] = intended[q]
    BY <1>w DEF IInv, UncontendedUpdatesSurvive
  <2>2. CASE q = r
    <3>1. prev[c] = reg[r]
      BY <2>2, <1>w
    <3>2. reg'[r] = byte /\ intended'[r] = (intended[r] \ Own(name)) \cup
                                            (value[c] \cap Own(name))
      BY <1>w, <1>t, <1>m DEF TypeOK
    <3> QED
      BY <3>1, <3>2, <2>1, <2>2, <1>1, <1>p
  <2>3. CASE q # r
    BY <2>1, <2>3, <1>w, <1>t DEF TypeOK
  <2> QED
    BY <2>2, <2>3
<1> QED
  BY <1>2, <1>3, <1>4, <1>5 DEF IInv

LEMMA IInvStep == IInv /\ [Next]_vars => IInv'
<1> SUFFICES ASSUME IInv, [Next]_vars PROVE IInv'
  OBVIOUS
<1>1. ASSUME NEW c \in Clients, Fail(c) PROVE IInv'
  BY <1>1
  DEF Fail, Return, IInv, TypeOK, PendingInv, ReservedBitsKept,
      UncontendedUpdatesSurvive
<1>2. CASE UNCHANGED vars
  BY <1>2
  DEF vars, IInv, TypeOK, PendingInv, ReservedBitsKept,
      UncontendedUpdatesSurvive
<1> QED
  BY <1>1, <1>2, ReadStep, WriteStep DEF Next

(* A call for one setting of a byte never disturbs the other settings of   *)
(* it as long as no client writes over another client's change.            *)
THEOREM UpdatesSurvive == Spec => []UncontendedUpdatesSurvive
<1>1. IInv => UncontendedUpdatesSurvive
  BY DEF IInv
<1> QED
  BY <1>1, IInvInit, IInvStep, PTL DEF Spec

(* The reserved bits of every register keep their power-on value even when *)
(* calls race.                                                             *)
THEOREM ReservedBits == Spec => []ReservedBitsKept
<1>1. IInv => ReservedBitsKept
  BY DEF IInv
<1> QED
  BY <1>1, IInvInit, IInvStep, PTL DEF Spec

-----------------------------------------------------------------------------
(* The settings of SettingsStore (ImplementsSettings).                     *)

LEMMA WidthAndShift ==
  \A n \in Names : /\ Setting[n].width \subseteq 0 .. 2
                   /\ Setting[n].shift \in 0 .. 7
<1> SUFFICES ASSUME NEW n \in Names
             PROVE  Setting[n].width \subseteq 0 .. 2 /\ Setting[n].shift \in 0 .. 7
  OBVIOUS
<1> USE DEF Setting, Call
<1>1. CASE n = "alert_threshold"
  BY <1>1 DEF AlertThreshold
<1>2. CASE n = "hbm_alert_threshold"
  BY <1>2 DEF HbmAlertThreshold
<1>3. CASE n = "alert_config"
  BY <1>3 DEF AlertConfig
<1>4. CASE n = "hbm_alert_config"
  BY <1>4 DEF HbmAlertConfig
<1>5. CASE n = "timeout_config"
  BY <1>5 DEF TimeoutConfig
<1>6. CASE n = "alert_mask"
  BY <1>6 DEF ConfigWr
<1>7. CASE n = "runstop"
  BY <1>7 DEF ConfigWr
<1>8. CASE n = "readorder"
  BY <1>8 DEF ConfigWr
<1>9. CASE n = "ara"
  BY <1>9 DEF ConfigWr
<1> QED
  BY <1>1, <1>2, <1>3, <1>4, <1>5, <1>6, <1>7, <1>8, <1>9 DEF Names

(* No two settings of a register have a bit in common.                     *)
LEMMA OwnBits ==
  /\ Own("alert_threshold") = 0 .. 2 /\ Own("hbm_alert_threshold") = 3 .. 5
  /\ Own("alert_config") = {0} /\ Own("hbm_alert_config") = {1}
  /\ Own("timeout_config") = {7}
  /\ Own("alert_mask") = {7} /\ Own("runstop") = {6}
  /\ Own("readorder") = {5} /\ Own("ara") = {1}
BY DEF Own, Shift, Setting, Call, AlertThreshold, HbmAlertThreshold, AlertConfig,
       HbmAlertConfig, TimeoutConfig, ConfigWr

LEMMA Registers ==
  /\ Setting["alert_threshold"].register = "ALERTTHRESHOLD"
  /\ Setting["hbm_alert_threshold"].register = "ALERTTHRESHOLD"
  /\ Setting["alert_config"].register = "ALERTCONFIG"
  /\ Setting["hbm_alert_config"].register = "ALERTCONFIG"
  /\ Setting["timeout_config"].register = "TIMEOUTCONFIG"
  /\ \A n \in {"alert_mask", "runstop", "readorder", "ara"} :
       Setting[n].register = "CONFIGURATION"
BY DEF Setting, Call, AlertThreshold, HbmAlertThreshold, AlertConfig, HbmAlertConfig,
       TimeoutConfig, ConfigWr

LEMMA OwnApart ==
  ASSUME NEW n \in Names, NEW m \in Names, m # n,
         Setting[m].register = Setting[n].register
  PROVE  Own(m) \cap Own(n) = {}
<1>1. CASE n \in {"alert_threshold", "hbm_alert_threshold"}
  BY <1>1, OwnBits, Registers DEF Names
<1>2. CASE n \in {"alert_config", "hbm_alert_config"}
  BY <1>2, OwnBits, Registers DEF Names
<1>3. CASE n = "timeout_config"
  BY <1>3, Registers DEF Names
<1>4. CASE n \in {"alert_mask", "runstop", "readorder", "ara"}
  BY <1>4, OwnBits, Registers DEF Names
<1> QED
  BY <1>1, <1>2, <1>3, <1>4 DEF Names

(* A value comes back out of the place where its call puts it.             *)
LEMMA FieldOfShift ==
  ASSUME NEW n \in Names, NEW v \in SUBSET Setting[n].width
  PROVE  Field(n, Shift(v, Setting[n].shift)) = v
<1> DEFINE w == Setting[n].width
           s == Setting[n].shift
<1>1. w \subseteq Int /\ v \subseteq w /\ s \in Int
  BY WidthAndShift
<1> HIDE DEF w, s
<1>2. ASSUME NEW b \in w, NEW x \in v, b + s = x + s PROVE b = x
  BY <1>1, <1>2
<1>3. {b \in w : b + s \in {x + s : x \in v}} = v
  BY <1>1, <1>2
<1> QED BY <1>3 DEF Field, Shift, w, s

(* A field depends on the setting's own bits only.                         *)
LEMMA FieldOfOwn ==
  ASSUME NEW n \in Names, NEW x, NEW y, x \cap Own(n) = y \cap Own(n)
  PROVE  Field(n, x) = Field(n, y)
<1>1. \A b \in Setting[n].width : b + Setting[n].shift \in Own(n)
  BY DEF Own, Shift
<1> QED BY <1>1 DEF Field

(* What a write makes of the settings of its byte.                         *)
Written(n, old, v) == (old \cap Setting[n].keep) \cup v

LEMMA WritePutsBack ==
  ASSUME NEW n \in Names, NEW old \in SUBSET Bit, NEW v \in SUBSET Own(n),
         NEW m \in Names, Setting[m].register = Setting[n].register
  PROVE  Field(m, Written(n, old, v)) = IF m = n THEN Field(n, v) ELSE Field(m, old)
<1> DEFINE byte == Written(n, old, v)
<1>1. Setting[n].keep = Bit \ Own(n)
  BY MaskIsComplement
<1>2. CASE m = n
  <2>1. byte \cap Own(n) = v \cap Own(n)
    BY <1>1 DEF Written
  <2> QED BY <1>2, <2>1, FieldOfOwn
<1>3. CASE m # n
  <2>1. Own(m) \cap Own(n) = {}
    BY <1>3, OwnApart
  <2>2. byte \cap Own(m) = old \cap Own(m)
    BY <1>1, <2>1 DEF Written
  <2> QED BY <1>3, <2>2, FieldOfOwn
<1> QED BY <1>2, <1>3

LEMMA StoreInit == Init => Store!Init
<1> SUFFICES ASSUME Init PROVE Store!Init
  OBVIOUS
<1> DEFINE V == [n \in Calls |-> SUBSET Setting[n].width]
<1>1. \A n \in Calls : SettingNow[n] \in V[n]
  BY DEF SettingNow, Field
<1>2. SettingNow \in [Calls -> UNION {V[n] : n \in Calls}]
  BY <1>1 DEF SettingNow
<1>3. /\ AskedNow = [c \in Clients |-> "none"]
      /\ WantedNow = [c \in Clients |-> {}]
      /\ SawNow = [c \in Clients |-> << >>]
  BY DEF Init, Writing, AskedNow, WantedNow, SawNow
<1> QED BY <1>1, <1>2, <1>3 DEF Store!Init, Store!NoCall, Store!Nothing, Store!NoView

LEMMA ReadBegins ==
  ASSUME IInv, NEW c \in Clients, NEW name \in Calls, NEW v \in Arguments,
         Read(c, name, v)
  PROVE  Store!Next \/ UNCHANGED Store!vars
<1> DEFINE s == Setting[name]
           new == Shift(v, s.shift)
<1>t. TypeOK /\ name \in Names
  BY SettingNames DEF IInv
<1>n. SettingNow' = SettingNow
  BY DEF Read, ReadValue, SettingNow
<1>1. CASE ~s.always /\ reg[s.register] \cap Own(name) = new
  <2>1. pc' = pc /\ pc[c] = "idle"
    BY <1>1, <1>t DEF Read, ReadValue, Return, TypeOK
  <2>2. \A d \in Clients \ {c} : call'[d] = call[d] /\ value'[d] = value[d] /\ prev'[d] = prev[d]
    BY <1>1, <1>t DEF Read, ReadValue, Return, TypeOK
  <2>3. AskedNow' = AskedNow /\ WantedNow' = WantedNow /\ SawNow' = SawNow
    BY <2>1, <2>2 DEF AskedNow, WantedNow, SawNow, Writing
  <2> QED BY <1>n, <2>3 DEF Store!vars
<1>2. CASE ~(~s.always /\ reg[s.register] \cap Own(name) = new)
  <2>1. /\ pc[c] = "idle" /\ pc' = [pc EXCEPT ![c] = "write"]
        /\ call' = [call EXCEPT ![c] = name]
        /\ value' = [value EXCEPT ![c] = new]
        /\ prev' = [prev EXCEPT ![c] = reg[s.register]]
    BY <1>2 DEF Read, ReadValue
  <2>2. AskedNow[c] = "none"
    BY <2>1 DEF AskedNow, Writing
  <2>3. AskedNow' = [AskedNow EXCEPT ![c] = name]
    BY <2>1, <1>t DEF AskedNow, Writing, TypeOK
  <2>4. v \in SUBSET s.width /\ WantedNow' = [WantedNow EXCEPT ![c] = v]
    <3>1. v \in SUBSET s.width /\ Field(name, new) = v
      BY <1>t, FieldOfShift DEF Read
    <3>2. WantedNow' = [WantedNow EXCEPT ![c] = Field(name, new)]
      BY <2>1, <1>t DEF WantedNow, Writing, TypeOK
    <3> QED BY <3>1, <3>2
  <2>5. SawNow' = [SawNow EXCEPT ![c] = [n \in Sharing[name] |-> SettingNow[n]]]
    <3>1. [n \in Sharing[name] |-> SettingNow[n]] =
            [n \in Sharing[name] |-> Field(n, reg[s.register])]
      BY DEF Sharing, SettingNow
    <3>2. SawNow' = [SawNow EXCEPT ![c] = [n \in Sharing[name] |-> Field(n, reg[s.register])]]
      BY <2>1, <1>t DEF SawNow, Writing, TypeOK
    <3> QED BY <3>1, <3>2
  <2>6. Store!Begin(c, name)
    BY <1>n, <2>2, <2>3, <2>4, <2>5 DEF Store!Begin, Store!NoCall
  <2> QED BY <2>6 DEF Store!Next
<1> QED BY <1>1, <1>2

(* A call that was under way has ended.                                    *)
LEMMA ReturnEnds ==
  ASSUME IInv, NEW c \in Clients, pc[c] = "write", Return(c), UNCHANGED call
  PROVE  Store!End(c)
<1>t. TypeOK /\ call[c] \in Names /\ "none" \notin Names
  BY SettingNames DEF IInv, TypeOK, Names
<1>1. AskedNow[c] # "none"
  BY <1>t DEF AskedNow, Writing
<1>2. /\ AskedNow' = [AskedNow EXCEPT ![c] = "none"]
      /\ WantedNow' = [WantedNow EXCEPT ![c] = {}]
      /\ SawNow' = [SawNow EXCEPT ![c] = << >>]
  BY <1>t DEF AskedNow, WantedNow, SawNow, Writing, Return, TypeOK
<1> QED BY <1>1, <1>2 DEF Store!End, Store!NoCall, Store!Nothing, Store!NoView

LEMMA WriteCompletes ==
  ASSUME IInv, NEW c \in Clients, Write(c)
  PROVE  Store!Complete(c)
<1> DEFINE name == call[c]
           r == Setting[name].register
           byte == Written(name, prev[c], value[c])
<1>t. TypeOK /\ name \in Calls /\ name \in Names /\ Calls \subseteq Names
  BY SettingNames DEF IInv, TypeOK
<1>w. /\ pc[c] = "write" /\ reg' = [reg EXCEPT ![r] = byte]
      /\ Return(c) /\ UNCHANGED call
  BY DEF Write, WriteByte, Written
<1>p. value[c] \in SUBSET Own(name) /\ prev[c] \in SUBSET Bit /\ r \in Register
  BY <1>t, <1>w, MaskIsComplement DEF IInv, PendingInv, TypeOK
<1>a. /\ AskedNow[c] = name /\ WantedNow[c] = Field(name, value[c])
      /\ SawNow[c] = [n \in Sharing[name] |-> Field(n, prev[c])]
  BY <1>w DEF AskedNow, WantedNow, SawNow, Writing
<1>1. Store!End(c)
  BY <1>w, ReturnEnds
<1>2. ASSUME NEW n \in Calls
      PROVE  SettingNow'[n] = IF n = name THEN WantedNow[c]
                              ELSE IF n \in Sharing[name] THEN SawNow[c][n]
                              ELSE SettingNow[n]
  <2>1. SettingNow'[n] = Field(n, reg'[Setting[n].register])
    BY DEF SettingNow
  <2>2. n \in Names /\ Setting[n].register \in Register
    BY <1>t, MaskIsComplement
  <2>3. n \in Sharing[name] <=> Setting[n].register = r
    BY <1>t DEF Sharing
  <2>4. CASE Setting[n].register = r
    <3>1. reg'[r] = byte
      BY <1>w, <1>p, <1>t DEF TypeOK
    <3>4. SettingNow'[n] = Field(n, byte)
      BY <2>1, <2>4, <3>1
    <3>2. Field(n, byte) = IF n = name THEN Field(name, value[c]) ELSE Field(n, prev[c])
      BY <1>p, <1>t, <2>2, <2>4, WritePutsBack
    <3> HIDE DEF byte
    <3> QED BY <3>4, <3>2, <2>3, <2>4, <1>a
  <2>5. CASE Setting[n].register # r
    <3>1. SettingNow'[n] = SettingNow[n]
      BY <2>1, <2>2, <2>5, <1>w, <1>t DEF SettingNow, TypeOK
    <3> QED BY <3>1, <2>3, <2>5
  <2> QED BY <2>4, <2>5
<1>3. SettingNow' = [n \in Calls |-> IF n = AskedNow[c] THEN WantedNow[c]
                                    ELSE IF n \in Sharing[AskedNow[c]] THEN SawNow[c][n]
                                    ELSE SettingNow[n]]
  BY <1>2, <1>a DEF SettingNow
<1> QED BY <1>1, <1>3 DEF Store!Complete

LEMMA FailAborts ==
  ASSUME IInv, NEW c \in Clients, Fail(c)
  PROVE  Store!Abort(c)
<1>1. Store!End(c)
  BY ReturnEnds DEF Fail
<1>2. SettingNow' = SettingNow
  BY DEF Fail, SettingNow
<1> QED BY <1>1, <1>2 DEF Store!Abort

LEMMA StoreStep == IInv /\ [Next]_vars => [Store!Next]_(Store!vars)
<1> SUFFICES ASSUME IInv, [Next]_vars PROVE Store!Next \/ UNCHANGED Store!vars
  OBVIOUS
<1>1. ASSUME NEW c \in Clients, Write(c) \/ Fail(c) PROVE Store!Next
  BY <1>1, WriteCompletes, FailAborts DEF Store!Next
<1>2. CASE UNCHANGED vars
  BY <1>2 DEF vars, Store!vars, SettingNow, AskedNow, WantedNow, SawNow, Writing
<1> QED BY <1>1, <1>2, ReadBegins DEF Next

(* The calls implement settings of their own, for any clients, calls,      *)
(* arguments and power-on values: a read and a write of a shared byte are  *)
(* one step on the setting, and put its neighbours back together to one    *)
(* moment of the call at worst.                                            *)
THEOREM SettingsRefined == Spec => ImplementsSettings
<1> QED
  BY StoreInit, StoreStep, IInvInit, IInvStep, PTL DEF Spec, ImplementsSettings, Store!Spec

-----------------------------------------------------------------------------
(* The temperature (TsiTemperature), for any number of readers, any range  *)
(* of temperatures and any clients of the registers.                       *)

LEMMA Bytes ==
  ASSUME NEW x \in Nat, NEW y \in Nat
  PROVE  /\ 8 * (x \div 8) + (x % 8) = x
         /\ (8 * (x \div 8) + (y % 8)) - x \in -7 .. 7
BY SMT

LEMMA TempsAreNat == Temps \subseteq Nat
BY TemperatureAssumption, SMT DEF Temps

Shapes ==
  /\ temp \in Temps
  /\ latch \in {NoLatch} \cup Temps
  /\ rpc \in [Readers -> {"idle", "first", "second", "got"}]
  /\ order \in [Readers -> {"int", "dec"}]
  /\ DOMAIN first = Readers /\ DOMAIN got = Readers
  /\ held \in [Readers -> SUBSET Temps]
  /\ DOMAIN reordered = Readers /\ DOMAIN disturbed = Readers

(* During a call whose READORDER holds still, the byte it reads first is   *)
(* the one that latches, and the latch is empty or of the call's own time. *)
CallInv(r) ==
  /\ rpc[r] \in {"first", "second"} => temp \in held[r]
  /\ rpc[r] \in {"first", "second"} /\ ~reordered[r] =>
       order[r] = Latching(reg["CONFIGURATION"])
  /\ rpc[r] = "second" /\ ~reordered[r] =>
       /\ \E t \in held[r] : first[r] = ByteOf(order[r], t)
       /\ latch = NoLatch \/ latch \in held[r]
       /\ ~disturbed[r] => latch # NoLatch /\ first[r] = ByteOf(order[r], latch)
  /\ rpc[r] = "got" /\ ~reordered[r] =>
       /\ \E t \in held[r] : got[r] - t \in -7 .. 7
       /\ ~disturbed[r] => got[r] \in held[r]

TempInv == Shapes /\ \A r \in Readers : CallInv(r)

LEMMA MoveKeeps == ASSUME TempInv, Move PROVE TempInv'
<1>1. Shapes'
  BY DEF TempInv, Shapes, Move, readerVars, Temps
<1>2. ASSUME NEW r \in Readers PROVE CallInv(r)'
  <2>1. /\ held'[r] = IF rpc[r] \in {"first", "second"} THEN held[r] \cup {temp'} ELSE held[r]
        /\ reg' = reg /\ latch' = latch /\ rpc' = rpc /\ order' = order /\ first' = first
        /\ got' = got /\ reordered' = reordered /\ disturbed' = disturbed
    BY DEF Move, vars, readerVars
  <2> QED BY <2>1 DEF TempInv, CallInv
<1> QED BY <1>1, <1>2 DEF TempInv

LEMMA RegisterKeeps == ASSUME TempInv, RegisterStep PROVE TempInv'
<1> DEFINE change == Latching(reg'["CONFIGURATION"]) # Latching(reg["CONFIGURATION"])
<1>0. /\ temp' = temp /\ held' = held /\ disturbed' = disturbed
      /\ rpc' = rpc /\ order' = order /\ first' = first /\ got' = got
      /\ latch' = latch \/ (change /\ latch' = NoLatch)
      /\ reordered' = [r \in Readers |->
                         reordered[r] \/ (rpc[r] \in {"first", "second"} /\ change)]
  BY DEF RegisterStep, readerVars
<1>1. Shapes'
  BY <1>0 DEF TempInv, Shapes
<1>2. ASSUME NEW r \in Readers PROVE CallInv(r)'
  <2>1. CASE rpc[r] \in {"first", "second"} /\ change
    <3>1. reordered'[r] = TRUE \/ reordered'[r]
      BY <1>0, <2>1
    <3> QED BY <1>0, <2>1, <3>1 DEF TempInv, CallInv
  <2>2. CASE ~(rpc[r] \in {"first", "second"} /\ change)
    <3>1. reordered'[r] <=> reordered[r]
      BY <1>0, <2>2
    <3>2. rpc[r] \in {"first", "second"} =>
            latch' = latch /\ Latching(reg'["CONFIGURATION"]) = Latching(reg["CONFIGURATION"])
      BY <1>0, <2>2
    <3>3. CallInv(r)
      BY DEF TempInv
    <3> HIDE DEF change
    <3> QED BY <1>0, <3>1, <3>2, <3>3 DEF CallInv, Latching
  <2> QED BY <2>1, <2>2
<1> QED BY <1>1, <1>2 DEF TempInv

LEMMA ReadConfigKeeps ==
  ASSUME TempInv, NEW r \in Readers, ReadConfig(r)
  PROVE  TempInv'
<1>0. /\ rpc[r] = "idle" /\ rpc' = [rpc EXCEPT ![r] = "first"]
      /\ order' = [order EXCEPT ![r] = ReadsFirst(reg["CONFIGURATION"])]
      /\ held' = [held EXCEPT ![r] = {temp}]
      /\ reg' = reg /\ temp' = temp /\ latch' = latch /\ first' = first /\ got' = got
      /\ reordered' = reordered /\ disturbed' = disturbed
  BY DEF ReadConfig, vars
<1>1. Shapes'
  BY <1>0 DEF TempInv, Shapes, ReadsFirst
<1>2. ASSUME NEW q \in Readers PROVE CallInv(q)'
  BY <1>0 DEF TempInv, Shapes, CallInv, ReadsFirst, Latching
<1> QED BY <1>1, <1>2 DEF TempInv

(* A byte read by r: what the others, whose reads it may disturb, keep.    *)
LEMMA OthersKeep ==
  ASSUME TempInv, NEW r \in Readers, NEW q \in Readers, q # r, NEW b,
         MoveLatch(b), Disturb(r), reg' = reg, temp' = temp,
         rpc'[q] = rpc[q], order'[q] = order[q], first'[q] = first[q],
         got'[q] = got[q], held' = held, reordered' = reordered
  PROVE  CallInv(q)'
<1>1. disturbed'[q] <=> (disturbed[q] \/ rpc[q] = "second")
  BY DEF Disturb
<1>2. latch' \in {temp, latch, NoLatch}
  BY DEF MoveLatch
<1>3. CallInv(q)
  BY DEF TempInv
<1> QED BY <1>1, <1>2, <1>3 DEF CallInv

LEMMA ReadFirstKeeps ==
  ASSUME TempInv, NEW r \in Readers, ReadFirst(r)
  PROVE  TempInv'
<1>0. /\ rpc[r] = "first" /\ rpc' = [rpc EXCEPT ![r] = "second"]
      /\ first' = [first EXCEPT ![r] = Answer(order[r])]
      /\ MoveLatch(order[r]) /\ Disturb(r)
      /\ reg' = reg /\ temp' = temp /\ order' = order /\ got' = got
      /\ held' = held /\ reordered' = reordered
  BY DEF ReadFirst, vars
<1>1. Shapes'
  BY <1>0 DEF TempInv, Shapes, MoveLatch, Disturb
<1>2. CallInv(r)'
  <2> SUFFICES ASSUME ~reordered[r] PROVE CallInv(r)'
    BY <1>0 DEF TempInv, Shapes, CallInv
  <2>1. Leads(order[r]) /\ temp \in held[r]
    BY <1>0 DEF TempInv, CallInv, Leads
  <2>2. first'[r] = ByteOf(order[r], temp) /\ latch' = temp
    BY <1>0, <2>1 DEF TempInv, Shapes, Answer, MoveLatch
  <2>3. temp # NoLatch
    BY TempsAreNat, SMT DEF TempInv, Shapes, NoLatch
  <2> QED BY <1>0, <2>1, <2>2, <2>3 DEF TempInv, Shapes, CallInv
<1>3. ASSUME NEW q \in Readers, q # r PROVE CallInv(q)'
  <2>1. rpc'[q] = rpc[q] /\ order'[q] = order[q] /\ first'[q] = first[q] /\ got'[q] = got[q]
    BY <1>0, <1>3 DEF TempInv, Shapes
  <2> QED BY <1>0, <1>3, <2>1, OthersKeep
<1> QED BY <1>1, <1>2, <1>3 DEF TempInv

LEMMA ReadSecondKeeps ==
  ASSUME TempInv, NEW r \in Readers, ReadSecond(r)
  PROVE  TempInv'
<1> DEFINE second == Answer(Other(order[r]))
           result == IF order[r] = "int" THEN Value(first[r], second)
                                         ELSE Value(second, first[r])
<1>0. /\ rpc[r] = "second" /\ rpc' = [rpc EXCEPT ![r] = "got"]
      /\ got' = [got EXCEPT ![r] = result]
      /\ MoveLatch(Other(order[r])) /\ Disturb(r)
      /\ reg' = reg /\ temp' = temp /\ order' = order /\ first' = first
      /\ held' = held /\ reordered' = reordered
  BY DEF ReadSecond, vars
<1>1. Shapes'
  BY <1>0 DEF TempInv, Shapes, MoveLatch, Disturb
<1>2. CallInv(r)'
  <2>1. disturbed'[r] <=> disturbed[r]
    BY <1>0 DEF Disturb
  <2>2. rpc'[r] = "got" /\ got'[r] = result /\ held'[r] = held[r] /\ order[r] \in {"int", "dec"}
    BY <1>0 DEF TempInv, Shapes
  <2> SUFFICES ASSUME ~reordered[r]
               PROVE  /\ \E t \in held[r] : result - t \in -7 .. 7
                      /\ ~disturbed[r] => result \in held[r]
    BY <1>0, <2>1, <2>2 DEF CallInv
  <2>3. /\ order[r] = Latching(reg["CONFIGURATION"])
        /\ temp \in held[r] /\ (latch = NoLatch \/ latch \in held[r])
        /\ \E t \in held[r] : first[r] = ByteOf(order[r], t)
        /\ ~disturbed[r] => latch # NoLatch /\ first[r] = ByteOf(order[r], latch)
    BY <1>0 DEF TempInv, CallInv
  <2>4. held[r] \subseteq Nat
    BY TempsAreNat DEF TempInv, Shapes
  <2>5. PICK x \in held[r] :
          first[r] = ByteOf(order[r], x) /\ (~disturbed[r] => x = latch /\ latch # NoLatch)
    BY <2>3
  <2>6. ~Leads(Other(order[r]))
    BY <2>2, <2>3 DEF Leads, Other
  <2>7. PICK y \in held[r] :
          second = ByteOf(Other(order[r]), y) /\ y = IF latch = NoLatch THEN temp ELSE latch
    BY <2>3, <2>6 DEF Answer
  <2>8. x \in Nat /\ y \in Nat
    BY <2>4
  <2>9. CASE order[r] = "int"
    <3>1. result = 8 * (x \div 8) + (y % 8)
      BY <2>5, <2>7, <2>9 DEF Value, ByteOf, Other
    <3> HIDE DEF result
    <3> QED BY <2>5, <2>7, <2>8, <3>1, Bytes
  <2>10. CASE order[r] = "dec"
    <3>1. result = 8 * (y \div 8) + (x % 8)
      BY <2>5, <2>7, <2>10 DEF Value, ByteOf, Other
    <3> HIDE DEF result
    <3> QED BY <2>5, <2>7, <2>8, <3>1, Bytes
  <2> QED BY <2>2, <2>9, <2>10
<1>3. ASSUME NEW q \in Readers, q # r PROVE CallInv(q)'
  <2>1. rpc'[q] = rpc[q] /\ order'[q] = order[q] /\ first'[q] = first[q] /\ got'[q] = got[q]
    BY <1>0, <1>3 DEF TempInv, Shapes
  <2> QED BY <1>0, <1>3, <2>1, OthersKeep
<1> QED BY <1>1, <1>2, <1>3 DEF TempInv

LEMMA ReadReturnsKeeps ==
  ASSUME TempInv, NEW r \in Readers, ReadReturns(r)
  PROVE  TempInv'
<1>0. /\ rpc' = [rpc EXCEPT ![r] = "idle"] /\ order' = [order EXCEPT ![r] = "int"]
      /\ first' = [first EXCEPT ![r] = 0] /\ got' = [got EXCEPT ![r] = 0]
      /\ held' = [held EXCEPT ![r] = {}] /\ reordered' = [reordered EXCEPT ![r] = FALSE]
      /\ disturbed' = [disturbed EXCEPT ![r] = FALSE]
      /\ reg' = reg /\ temp' = temp /\ latch' = latch
  BY DEF ReadReturns, vars
<1>1. Shapes'
  BY <1>0 DEF TempInv, Shapes
<1>2. ASSUME NEW q \in Readers PROVE CallInv(q)'
  BY <1>0 DEF TempInv, Shapes, CallInv
<1> QED BY <1>1, <1>2 DEF TempInv

LEMMA TempInvariant == TemperatureSpec => []TempInv
<1>1. TemperatureInit => TempInv
  BY DEF TemperatureInit, TempInv, Shapes, CallInv
<1>2. TempInv /\ [TemperatureNext]_allVars => TempInv'
  <2> SUFFICES ASSUME TempInv, [TemperatureNext]_allVars PROVE TempInv'
    OBVIOUS
  <2>1. CASE UNCHANGED allVars
    BY <2>1 DEF allVars, vars, temperatureVars, readerVars, history, TempInv, Shapes, CallInv
  <2> QED BY <2>1, MoveKeeps, RegisterKeeps, ReadConfigKeeps, ReadFirstKeeps,
             ReadSecondKeeps, ReadReturnsKeeps DEF TemperatureNext
<1> QED BY <1>1, <1>2, PTL DEF TemperatureSpec

(* sbtsi_get_cputemp returns a temperature of its own time, whole, unless  *)
(* another reader came between its two reads or READORDER changed.         *)
THEOREM TemperatureIsWhole == TemperatureSpec => []TempWasMeasured
<1>1. TempInv => TempWasMeasured
  BY DEF TempInv, CallInv, TempWasMeasured
<1> QED BY <1>1, TempInvariant, PTL

(* However many readers overlap, what is returned is within a degree of a  *)
(* temperature of the call, as long as READORDER holds still.              *)
THEOREM OtherReadersCostLess == TemperatureSpec => []WithinADegree
<1>1. TempInv => WithinADegree
  BY DEF TempInv, CallInv, WithinADegree
<1> QED BY <1>1, TempInvariant, PTL

-----------------------------------------------------------------------------
(* TsiThreshold.                                                           *)

(* The two bytes written for an accepted temperature read back as that     *)
(* temperature, rounded down to 1/8 degree.                                *)
LEMMA RoundTrip ==
  ASSUME NEW k \in Kinds, NEW t \in Int, Accepts(k, t)
  PROVE  /\ Decode(k, ToByte(IntPart(t)), Steps(t) % 8) = RoundedDown(t)
         /\ Steps(t) \in 0 .. 7
         /\ ToByte(IntPart(t)) \in 0 .. 255
<1> DEFINE i == IntPart(t)
<1>1. i \in Int /\ 16 * i <= t /\ t < 16 * i + 16
  BY SMT DEF IntPart, Truncate
<1>2. Steps(t) = (t - 16 * i) \div 2 /\ Steps(t) \in 0 .. 7
  BY <1>1, SMT DEF Steps, Truncate
<1>3. Steps(t) % 8 = Steps(t)
  BY <1>2, SMT
<1>4. ToByte(i) \in 0 .. 255
  BY <1>1, SMT DEF ToByte
<1>5. OfByte(k, ToByte(i)) = i
  <2>1. CASE k = "offset"
    BY <2>1, <1>1, SMT DEF Accepts, OfByte, ToByte
  <2>2. CASE k = "threshold"
    BY <2>2, <1>1, SMT DEF Accepts, OfByte, ToByte
  <2>3. CASE k = "hbm"
    BY <2>3, <1>1, SMT DEF Accepts, OfByte, ToByte
  <2> QED BY <2>1, <2>2, <2>3, KindAssumption
<1>6. 16 * i + 2 * ((t - 16 * i) \div 2) = 2 * (t \div 2)
  BY <1>1, SMT
<1> QED BY <1>2, <1>3, <1>4, <1>5, <1>6 DEF Decode, RoundedDown

-----------------------------------------------------------------------------
(* Only accepted temperatures are ever on their way to the registers. *)
Accepted ==
  /\ Accepts(kind, last)
  /\ \A s \in Setters : Accepts(kind, wanted[s])

TypeInv == ThresholdTypeOK /\ Accepted

(* The bytes always have their types, for any temperatures passed in: the  *)
(* range checks and the floor of a negative offset are enough.             *)
LEMMA TypeInvariant == ThresholdSpec => []TypeInv
<1>1. ThresholdInit => TypeInv
  <2> SUFFICES ASSUME ThresholdInit PROVE TypeInv
    OBVIOUS
  <2>0. kind \in Kinds
    BY DEF ThresholdInit
  <2>1. /\ Start \in Int /\ Accepts(kind, Start)
        /\ ToByte(IntPart(Start)) \in 0 .. 255
        /\ Steps(Start) \in 0 .. 7
    BY <2>0, RoundTrip, StartAssumption
  <2> USE DEF ThresholdInit
  <2>2. kind \in Kinds /\ byteInt \in 0 .. 255 /\ byteDec \in [steps : 0 .. 7, low : 0 .. 31]
    BY <2>1, LowAssumption
  <2>3. doing \in [Callers -> {"idle", "read", "write", "getint", "getdec", "got"}]
    OBVIOUS
  <2>4. /\ wanted \in [Setters -> Int]
        /\ kept \in [Setters -> 0 .. 31]
        /\ last \in Int
        /\ mixed \in BOOLEAN
        /\ alone \in [Setters -> BOOLEAN]
    BY <2>1, LowAssumption
  <2>5. /\ gotInt \in [Getters -> 0 .. 255]
        /\ gotten \in [Getters -> Int]
        /\ window \in [Getters -> SUBSET Int]
        /\ crossed \in [Getters -> SUBSET {"int", "dec"}]
    BY <2>1
  <2>6. Accepted
    BY <2>1 DEF Accepted
  <2> QED BY <2>2, <2>3, <2>4, <2>5, <2>6 DEF TypeInv, ThresholdTypeOK
<1>2. TypeInv /\ [ThresholdNext]_thresholdVars => TypeInv'
  <2> SUFFICES ASSUME TypeInv, [ThresholdNext]_thresholdVars PROVE TypeInv'
    OBVIOUS
  <2> USE DEF TypeInv, ThresholdTypeOK, Accepted
  <2>1. ASSUME NEW s \in Setters, NEW t \in Requests, WriteInt(s, t)
        PROVE  TypeInv'
    <3>1. t \in Int /\ Accepts(kind, t) /\ ToByte(IntPart(t)) \in 0 .. 255
      BY <2>1, TempAssumption, RoundTrip DEF WriteInt
    <3>2. Decode(kind, ToByte(IntPart(t)), byteDec.steps) \in Int
      BY <3>1, SMT DEF Decode, OfByte
    <3>3. (wanted \in [Setters -> Int] /\ \A q \in Setters : Accepts(kind, wanted[q]))'
      BY <2>1, <3>1 DEF WriteInt
    <3>4. (doing \in [Callers -> {"idle", "read", "write",
                               "getint", "getdec", "got"}])'
      BY <2>1 DEF WriteInt, Goto, Callers
    <3>5. (/\ window \in [Getters -> SUBSET Int]
           /\ crossed \in [Getters -> SUBSET {"int", "dec"}])'
      BY <2>1, <3>2 DEF WriteInt, Observe
    <3>6. (alone \in [Setters -> BOOLEAN])'
      BY <2>1 DEF WriteInt
    <3>7. (mixed \in BOOLEAN)'
      BY <2>1 DEF WriteInt
    <3> QED BY <2>1, <3>1, <3>3, <3>4, <3>5, <3>6, <3>7 DEF WriteInt, Observe
  <2>2. ASSUME NEW s \in Setters, ReadDec(s) PROVE TypeInv'
    BY <2>2 DEF ReadDec, Goto, Callers, registers, getterVars
  <2>3. ASSUME NEW s \in Setters, WriteDec(s) PROVE TypeInv'
    <3> USE <2>3 DEF WriteDec, WriteDecWith
    <3>1. Steps(wanted[s]) \in 0 .. 7 /\ Steps(wanted[s]) % 8 \in 0 .. 7
      <4>1. Steps(wanted[s]) \in 0 .. 7
        BY RoundTrip
      <4> QED BY <4>1, SMT
    <3>2. Decode(kind, byteInt, Steps(wanted[s]) % 8) \in Int
      BY <3>1, SMT DEF Decode, OfByte
    <3>3. (byteDec \in [steps : 0 .. 7, low : 0 .. 31])'
      BY <3>1
    <3>4. (doing \in [Callers -> {"idle", "read", "write",
                               "getint", "getdec", "got"}])'
      BY DEF Goto, Callers
    <3>5. (/\ window \in [Getters -> SUBSET Int]
           /\ crossed \in [Getters -> SUBSET {"int", "dec"}])'
      BY <3>2 DEF Observe
    <3>6. (mixed \in BOOLEAN /\ last \in Int /\ Accepts(kind, last))'
      OBVIOUS
    <3> QED BY <3>3, <3>4, <3>5, <3>6 DEF Observe
  <2>4. ASSUME NEW s \in Setters, SetFail(s) PROVE TypeInv'
    BY <2>4 DEF SetFail, Callers, registers, getterVars
  <2>5. ASSUME NEW g \in Getters, Get(g) PROVE TypeInv'
    <3>1. Reading \in Int
      BY SMT DEF Reading, Decode, OfByte
    <3> QED BY <2>5, <3>1 DEF Get, Goto, Callers, registers, setterVars
  <2>6. ASSUME NEW g \in Getters, ReadInt(g) PROVE TypeInv'
    BY <2>6 DEF ReadInt, Goto, Callers, registers, setterVars
  <2>7. ASSUME NEW g \in Getters, GetDec(g) PROVE TypeInv'
    <3>1. Decode(kind, gotInt[g], byteDec.steps) \in Int
      <4>1. gotInt[g] \in 0 .. 255
        BY DEF TypeInv
      <4>2. byteDec.steps \in 0 .. 7
        BY DEF TypeInv
      <4> QED BY <4>1, <4>2, SMT DEF Decode, OfByte
    <3> QED BY <2>7, <3>1 DEF GetDec, Goto, Callers, registers, setterVars
  <2>8. ASSUME NEW g \in Getters, GetReturn(g) PROVE TypeInv'
    BY <2>8 DEF GetReturn, Callers, registers, setterVars
  <2>9. CASE UNCHANGED thresholdVars
    BY <2>9 DEF thresholdVars, registers, setterVars, getterVars
  <2> QED BY <2>1, <2>2, <2>3, <2>4, <2>5, <2>6, <2>7, <2>8, <2>9 DEF ThresholdNext
<1> QED BY <1>1, <1>2, PTL DEF ThresholdSpec

(* Every byte stays a byte, in every reachable state. *)
THEOREM ThresholdTypes == ThresholdSpec => []ThresholdTypeOK
<1>1. TypeInv => ThresholdTypeOK
  BY DEF TypeInv
<1> QED BY <1>1, TypeInvariant, PTL

-----------------------------------------------------------------------------
(* The reserved bits in the register and in every setter's hands. *)
LowInv ==
  /\ byteDec.low = Low
  /\ \A s \in Setters : doing[s] = "write" => kept[s] = Low

(* The reserved bits of the decimal byte survive any overlap of sets: each *)
(* writes back the bits it read, and nobody ever writes others.            *)
THEOREM ReservedBitsSurvive == ThresholdSpec => []LowBitsKept
<1>1. ThresholdInit => LowInv
  BY DEF ThresholdInit, LowInv, Callers
<1>2. TypeInv /\ LowInv /\ [ThresholdNext]_thresholdVars => LowInv'
  <2> SUFFICES ASSUME TypeInv, LowInv, [ThresholdNext]_thresholdVars PROVE LowInv'
    OBVIOUS
  <2> USE DEF TypeInv, ThresholdTypeOK, LowInv
  <2>1. ASSUME NEW s \in Setters, NEW t \in Requests, WriteInt(s, t)
        PROVE  LowInv'
    BY <2>1 DEF WriteInt, Goto, Callers
  <2>2. ASSUME NEW s \in Setters, ReadDec(s) PROVE LowInv'
    BY <2>2 DEF ReadDec, Goto, Callers, registers
  <2>3. ASSUME NEW s \in Setters, WriteDec(s) PROVE LowInv'
    BY <2>3 DEF WriteDec, WriteDecWith, Goto, Callers
  <2>4. ASSUME NEW s \in Setters, SetFail(s) PROVE LowInv'
    BY <2>4 DEF SetFail, Callers, registers
  <2>5. ASSUME NEW g \in Getters, Get(g) \/ ReadInt(g) \/ GetDec(g) \/ GetReturn(g)
        PROVE  LowInv'
    BY <2>5, CallersAssumption
       DEF Get, ReadInt, GetDec, GetReturn, Goto, Callers, registers, setterVars
  <2>6. CASE UNCHANGED thresholdVars
    BY <2>6 DEF thresholdVars, registers, setterVars
  <2> QED BY <2>1, <2>2, <2>3, <2>4, <2>5, <2>6 DEF ThresholdNext
<1>3. LowInv => LowBitsKept
  BY DEF LowInv, LowBitsKept
<1> QED BY <1>1, <1>2, <1>3, TypeInvariant, PTL DEF ThresholdSpec

-----------------------------------------------------------------------------
(* A setter that has been alone since its first access is the only one at  *)
(* work and owns the integer byte; one that has not been leaves a mark.    *)
SetInv ==
  /\ \A s \in Setters :
       /\ doing[s] \in {"idle", "read", "write"}
       /\ doing[s] # "idle" /\ alone[s] =>
            /\ Busy = {s}
            /\ byteInt = ToByte(IntPart(wanted[s]))
       /\ doing[s] # "idle" /\ ~alone[s] => mixed
  /\ ThresholdIsLastSet

(* With no set under way the registers hold the last temperature that was  *)
(* set undisturbed, to 1/8 degree, until a set fails half way or two sets  *)
(* overlap; and the next undisturbed set restores that.                    *)
THEOREM LastSetIsKept == ThresholdSpec => []ThresholdIsLastSet
<1>1. ThresholdInit => SetInv
  <2> SUFFICES ASSUME ThresholdInit PROVE SetInv
    OBVIOUS
  <2>1. Decode(kind, ToByte(IntPart(Start)), Steps(Start)) = RoundedDown(Start)
    <3>0. kind \in Kinds
      BY DEF ThresholdInit
    <3>1. Steps(Start) \in 0 .. 7
      BY <3>0, RoundTrip, StartAssumption
    <3>2. Steps(Start) % 8 = Steps(Start)
      BY <3>1, SMT
    <3> QED BY <3>0, <3>2, RoundTrip, StartAssumption
  <2> QED BY <2>1 DEF ThresholdInit, SetInv, ThresholdIsLastSet, Reading, Callers
<1>2. TypeInv /\ SetInv /\ [ThresholdNext]_thresholdVars => SetInv'
  <2> SUFFICES ASSUME TypeInv, SetInv, [ThresholdNext]_thresholdVars PROVE SetInv'
    OBVIOUS
  <2> USE DEF TypeInv, ThresholdTypeOK, SetInv
  <2>1. ASSUME NEW s \in Setters, NEW t \in Requests, WriteInt(s, t)
        PROVE  SetInv'
    <3> USE <2>1 DEF WriteInt, Goto, Callers
    <3>1. doing[s] = "idle" /\ doing'[s] = "read" /\ s \in Busy'
          /\ \A q \in Setters \ {s} : doing'[q] = doing[q]
      BY DEF Busy
    <3>2. ASSUME NEW q \in Setters, (doing[q] # "idle" /\ alone[q])'
          PROVE  q = s /\ Busy = {}
      BY <3>1, <3>2
    <3>3. Busy = {} => Busy' = {s}
      BY <3>1 DEF Busy
    <3>4. ASSUME NEW q \in Setters, (doing[q] # "idle" /\ ~alone[q])'
          PROVE  mixed'
      BY <3>1, <3>4 DEF Busy
    <3>5. ThresholdIsLastSet'
      BY <3>1 DEF ThresholdIsLastSet
    <3> QED BY <3>1, <3>2, <3>3, <3>4, <3>5
  <2>2. ASSUME NEW s \in Setters, ReadDec(s) PROVE SetInv'
    <3>1. Busy' = Busy
      BY <2>2 DEF ReadDec, Goto, Callers, Busy
    <3> QED BY <2>2, <3>1 DEF ReadDec, Goto, Callers, registers, Reading,
                              ThresholdIsLastSet, Busy
  <2>3. ASSUME NEW s \in Setters, WriteDec(s) PROVE SetInv'
    <3> USE <2>3 DEF WriteDec, WriteDecWith, Goto, Callers
    <3>1. /\ doing[s] = "write" /\ doing'[s] = "idle"
          /\ \A q \in Setters \ {s} : doing'[q] = doing[q]
          /\ Busy' = Busy \ {s}
      BY DEF Busy
    <3>2. CASE alone[s]
      <4>1. Busy' = {} /\ byteInt = ToByte(IntPart(wanted[s]))
        BY <3>1, <3>2
      <4>2. Reading' = RoundedDown(wanted[s]) /\ last' = wanted[s]
        <5>1. Reading' = Decode(kind, byteInt, Steps(wanted[s]) % 8)
          BY DEF Reading
        <5>2. wanted[s] \in Int /\ Accepts(kind, wanted[s])
          BY DEF Accepted
        <5>3. Decode(kind, ToByte(IntPart(wanted[s])), Steps(wanted[s]) % 8)
                = RoundedDown(wanted[s])
          BY <5>2, RoundTrip
        <5> QED BY <5>1, <5>3, <4>1, <3>2
      <4>3. ThresholdIsLastSet'
        BY <4>2 DEF ThresholdIsLastSet
      <4>4. \A q \in Setters : doing'[q] = "idle"
        BY <4>1 DEF Busy
      <4> QED BY <4>3, <4>4
    <3>3. CASE ~alone[s]
      <4>1. mixed /\ mixed'
        BY <3>1, <3>3
      <4>2. ASSUME NEW q \in Setters, (doing[q] # "idle" /\ alone[q])'
            PROVE  FALSE
        <5>1. q # s /\ doing[q] # "idle" /\ alone[q]
          BY <3>1, <4>2
        <5>2. Busy = {q} /\ s \in Busy
          BY <5>1, <3>1 DEF Busy
        <5> QED BY <5>1, <5>2
      <4>3. ThresholdIsLastSet'
        BY <4>1 DEF ThresholdIsLastSet
      <4>4. \A q \in Setters : doing'[q] \in {"idle", "read", "write"}
        BY <3>1
      <4> QED BY <4>1, <4>2, <4>3, <4>4
    <3> QED BY <3>2, <3>3
  <2>4. ASSUME NEW s \in Setters, SetFail(s) PROVE SetInv'
    <3> USE <2>4 DEF SetFail, Callers
    <3>1. /\ doing[s] # "idle" /\ doing'[s] = "idle" /\ mixed'
          /\ \A q \in Setters \ {s} : doing'[q] = doing[q]
          /\ Busy' = Busy \ {s} /\ s \in Busy
      BY DEF Busy
    <3>2. ASSUME NEW q \in Setters, (doing[q] # "idle" /\ alone[q])'
          PROVE  FALSE
      <4>1. q # s /\ doing[q] # "idle" /\ alone[q]
        BY <3>1, <3>2
      <4> QED BY <4>1, <3>1
    <3>3. ThresholdIsLastSet'
      BY <3>1 DEF ThresholdIsLastSet
    <3> QED BY <3>1, <3>2, <3>3
  <2>5. ASSUME NEW g \in Getters, Get(g) \/ ReadInt(g) \/ GetDec(g) \/ GetReturn(g)
        PROVE  SetInv'
    <3>1. (\A s \in Setters : doing'[s] = doing[s]) /\ UNCHANGED <<registers, setterVars>>
      BY <2>5, CallersAssumption
         DEF Get, ReadInt, GetDec, GetReturn, Goto, Callers
    <3>2. Busy' = Busy
      BY <3>1 DEF Busy
    <3> QED BY <3>1, <3>2 DEF registers, setterVars, Reading, ThresholdIsLastSet
  <2>6. CASE UNCHANGED thresholdVars
    BY <2>6 DEF thresholdVars, registers, setterVars, Busy, Reading, ThresholdIsLastSet
  <2> QED BY <2>1, <2>2, <2>3, <2>4, <2>5, <2>6 DEF ThresholdNext
<1>3. SetInv => ThresholdIsLastSet
  BY DEF SetInv
<1> QED BY <1>1, <1>2, <1>3, TypeInvariant, PTL DEF ThresholdSpec

-----------------------------------------------------------------------------
(* What a getter between its two reads may still count on: the integer     *)
(* byte is the one it read until one is written, and together with the     *)
(* present decimal byte it makes a temperature of this get until both are. *)
GetInv ==
  \A g \in Getters :
    /\ doing[g] # "idle" => Reading \in window[g]
    /\ doing[g] = "getint" => crossed[g] = {}
    /\ doing[g] = "getdec" /\ "int" \notin crossed[g] => gotInt[g] = byteInt
    /\ doing[g] = "getdec" /\ crossed[g] # {"int", "dec"} =>
         Decode(kind, gotInt[g], byteDec.steps) \in window[g]
    /\ doing[g] = "got" /\ crossed[g] # {"int", "dec"} => gotten[g] \in window[g]

(* A get that overlaps any number of sets returns a temperature the pair   *)
(* held while it ran, unless both bytes were written between its reads.    *)
THEOREM GetsAreNotTorn == ThresholdSpec => []GetIsNotTorn
<1>1. ThresholdInit => GetInv
  BY DEF ThresholdInit, GetInv, Callers
<1>2. TypeInv /\ GetInv /\ [ThresholdNext]_thresholdVars => GetInv'
  <2> SUFFICES ASSUME TypeInv, GetInv, [ThresholdNext]_thresholdVars PROVE GetInv'
    OBVIOUS
  <2> USE DEF TypeInv, ThresholdTypeOK, GetInv
  <2>1. ASSUME NEW s \in Setters, NEW t \in Requests, WriteInt(s, t)
        PROVE  GetInv'
    <3>1. /\ \A g \in Getters : doing'[g] = doing[g]
          /\ Reading' = Decode(kind, ToByte(IntPart(t)), byteDec.steps)
      BY <2>1, CallersAssumption DEF WriteInt, Goto, Callers, Reading
    <3> SUFFICES ASSUME NEW g \in Getters PROVE GetInv!(g)'
      OBVIOUS
    <3>2. gotInt' = gotInt /\ gotten' = gotten /\ byteDec' = byteDec /\ kind' = kind
      BY <2>1 DEF WriteInt, Observe
    <3>3. window[g] \subseteq window'[g]
          /\ (doing[g] # "idle" => Reading' \in window'[g])
      BY <2>1, <3>1 DEF WriteInt, Observe
    <3>4. doing[g] = "getdec" => crossed'[g] = crossed[g] \cup {"int"}
      BY <2>1 DEF WriteInt, Observe
    <3>5. doing[g] # "getdec" => crossed'[g] = crossed[g]
      BY <2>1 DEF WriteInt, Observe
    <3> QED BY <3>1, <3>2, <3>3, <3>4, <3>5
  <2>2. ASSUME NEW s \in Setters, ReadDec(s) \/ SetFail(s) PROVE GetInv'
    <3>1. /\ \A g \in Getters : doing'[g] = doing[g]
          /\ UNCHANGED <<registers, getterVars>>
      BY <2>2, CallersAssumption DEF ReadDec, SetFail, Goto, Callers
    <3> QED BY <3>1 DEF registers, getterVars, Reading
  <2>3. ASSUME NEW s \in Setters, WriteDec(s) PROVE GetInv'
    <3> USE <2>3 DEF WriteDec, WriteDecWith
    <3>1. /\ \A g \in Getters : doing'[g] = doing[g]
          /\ Reading' = Decode(kind, byteInt, Steps(wanted[s]) % 8)
          /\ byteDec'.steps = Steps(wanted[s]) % 8
      BY CallersAssumption DEF Goto, Callers, Reading
    <3> SUFFICES ASSUME NEW g \in Getters PROVE GetInv!(g)'
      OBVIOUS
    <3>2. gotInt' = gotInt /\ gotten' = gotten /\ byteInt' = byteInt /\ kind' = kind
      BY DEF Observe
    <3>3. window[g] \subseteq window'[g]
          /\ (doing[g] # "idle" => Reading' \in window'[g])
      BY <3>1 DEF Observe
    <3>4. doing[g] = "getdec" => crossed'[g] = crossed[g] \cup {"dec"}
      BY DEF Observe
    <3>5. doing[g] # "getdec" => crossed'[g] = crossed[g]
      BY DEF Observe
    <3> QED BY <3>1, <3>2, <3>3, <3>4, <3>5
  <2>4. ASSUME NEW g \in Getters, Get(g) PROVE GetInv'
    BY <2>4 DEF Get, Goto, Callers, registers, Reading
  <2>5. ASSUME NEW g \in Getters, ReadInt(g) PROVE GetInv'
    BY <2>5 DEF ReadInt, Goto, Callers, registers, Reading
  <2>6. ASSUME NEW g \in Getters, GetDec(g) PROVE GetInv'
    BY <2>6 DEF GetDec, Goto, Callers, registers, Reading
  <2>7. ASSUME NEW g \in Getters, GetReturn(g) PROVE GetInv'
    BY <2>7 DEF GetReturn, Callers, registers, Reading
  <2>8. CASE UNCHANGED thresholdVars
    BY <2>8 DEF thresholdVars, registers, getterVars, Reading
  <2> QED BY <2>1, <2>2, <2>3, <2>4, <2>5, <2>6, <2>7, <2>8 DEF ThresholdNext
<1>3. GetInv => GetIsNotTorn
  BY DEF GetInv, GetIsNotTorn
<1> QED BY <1>1, <1>2, <1>3, TypeInvariant, PTL DEF ThresholdSpec
=============================================================================

------------------------- MODULE SharedCalls_proofs -------------------------
(***************************************************************************)
(* Four kinds of calls that share something with the calls of others: a    *)
(* global of the process (LinkBandwidth), the statistics of a socket       *)
(* (Statistics), the data fabric setting (ApbBoost) and the address the    *)
(* firmware accesses next (PcieConfig).  What each of them promises, for   *)
(* any number of callers.                                                  *)
(***************************************************************************)
EXTENDS LinkBandwidth, Statistics, ApbBoost, PcieConfig, TLAPS

-----------------------------------------------------------------------------
(* LinkBandwidth.                                                          *)

Places == {"idle", "family", "model", "test family", "test model", "send"}

LinkTypeOK ==
  /\ plat_info \in [family : Nat, model : Nat]
  /\ where \in [Threads -> Places]
  /\ asks \in [Threads -> Ask]
  /\ verdict \in [Threads -> {"none", "invalid_type", "invalid_link", "error", "success"}]
  /\ disturbed \subseteq Threads

(* What an undisturbed thread has stored in plat_info is still there, and  *)
(* what it found out from it is so.                                        *)
KeepsIts(t) ==
  /\ where[t] \in {"model", "test family"} => plat_info.family = Own(t).family
  /\ where[t] \in {"test family", "test model"} => plat_info.model = Own(t).model
  /\ where[t] = "test model" => Own(t).family = Family19h
  /\ where[t] = "send" => asks[t].link \in LinksOf(Own(t))

JudgesIts(t) ==
  /\ where[t] # "idle" => verdict[t] = "none"
  /\ t \notin disturbed =>
       /\ verdict[t] = "success" => asks[t].link \in LinksOf(Own(t))
       /\ verdict[t] = "invalid_link" => asks[t].link \notin LinksOf(Own(t))

LinkInv ==
  /\ LinkTypeOK
  /\ \A t \in Threads \ disturbed : KeepsIts(t)
  /\ \A t \in Threads : JudgesIts(t)

LEMMA OwnType ==
  ASSUME LinkTypeOK, NEW t \in Threads
  PROVE  Own(t) \in [family : Nat, model : Nat]
BY ProcessorAssumption DEF LinkTypeOK, Own, Ask

(* An action of one thread that leaves plat_info and the history alone     *)
(* concerns nobody else.                                                   *)
LEMMA OthersKeepTheirs ==
  ASSUME LinkInv, NEW t \in Threads, NEW u \in Threads, u # t,
         where'[u] = where[u], asks'[u] = asks[u], verdict'[u] = verdict[u],
         plat_info' = plat_info, u \in disturbed' <=> u \in disturbed
  PROVE  /\ u \notin disturbed' => KeepsIts(u)'
         /\ JudgesIts(u)'
BY DEF LinkInv, KeepsIts, JudgesIts, Own

(* The types, step by step. *)
LEMMA TypesStay ==
  ASSUME LinkTypeOK, LinkNext
  PROVE  LinkTypeOK'
<1> USE DEF LinkTypeOK, Places
<1>1. ASSUME NEW t \in Threads, NEW ask \in Ask, Call(t, ask) PROVE LinkTypeOK'
  BY <1>1 DEF Call, End, GoOn
<1>2. ASSUME NEW t \in Threads, StoreFamily(t) PROVE LinkTypeOK'
  BY <1>2, OwnType DEF StoreFamily, GoOn, Spoils, Awaiting
<1>3. ASSUME NEW t \in Threads, StoreModel(t) PROVE LinkTypeOK'
  BY <1>3, OwnType DEF StoreModel, GoOn, Spoils, Awaiting
<1>4. ASSUME NEW t \in Threads, TestFamily(t) PROVE LinkTypeOK'
  BY <1>4 DEF TestFamily, TestLink, End, GoOn
<1>5. ASSUME NEW t \in Threads, TestModel(t) PROVE LinkTypeOK'
  <2> DEFINE links == IF IsMi300Model(plat_info.model) THEN Mi300Links ELSE LegacyLinks
  <2>1. TestLink(t, links) /\ UNCHANGED <<plat_info, asks, disturbed>>
    BY <1>5 DEF TestModel
  <2> HIDE DEF links
  <2> QED BY <2>1 DEF TestLink, End, GoOn
<1>6. ASSUME NEW t \in Threads, Send(t) \/ NoAnswer(t) PROVE LinkTypeOK'
  BY <1>6 DEF Send, NoAnswer, End, GoOn
<1> QED BY <1>1, <1>2, <1>3, <1>4, <1>5, <1>6 DEF LinkNext

-----------------------------------------------------------------------------
LEMMA LinkInvariant == LinkSpec => []LinkInv
<1>1. LinkInit => LinkInv
  BY DEF LinkInit, LinkInv, LinkTypeOK, Places, KeepsIts, JudgesIts
<1>2. LinkInv /\ [LinkNext]_linkVars => LinkInv'
  <2> SUFFICES ASSUME LinkInv, [LinkNext]_linkVars PROVE LinkInv'
    OBVIOUS
  <2>0. LinkTypeOK
    BY DEF LinkInv
  <2>1. ASSUME NEW t \in Threads, NEW ask \in Ask, Call(t, ask) PROVE LinkInv'
    <3>0. LinkTypeOK'
      BY <2>0, <2>1, TypesStay DEF LinkNext
    <3>1. KeepsIts(t)' /\ JudgesIts(t)'
      BY <2>0, <2>1 DEF Call, End, GoOn, KeepsIts, JudgesIts, LinkTypeOK
    <3>2. ASSUME NEW u \in Threads, u # t
          PROVE  (u \notin disturbed' => KeepsIts(u)') /\ JudgesIts(u)'
      <4>1. /\ where'[u] = where[u] /\ asks'[u] = asks[u] /\ verdict'[u] = verdict[u]
            /\ plat_info' = plat_info /\ (u \in disturbed' <=> u \in disturbed)
        BY <2>0, <2>1, <3>2 DEF Call, End, GoOn, LinkTypeOK
      <4> QED BY <4>1, <3>2, OthersKeepTheirs
    <3> QED BY <3>0, <3>1, <3>2 DEF LinkInv
  <2>2. ASSUME NEW t \in Threads, StoreFamily(t) PROVE LinkInv'
    <3>0. LinkTypeOK'
      BY <2>0, <2>2, TypesStay DEF LinkNext
    <3>1. /\ plat_info'.family = Own(t).family /\ plat_info'.model = plat_info.model
          /\ where[t] = "family" /\ where' = [where EXCEPT ![t] = "model"]
          /\ asks' = asks /\ verdict' = verdict
          /\ disturbed' = disturbed \cup Spoils(t, "family")
      BY <2>0, <2>2 DEF StoreFamily, GoOn, LinkTypeOK
    <3>2. ASSUME NEW u \in Threads PROVE Own(u)' = Own(u)
      BY <3>1 DEF Own
    <3>3. ASSUME NEW u \in Threads PROVE JudgesIts(u)'
      BY <2>0, <3>1, <3>2 DEF LinkInv, JudgesIts, LinkTypeOK
    <3>4. ASSUME NEW u \in Threads \ disturbed' PROVE KeepsIts(u)'
      <4>1. CASE u = t
        BY <4>1, <2>0, <3>1, <3>2 DEF KeepsIts, LinkTypeOK
      <4>2. CASE u # t
        <5>1. where'[u] = where[u] /\ KeepsIts(u)
          BY <4>2, <2>0, <3>1 DEF LinkInv, LinkTypeOK
        <5>2. where[u] \in {"model", "test family"} => Own(u).family = Own(t).family
          BY <4>2, <3>1 DEF Spoils, Awaiting
        <5> QED BY <5>1, <5>2, <3>1, <3>2 DEF KeepsIts
      <4> QED BY <4>1, <4>2
    <3> QED BY <3>0, <3>3, <3>4 DEF LinkInv
  <2>3. ASSUME NEW t \in Threads, StoreModel(t) PROVE LinkInv'
    <3>0. LinkTypeOK'
      BY <2>0, <2>3, TypesStay DEF LinkNext
    <3>1. /\ plat_info'.model = Own(t).model /\ plat_info'.family = plat_info.family
          /\ where[t] = "model" /\ where' = [where EXCEPT ![t] = "test family"]
          /\ asks' = asks /\ verdict' = verdict
          /\ disturbed' = disturbed \cup Spoils(t, "model")
      BY <2>0, <2>3 DEF StoreModel, GoOn, LinkTypeOK
    <3>2. ASSUME NEW u \in Threads PROVE Own(u)' = Own(u)
      BY <3>1 DEF Own
    <3>3. ASSUME NEW u \in Threads PROVE JudgesIts(u)'
      BY <2>0, <3>1, <3>2 DEF LinkInv, JudgesIts, LinkTypeOK
    <3>4. ASSUME NEW u \in Threads \ disturbed' PROVE KeepsIts(u)'
      <4>0. KeepsIts(u)
        BY <3>1 DEF LinkInv
      <4>1. CASE u = t
        BY <4>0, <4>1, <2>0, <3>1, <3>2 DEF KeepsIts, LinkTypeOK
      <4>2. CASE u # t
        <5>1. where'[u] = where[u]
          BY <4>2, <2>0, <3>1 DEF LinkTypeOK
        <5>2. where[u] \in {"test family", "test model"} => Own(u).model = Own(t).model
          BY <4>2, <3>1 DEF Spoils, Awaiting
        <5> QED BY <4>0, <5>1, <5>2, <3>1, <3>2 DEF KeepsIts
      <4> QED BY <4>1, <4>2
    <3> QED BY <3>0, <3>3, <3>4 DEF LinkInv
  <2>4. ASSUME NEW t \in Threads, NEW links, TestLink(t, links),
               where[t] \in {"test family", "test model"},
               UNCHANGED <<plat_info, asks, disturbed>>, LinkTypeOK',
               t \notin disturbed => links = LinksOf(Own(t))
        PROVE  LinkInv'
    <3>1. (t \notin disturbed => KeepsIts(t)') /\ JudgesIts(t)'
      BY <2>0, <2>4 DEF TestLink, End, GoOn, KeepsIts, JudgesIts, LinkInv, LinkTypeOK, Own
    <3>2. ASSUME NEW u \in Threads, u # t
          PROVE  (u \notin disturbed' => KeepsIts(u)') /\ JudgesIts(u)'
      <4>1. /\ where'[u] = where[u] /\ asks'[u] = asks[u] /\ verdict'[u] = verdict[u]
            /\ plat_info' = plat_info /\ (u \in disturbed' <=> u \in disturbed)
        BY <2>0, <2>4, <3>2 DEF TestLink, End, GoOn, LinkTypeOK
      <4> QED BY <4>1, <3>2, OthersKeepTheirs
    <3> QED BY <2>4, <3>1, <3>2 DEF LinkInv
  <2>5. ASSUME NEW t \in Threads, TestFamily(t) PROVE LinkInv'
    <3>0. LinkTypeOK'
      BY <2>0, <2>5, TypesStay DEF LinkNext
    <3>1. CASE plat_info.family # Family19h /\ TestLink(t, LegacyLinks)
      <4>1. t \notin disturbed => LegacyLinks = LinksOf(Own(t))
        BY <2>5, <3>1 DEF TestFamily, LinkInv, KeepsIts, LinksOf
      <4> QED BY <2>4, <2>5, <3>0, <3>1, <4>1 DEF TestFamily
    <3>2. CASE plat_info.family = Family19h /\ GoOn(t, "test model") /\ UNCHANGED verdict
      <4>0. /\ where' = [where EXCEPT ![t] = "test model"] /\ where[t] = "test family"
            /\ UNCHANGED <<plat_info, asks, verdict, disturbed>>
        BY <2>5, <3>2 DEF TestFamily, GoOn
      <4>1. (t \notin disturbed => KeepsIts(t)') /\ JudgesIts(t)'
        BY <2>0, <3>2, <4>0 DEF KeepsIts, JudgesIts, LinkInv, LinkTypeOK, Own
      <4>2. ASSUME NEW u \in Threads, u # t
            PROVE  (u \notin disturbed' => KeepsIts(u)') /\ JudgesIts(u)'
        <5>1. where'[u] = where[u]
          BY <2>0, <4>0, <4>2 DEF LinkTypeOK
        <5> QED BY <5>1, <4>0, <4>2, OthersKeepTheirs
      <4> QED BY <3>0, <4>0, <4>1, <4>2 DEF LinkInv
    <3> QED BY <2>5, <3>1, <3>2 DEF TestFamily
  <2>6. ASSUME NEW t \in Threads, TestModel(t) PROVE LinkInv'
    <3> DEFINE links == IF IsMi300Model(plat_info.model) THEN Mi300Links ELSE LegacyLinks
    <3>0. LinkTypeOK'
      BY <2>0, <2>6, TypesStay DEF LinkNext
    <3>1. t \notin disturbed => links = LinksOf(Own(t))
      <4> SUFFICES ASSUME t \notin disturbed PROVE links = LinksOf(Own(t))
        OBVIOUS
      <4>1. plat_info.model = Own(t).model /\ Own(t).family = Family19h
        BY <2>6 DEF TestModel, LinkInv, KeepsIts
      <4>2. Own(t).model \in Nat
        BY <2>0, OwnType
      <4>3. IsMi300Model(Own(t).model) <=> Own(t).model \in 144 .. 159
        BY <4>2 DEF IsMi300Model
      <4> QED BY <4>1, <4>3 DEF LinksOf
    <3>2. TestLink(t, links) /\ where[t] = "test model" /\ UNCHANGED <<plat_info, asks, disturbed>>
      BY <2>6 DEF TestModel
    <3> HIDE DEF links
    <3> QED BY <2>4, <3>0, <3>1, <3>2
  <2>7. ASSUME NEW t \in Threads, Send(t) \/ NoAnswer(t) PROVE LinkInv'
    <3>0. LinkTypeOK'
      BY <2>0, <2>7, TypesStay DEF LinkNext
    <3>1. (t \notin disturbed => KeepsIts(t)') /\ JudgesIts(t)'
      BY <2>0, <2>7
         DEF Send, NoAnswer, End, GoOn, KeepsIts, JudgesIts, LinkInv, LinkTypeOK, Own
    <3>2. ASSUME NEW u \in Threads, u # t
          PROVE  (u \notin disturbed' => KeepsIts(u)') /\ JudgesIts(u)'
      <4>1. /\ where'[u] = where[u] /\ asks'[u] = asks[u] /\ verdict'[u] = verdict[u]
            /\ plat_info' = plat_info /\ (u \in disturbed' <=> u \in disturbed)
        BY <2>0, <2>7, <3>2 DEF Send, NoAnswer, End, GoOn, LinkTypeOK
      <4> QED BY <4>1, <3>2, OthersKeepTheirs
    <3>3. disturbed' = disturbed
      BY <2>7 DEF Send, NoAnswer
    <3> QED BY <3>0, <3>1, <3>2, <3>3 DEF LinkInv
  <2>8. CASE UNCHANGED linkVars
    BY <2>8 DEF LinkInv, LinkTypeOK, KeepsIts, JudgesIts, Own, linkVars
  <2> QED BY <2>1, <2>2, <2>3, <2>5, <2>6, <2>7, <2>8 DEF LinkNext
<1> QED BY <1>1, <1>2, PTL DEF LinkSpec

(* A link ID is sent to, and refused for, the processor of its own socket  *)
(* unless another call replaced plat_info by another processor's between   *)
(* the answer and the test (read_current_io_bandwidth,                     *)
(* read_current_xgmi_bandwidth), whatever threads and sockets there are.   *)
THEOREM LinksAreTheirOwn == LinkSpec => []LinkIsOfItsSocket
<1>1. LinkInv => LinkIsOfItsSocket
  BY DEF LinkInv, KeepsIts, JudgesIts, LinkIsOfItsSocket
<1> QED BY <1>1, LinkInvariant, PTL

-----------------------------------------------------------------------------
(* Statistics.                                                             *)
StatTypeOK ==
  /\ step \in [Callers -> {"idle", "freeze", "read"}]
  /\ status \in [Callers -> {"none", "success", "error"}]
  /\ param \in [Callers -> Int]
  /\ during \in [Callers -> SUBSET Int]
  /\ collected \in Int
  /\ frozen \in Int

(* Once a call's own freeze is done, what is frozen is of its time, whoever*)
(* froze or cleared since.                                                 *)
FrozenIsOfItsTime(c) ==
  /\ step[c] # "idle" => collected \in during[c] /\ status[c] = "none"
  /\ step[c] = "read" => frozen \in during[c]
  /\ status[c] = "success" => param[c] \in during[c]

StatInv == StatTypeOK /\ \A c \in Callers : FrozenIsOfItsTime(c)

(* The statistic changes: every call under way takes note. *)
LEMMA NoteTaken ==
  ASSUME StatInv, NEW n \in Int, Becomes(n), UNCHANGED <<step, param, status>>,
         frozen' \in {frozen, n}
  PROVE  StatInv'
<1>1. StatTypeOK'
  BY DEF StatInv, StatTypeOK, Becomes
<1>2. ASSUME NEW c \in Callers PROVE FrozenIsOfItsTime(c)'
  <2>1. during'[c] = IF step[c] = "idle" THEN during[c] ELSE during[c] \cup {n}
    BY DEF Becomes
  <2> QED BY <2>1 DEF StatInv, FrozenIsOfItsTime, Becomes
<1> QED BY <1>1, <1>2 DEF StatInv

LEMMA StatInvariant == StatSpec => []StatInv
<1>1. StatInit => StatInv
  BY CountAssumption DEF StatInit, StatInv, StatTypeOK, FrozenIsOfItsTime, Untouched
<1>2. StatInv /\ [StatNext]_statVars => StatInv'
  <2> SUFFICES ASSUME StatInv, [StatNext]_statVars PROVE StatInv'
    OBVIOUS
  <2> USE DEF StatInv, StatTypeOK
  <2>1. CASE Collect
    BY <2>1, NoteTaken DEF Collect
  <2>2. CASE Clear
    BY <2>2, NoteTaken DEF Clear
  <2>3. ASSUME NEW c \in Callers, GetStatistics(c) PROVE StatInv'
    BY <2>3 DEF GetStatistics, FrozenIsOfItsTime, Untouched
  <2>4. ASSUME NEW c \in Callers, Freeze(c) PROVE StatInv'
    BY <2>4 DEF Freeze, FreezeAs, FrozenIsOfItsTime, FreezeAck
  <2>5. ASSUME NEW c \in Callers, ReadStatistic(c) PROVE StatInv'
    BY <2>5 DEF ReadStatistic, FrozenIsOfItsTime
  <2>6. ASSUME NEW c \in Callers, StatFails(c) PROVE StatInv'
    BY <2>6 DEF StatFails, FrozenIsOfItsTime
  <2>7. CASE UNCHANGED statVars
    BY <2>7 DEF statVars, FrozenIsOfItsTime
  <2> QED BY <2>1, <2>2, <2>3, <2>4, <2>5, <2>6, <2>7 DEF StatNext
<1> QED BY <1>1, <1>2, PTL DEF StatSpec

(* What get_statistics returns was collected at some moment of its own     *)
(* call, never what an earlier call froze, however callers freeze, clear   *)
(* and fail in between.                                                    *)
THEOREM StatisticsAreOfTheirCall == StatSpec => []StatisticIsOfItsCall
<1>1. StatInv => StatisticIsOfItsCall
  BY DEF StatInv, FrozenIsOfItsTime, StatisticIsOfItsCall
<1> QED BY <1>1, StatInvariant, PTL

-----------------------------------------------------------------------------
(* ApbBoost, called by callers who clear their variable before each call.  *)
BoostTyped ==
  /\ prochot \in BOOLEAN
  /\ phase \in [Boosters -> {"idle", "check", "write"}]
  /\ asserted \in [Boosters -> BOOLEAN]
  /\ reply \in [Boosters -> {"none", "success", "error", "invalid_input"}]
  /\ seen \in [Boosters -> BOOLEAN]
  /\ wrote \subseteq Boosters

(* A call under way has neither written nor told yet, and has seen the     *)
(* PROCHOT that it may find.                                               *)
TellsTruth(c) ==
  /\ phase[c] # "idle" => c \notin wrote /\ asserted[c] = FALSE /\ reply[c] = "none"
  /\ phase[c] # "idle" /\ prochot => seen[c]
  /\ reply[c] = "success" => (c \in wrote <=> ~asserted[c])
  /\ reply[c] = "success" /\ asserted[c] => seen[c]

BoostInv == BoostTyped /\ \A c \in Boosters : TellsTruth(c)

LEMMA BoostInvariant ==
  ASSUME CallersClear = TRUE
  PROVE  BoostSpec => []BoostInv
<1>1. BoostInit => BoostInv
  BY DEF BoostInit, BoostInv, BoostTyped, TellsTruth
<1>2. BoostInv /\ [BoostNext]_boostVars => BoostInv'
  <2> SUFFICES ASSUME BoostInv, [BoostNext]_boostVars PROVE BoostInv'
    OBVIOUS
  <2> USE DEF BoostInv, BoostTyped, TellsTruth
  <2>1. CASE Toggle
    BY <2>1 DEF Toggle
  <2>2. ASSUME NEW c \in Boosters, NEW p, BeginBoost(c, p) PROVE BoostInv'
    BY <2>2 DEF BeginBoost
  <2>3. ASSUME NEW c \in Boosters, CheckProchot(c) PROVE BoostInv'
    <3>1. /\ phase[c] = "check" /\ UNCHANGED <<prochot, seen, wrote>>
          /\ \/ /\ prochot
                /\ asserted' = [asserted EXCEPT ![c] = TRUE]
                /\ phase' = [phase EXCEPT ![c] = "idle"]
                /\ reply' = [reply EXCEPT ![c] = "success"]
             \/ phase' = [phase EXCEPT ![c] = "write"] /\ UNCHANGED <<asserted, reply>>
      BY <2>3 DEF CheckProchot, CheckProchotFor, ReturnBoost
    <3>2. CASE /\ prochot
               /\ asserted' = [asserted EXCEPT ![c] = TRUE]
               /\ phase' = [phase EXCEPT ![c] = "idle"]
               /\ reply' = [reply EXCEPT ![c] = "success"]
      BY <3>1, <3>2
    <3>3. CASE phase' = [phase EXCEPT ![c] = "write"] /\ UNCHANGED <<asserted, reply>>
      BY <3>1, <3>3
    <3> HIDE DEF BoostInv, BoostTyped, TellsTruth
    <3> QED BY <3>1, <3>2, <3>3
  <2>4. ASSUME NEW c \in Boosters, WriteBoost(c) PROVE BoostInv'
    BY <2>4 DEF WriteBoost, SetBoost, ReturnBoost
  <2>5. ASSUME NEW c \in Boosters, FailBoost(c) PROVE BoostInv'
    BY <2>5 DEF FailBoost, SetBoost, ReturnBoost
  <2>6. CASE UNCHANGED boostVars
    BY <2>6 DEF boostVars
  <2> QED BY <2>1, <2>2, <2>3, <2>4, <2>5, <2>6 DEF BoostNext
<1> QED BY <1>1, <1>2, PTL DEF BoostSpec

(* write_apb_disable and write_apb_enable, when they succeed, changed the  *)
(* setting or told that PROCHOT was asserted, one of the two, whatever     *)
(* other clients and the hardware do.                                      *)
THEOREM BoostChangesOrTells ==
  ASSUME CallersClear = TRUE
  PROVE  BoostSpec => []ChangedOrTold
<1>1. BoostInv => ChangedOrTold
  BY DEF BoostInv, TellsTruth, ChangedOrTold
<1> QED BY <1>1, BoostInvariant, PTL

(* To callers who clear their variable, "asserted" is never old news: it   *)
(* was so during the call.                                                 *)
THEOREM AssertedIsNoOldNews ==
  ASSUME CallersClear = TRUE
  PROVE  BoostSpec => []AssertedWasSeen
<1>1. BoostInv => AssertedWasSeen
  BY DEF BoostInv, TellsTruth, AssertedWasSeen
<1> QED BY <1>1, BoostInvariant, PTL

-----------------------------------------------------------------------------
(* PcieConfig.                                                             *)

(* What is put into a word is taken out of it, for each size of field.     *)
Splits(m) ==
  \A f \in Field(m), q \in Nat :
    /\ Put(f, m, q) \in Nat
    /\ Lowest(Put(f, m, q), m) = f
    /\ Above(Put(f, m, q), m) = q

LEMMA FieldSizes == Splits(Func) /\ Splits(Device) /\ Splits(Bus) /\ Splits(Offset)
<1>1. Splits(Func)
  BY SMT DEF Splits, Put, Lowest, Above, Field, Func
<1>2. Splits(Device)
  BY SMT DEF Splits, Put, Lowest, Above, Field, Device
<1>3. Splits(Bus)
  BY SMT DEF Splits, Put, Lowest, Above, Field, Bus
<1>4. Splits(Offset)
  BY SMT DEF Splits, Put, Lowest, Above, Field, Offset
<1> QED BY <1>1, <1>2, <1>3, <1>4

(* The five fields of an address do not overlap in its word: the firmware  *)
(* takes apart what the caller put together.                               *)
LEMMA FieldsOfWord ==
  ASSUME NEW a \in Address
  PROVE  Word(a) \in Nat /\ Fields(Word(a)) = a
<1> DEFINE s == Put(a.offset, Offset, a.segment)
           b == Put(a.bus, Bus, s)
           d == Put(a.device, Device, b)
           w == Put(a.func, Func, d)
<1>1. /\ a.func \in Field(Func) /\ a.device \in Field(Device)
      /\ a.bus \in Field(Bus) /\ a.offset \in Field(Offset)
      /\ a.segment \in Nat
      /\ a = [func |-> a.func, device |-> a.device, bus |-> a.bus,
              offset |-> a.offset, segment |-> a.segment]
  BY SMT DEF Address, Field, Segment
<1>2. s \in Nat /\ Lowest(s, Offset) = a.offset /\ Above(s, Offset) = a.segment
  BY <1>1, FieldSizes DEF Splits
<1>3. b \in Nat /\ Lowest(b, Bus) = a.bus /\ Above(b, Bus) = s
  BY <1>1, <1>2, FieldSizes DEF Splits
<1>4. d \in Nat /\ Lowest(d, Device) = a.device /\ Above(d, Device) = b
  BY <1>1, <1>3, FieldSizes DEF Splits
<1>5. w \in Nat /\ Lowest(w, Func) = a.func /\ Above(w, Func) = d
  BY <1>1, <1>4, FieldSizes DEF Splits
<1>6. Word(a) = w
  BY DEF Word
<1>7. Fields(w) = [func |-> a.func, device |-> a.device, bus |-> a.bus,
                   offset |-> a.offset, segment |-> a.segment]
  BY <1>2, <1>3, <1>4, <1>5 DEF Fields
<1> QED BY <1>1, <1>5, <1>6, <1>7
-----------------------------------------------------------------------------
(* The target is the word of an accessible address, and for a client about *)
(* to write it is its own, unless another access came in between.          *)
TargetOK ==
  target = NoTarget \/ \E a \in Addresses \ Inaccessible : target = Word(a)

Holds(c) ==
  /\ pc[c] \in {"access", "write"} => addr[c] \notin Inaccessible
  /\ pc[c] = "write" => target # NoTarget
  /\ pc[c] = "write" /\ c \notin overtaken => target = Word(addr[c])

PcieInv ==
  /\ TypeOK
  /\ TargetOK
  /\ \A c \in Clients : Holds(c)
  /\ LandsUnlessOvertaken

LEMMA WordOfAddress ==
  ASSUME NEW a \in Addresses
  PROVE  Word(a) # NoTarget /\ Fields(Word(a)) = a
<1>1. a \in Address
  BY AddressAssumption
<1>2. Word(a) \in Nat /\ Fields(Word(a)) = a
  BY <1>1, FieldsOfWord
<1>3. \A n \in Nat : n # NoTarget
  BY DEF NoTarget
<1> QED BY <1>2, <1>3

(* An access moves the target to an address that is not refused, and from  *)
(* under nobody who would not notice.                                      *)
LEMMA Retarget ==
  ASSUME PcieInv, NEW c \in Clients, pc[c] = "access",
         pc' \in [Clients -> {"idle", "access", "write"}],
         \A d \in Clients \ {c} : pc'[d] = pc[d],
         target' = Word(addr[c]),
         overtaken' = (overtaken \ {c}) \cup Overtake(c),
         UNCHANGED <<config, addr, intended, strayed>>
  PROVE  /\ TargetOK'
         /\ Fields(target') \in Addresses
         /\ overtaken' \subseteq Clients
         /\ \A d \in Clients : Holds(d)'
         /\ LandsUnlessOvertaken'
<1>1. addr[c] \in Addresses \ Inaccessible
  BY DEF PcieInv, TypeOK, Holds
<1>2. Word(addr[c]) # NoTarget /\ Fields(Word(addr[c])) = addr[c]
  BY <1>1, WordOfAddress
<1>3. TargetOK'
  BY <1>1 DEF TargetOK, Inaccessible
<1>4. overtaken' \subseteq Clients
  BY DEF Overtake, PcieInv, TypeOK
<1>5. ASSUME NEW d \in Clients PROVE Holds(d)'
  <2>1. CASE d = c
    BY <1>1, <1>2, <2>1 DEF Holds, Inaccessible
  <2>2. CASE d # c
    <3>1. pc[d] = "write" /\ d \notin overtaken' => addr[d] = addr[c]
      BY <2>2 DEF Overtake
    <3>2. pc[d] \in {"access", "write"} => addr[d] \notin Inaccessible
      BY DEF PcieInv, Holds
    <3> QED BY <1>2, <2>2, <3>1, <3>2 DEF Holds, Inaccessible
  <2> QED BY <2>1, <2>2
<1>6. LandsUnlessOvertaken'
  BY DEF PcieInv, LandsUnlessOvertaken
<1> QED BY <1>1, <1>2, <1>3, <1>4, <1>5, <1>6

(* A store changes one address, which is not refused, and unless its       *)
(* client was overtaken it is the one intended.                            *)
LEMMA StoreLands ==
  ASSUME PcieInv, NEW c \in Clients, pc[c] = "write", Store(c)
  PROVE  /\ config' \in [Addresses -> Data]
         /\ intended' \in [Addresses -> Data]
         /\ strayed' \subseteq Addresses
         /\ \A a \in Inaccessible : config'[a] = config[a]
         /\ LandsUnlessOvertaken'
<1>1. PICK a \in Addresses \ Inaccessible : target = Word(a)
  BY DEF PcieInv, TargetOK, Holds
<1>2. Fields(target) = a
  BY <1>1, WordOfAddress
<1>3. /\ config \in [Addresses -> Data] /\ intended \in [Addresses -> Data]
      /\ addr[c] \in Addresses /\ data[c] \in Data /\ strayed \subseteq Addresses
  BY DEF PcieInv, TypeOK
<1>4. /\ config' = [config EXCEPT ![a] = data[c]]
      /\ intended' = [intended EXCEPT ![addr[c]] = data[c]]
      /\ strayed' = IF c \in overtaken THEN strayed \cup {addr[c], a} ELSE strayed
  BY <1>2 DEF Store
<1>5. LandsUnlessOvertaken'
  <2>1. c \notin overtaken => a = addr[c]
    <3> SUFFICES ASSUME c \notin overtaken PROVE a = addr[c]
      OBVIOUS
    <3>1. target = Word(addr[c])
      BY DEF PcieInv, Holds
    <3> QED BY <1>2, <1>3, <3>1, WordOfAddress
  <2> QED BY <1>3, <1>4, <2>1 DEF PcieInv, LandsUnlessOvertaken
<1> QED BY <1>1, <1>3, <1>4, <1>5 DEF Inaccessible

LEMMA PcieInvariant == Spec => []PcieInv
<1>1. Init => PcieInv
  BY DEF Init, PcieInv, TypeOK, TargetOK, Holds, LandsUnlessOvertaken
<1>2. PcieInv /\ [Next]_vars => PcieInv'
  <2> SUFFICES ASSUME PcieInv, [Next]_vars PROVE PcieInv'
    OBVIOUS
  <2>1. ASSUME NEW c \in Clients, NEW name \in {"read", "write"},
               NEW a \in Addresses, NEW d \in Data, Begin(c, name, a, d)
        PROVE  PcieInv'
    <3>1. TypeOK' /\ TargetOK' /\ LandsUnlessOvertaken'
      BY <2>1 DEF Begin, PcieInv, TypeOK, TargetOK, LandsUnlessOvertaken,
                  Inaccessible
    <3>2. ASSUME NEW e \in Clients PROVE Holds(e)'
      BY <2>1, <3>2 DEF Begin, PcieInv, TypeOK, Holds, Inaccessible, Refuses
    <3> QED BY <3>1, <3>2 DEF PcieInv
  <2>2. ASSUME NEW c \in Clients, Access(c) PROVE PcieInv'
    <3>1. /\ pc[c] = "access" /\ target' = Word(addr[c])
          /\ overtaken' = (overtaken \ {c}) \cup Overtake(c)
          /\ pc' \in [Clients -> {"idle", "access", "write"}]
          /\ \A d \in Clients \ {c} : pc'[d] = pc[d]
          /\ ret' \in [Clients -> {"none", "success", "error", "not_supported"}]
          /\ UNCHANGED <<config, op, addr, data, intended, strayed>>
      BY <2>2 DEF Access, AccessThen, PcieInv, TypeOK
    <3>2. /\ TargetOK' /\ Fields(target') \in Addresses
          /\ overtaken' \subseteq Clients
          /\ (\A d \in Clients : Holds(d)') /\ LandsUnlessOvertaken'
      BY <3>1, Retarget
    <3> QED BY <3>1, <3>2 DEF PcieInv, TypeOK
  <2>3. ASSUME NEW c \in Clients, AccessFails(c) PROVE PcieInv'
    <3>1. /\ pc[c] = "access" /\ pc'[c] = "idle"
          /\ pc' \in [Clients -> {"idle", "access", "write"}]
          /\ \A d \in Clients \ {c} : pc'[d] = pc[d]
          /\ ret' \in [Clients -> {"none", "success", "error", "not_supported"}]
          /\ UNCHANGED <<config, op, addr, data, intended, strayed>>
          /\ \/ UNCHANGED <<target, overtaken>>
             \/ /\ target' = Word(addr[c])
                /\ overtaken' = (overtaken \ {c}) \cup Overtake(c)
      BY <2>3 DEF AccessFails, AccessFailsThen, PcieInv, TypeOK
    <3>2. CASE UNCHANGED <<target, overtaken>>
      <4>1. \A d \in Clients : Holds(d)'
        BY <3>1, <3>2 DEF PcieInv, TypeOK, Holds, Inaccessible
      <4> QED BY <3>1, <3>2, <4>1
              DEF PcieInv, TypeOK, TargetOK, LandsUnlessOvertaken, Inaccessible
    <3>3. CASE /\ target' = Word(addr[c])
               /\ overtaken' = (overtaken \ {c}) \cup Overtake(c)
      <4>1. /\ TargetOK' /\ Fields(target') \in Addresses
            /\ overtaken' \subseteq Clients
            /\ (\A d \in Clients : Holds(d)') /\ LandsUnlessOvertaken'
        BY <3>1, <3>3, Retarget
      <4> QED BY <3>1, <4>1 DEF PcieInv, TypeOK
    <3> QED BY <3>1, <3>2, <3>3
  <2>4. ASSUME NEW c \in Clients, Write(c) \/ WriteFails(c) PROVE PcieInv'
    <3>1. /\ pc[c] = "write" /\ pc' = [pc EXCEPT ![c] = "idle"]
          /\ overtaken' = overtaken \ {c}
          /\ ret' \in [Clients -> {"none", "success", "error", "not_supported"}]
          /\ UNCHANGED <<target, op, addr, data>>
          /\ Store(c) \/ UNCHANGED <<config, intended, strayed>>
      BY <2>4 DEF Write, WriteFails, PcieInv, TypeOK
    <3>2. /\ config' \in [Addresses -> Data] /\ intended' \in [Addresses -> Data]
          /\ strayed' \subseteq Addresses /\ LandsUnlessOvertaken'
      <4>1. CASE Store(c)
        BY <3>1, <4>1, StoreLands
      <4>2. CASE UNCHANGED <<config, intended, strayed>>
        BY <4>2 DEF PcieInv, TypeOK, LandsUnlessOvertaken
      <4> QED BY <3>1, <4>1, <4>2
    <3>3. \A d \in Clients : Holds(d)'
      BY <3>1 DEF PcieInv, TypeOK, Holds, Inaccessible
    <3>4. TypeOK' /\ TargetOK'
      BY <3>1, <3>2 DEF PcieInv, TypeOK, TargetOK, Inaccessible
    <3> QED BY <3>2, <3>3, <3>4 DEF PcieInv
  <2>5. CASE UNCHANGED vars
    BY <2>5 DEF vars, PcieInv, TypeOK, TargetOK, Holds, LandsUnlessOvertaken,
                Inaccessible
  <2> QED BY <2>1, <2>2, <2>3, <2>4, <2>5 DEF Next
<1> QED BY <1>1, <1>2, PTL DEF Spec

(* The firmware takes every address apart as the call put it together: the *)
(* target it remembers is always one that some call asked for, whole.      *)
THEOREM PcieTypes == Spec => []TypeOK
<1>1. PcieInv => TypeOK
  BY DEF PcieInv
<1> QED BY <1>1, PcieInvariant, PTL

(* What write_bmc_pcie_config puts in the configuration space is at its    *)
(* own address, except where another access came between its two commands. *)
THEOREM WritesLandUnlessOvertaken == Spec => []LandsUnlessOvertaken
<1>1. PcieInv => LandsUnlessOvertaken
  BY DEF PcieInv
<1> QED BY <1>1, PcieInvariant, PTL

(* No interleaving of calls and no failing command changes a register of   *)
(* the devices that read_bmc_ras_pcie_config_access refuses.               *)
THEOREM HiddenStaysUntouched == Spec => HiddenUntouched
<1>1. PcieInv /\ [Next]_vars =>
        [\A a \in Inaccessible : config'[a] = config[a]]_vars
  <2> SUFFICES ASSUME PcieInv, Next
               PROVE  \A a \in Inaccessible : config'[a] = config[a]
    OBVIOUS
  <2>1. ASSUME NEW c \in Clients, Write(c) \/ WriteFails(c)
        PROVE  \A a \in Inaccessible : config'[a] = config[a]
    <3>1. CASE Store(c)
      BY <2>1, <3>1, StoreLands DEF Write, WriteFails
    <3>2. CASE UNCHANGED config
      BY <3>2
    <3> QED BY <2>1, <3>1, <3>2 DEF Write, WriteFails
  <2>2. CASE UNCHANGED config
    BY <2>2
  <2> QED BY <2>1, <2>2 DEF Next, Begin, Access, AccessFails, AccessFailsThen
<1> QED BY <1>1, PcieInvariant, PTL DEF Spec, HiddenUntouched
=============================================================================

------------------------- MODULE ApmlRecovery_proofs -------------------------
(***************************************************************************)
(* Proofs about ApmlRecovery for any number of clients and setters and any *)
(* retry limit: types, and what a request bit that is set or clear says.   *)
(***************************************************************************)
EXTENDS ApmlRecovery, TLAPS

LEMMA PeerType == \A d \in Device : Peer(d) \in Device /\ Peer(d) # d
  BY DEF Device, Peer

-----------------------------------------------------------------------------
LEMMA TypeInit == Init => TypeOK
  BY RetryAssumption
  DEF Init, TypeOK, Bits, ClientLocations, SetterLocations

(* The retry counter: never below -1, because the loop ends at 0.           *)
RetryInv ==
  \A c \in Clients :
    pc[c] \in {"probe", "read", "request", "poll"} => retry[c] >= 0

TInv == TypeOK /\ RetryInv

(* Every step of a call keeps the types. *)
LEMMA ClientTypeStep ==
  ASSUME TInv, NEW c \in Clients,
         ClientStep(c) \/ \E d \in Device : Begin(c, d)
  PROVE  TInv'
<1> USE DEF ClientLocations
<1>t. TypeOK /\ RetryInv /\ c \in Actors
  BY DEF TInv, Actors
<1>d. Peer(target[c]) \in Device
  BY <1>t, PeerType DEF TypeOK
<1>1. ASSUME NEW d \in Device, Begin(c, d) PROVE TInv'
  BY <1>1, <1>t, RetryAssumption
  DEF Begin, Goto, hardware, TInv, TypeOK, RetryInv, Actors
<1>2. CASE ProbePeer(c)
  BY <1>2, <1>t
  DEF ProbePeer, Goto, hardware, history, TInv, TypeOK, RetryInv, Actors
<1>3. CASE ReadRegister(c)
  BY <1>3, <1>t, <1>d
  DEF ReadRegister, Goto, hardware, history, TInv, TypeOK, RetryInv, Actors
<1>4. CASE RequestRecovery(c)
  <2>1. config' \in [Actors -> SUBSET Bits] /\ config'[c] \in SUBSET Bits
    BY <1>4, <1>t DEF RequestRecovery, TypeOK, Bits
  <2>2. reg' \in [Device -> SUBSET Bits]
    BY <2>1, <1>4, <1>t, <1>d DEF RequestRecovery, TypeOK
  <2>3. RetryInv'
    BY <1>4, <1>t DEF RequestRecovery, Goto, TypeOK, RetryInv, Actors
  <2> QED
    BY <1>4, <1>t, <2>1, <2>2, <2>3
    DEF RequestRecovery, Goto, TInv, TypeOK, Actors
<1>5. CASE Poll(c)
  BY <1>5, <1>t, <1>d, RetryAssumption
  DEF Poll, PollUntil, Goto, hardware, TInv, TypeOK, RetryInv, Actors
<1>6. ASSUME NEW status \in {"success", "error"}, Return(c, status)
      PROVE TInv'
  BY <1>6, <1>t
  DEF Return, hardware, history, TInv, TypeOK, RetryInv, Actors
<1> QED
  BY <1>1, <1>2, <1>3, <1>4, <1>5, <1>6 DEF ClientStep, VerifyTarget, Fail

(* Every step of a setter and of the hardware keeps them too. *)
LEMMA OtherTypeStep ==
  ASSUME TInv,
         \/ \E s \in Setters : SetterStep(s)
         \/ \E d \in Device : Hang(d) \/ Recover(d)
  PROVE  TInv'
<1>t. TypeOK /\ RetryInv
  BY DEF TInv
<1>1. ASSUME NEW s \in Setters, SetterStep(s) PROVE TInv'
  <2>s. s \in Actors /\ s \notin Clients
    BY ActorAssumption DEF Actors
  <2>1. CASE SetRead(s)
    <3>1. config' \in [Actors -> SUBSET Bits]
      BY <2>1, <2>s, <1>t DEF SetRead, TypeOK, Device
    <3>2. \A c \in Clients : pc'[c] = pc[c]
      BY <2>1, <2>s, <1>t DEF SetRead, Goto, TypeOK, Actors
    <3> QED
      BY <2>1, <3>1, <3>2, <1>t
      DEF SetRead, Goto, hardware, history, TInv, TypeOK, RetryInv,
          SetterLocations
  <2>2. ASSUME NEW flag \in Flags, NEW mode, Write(s, flag, mode) PROVE TInv'
    <3> DEFINE new == IF mode = 1 THEN config[s] \cup {flag}
                                  ELSE config[s] \ {flag}
    <3>1. new \in SUBSET Bits
      BY <2>s, <1>t DEF TypeOK, Bits
    <3>2. reg' \in [Device -> SUBSET Bits]
      BY <3>1, <2>2, <1>t DEF Write, TypeOK, Device
    <3>3. \A c \in Clients : pc'[c] = pc[c]
      BY <2>2, <2>s, <1>t DEF Write, Goto, TypeOK, Actors
    <3>4. /\ overwritten' \in [Clients -> BOOLEAN]
          /\ stale' \in [Device -> BOOLEAN]
          /\ config' \in [Actors -> SUBSET Bits]
      BY <2>2, <1>t DEF Write, TypeOK
    <3> QED
      BY <3>2, <3>3, <3>4, <2>2, <1>t
      DEF Write, Goto, TInv, TypeOK, RetryInv, SetterLocations
  <2>3. CASE SetFail(s)
    <3>1. \A c \in Clients : pc'[c] = pc[c]
      BY <2>3, <2>s, <1>t DEF SetFail, Goto, TypeOK, Actors
    <3> QED
      BY <2>3, <3>1, <1>t
      DEF SetFail, Goto, hardware, history, TInv, TypeOK, RetryInv,
          SetterLocations
  <2> QED
    BY <1>1, <2>1, <2>2, <2>3 DEF SetterStep, SetWrite
<1>2. ASSUME NEW d \in Device, Hang(d) PROVE TInv'
  BY <1>2, <1>t DEF Hang, history, TInv, TypeOK, RetryInv
<1>3. ASSUME NEW d \in Device, Recover(d) PROVE TInv'
  <2>1. Peer(d) \in Device
    BY PeerType
  <2> QED
    BY <2>1, <1>3, <1>t DEF Recover, TInv, TypeOK, RetryInv
<1> QED
  BY <1>1, <1>2, <1>3

LEMMA TypeStep == TInv /\ [Next]_vars => TInv'
<1>1. ASSUME TInv, UNCHANGED vars PROVE TInv'
  BY <1>1 DEF vars, hardware, history, TInv, TypeOK, RetryInv
<1> QED
  BY <1>1, ClientTypeStep, OtherTypeStep DEF Next

(* Every variable keeps its type; the retry counter never passes -1. *)
THEOREM TypeCorrect == Spec => []TypeOK
<1>1. Init => TInv
  BY TypeInit, RetryAssumption DEF Init, TInv, RetryInv
<1>2. TInv => TypeOK
  BY DEF TInv
<1> QED
  BY <1>1, <1>2, TypeStep, PTL DEF Spec

-----------------------------------------------------------------------------
(***************************************************************************)
(* The request bit.  While a client polls, its bit is set, or the hardware *)
(* has served it, or a setter has overwritten it; before it polls it has   *)
(* not seen the bit clear.                                                 *)
(***************************************************************************)
Excused(c) == target[c] = "sbrmi" /\ overwritten[c]

PollInv(c) ==
  pc[c] = "poll" =>
    "rec" \in reg[Peer(target[c])] \/ recovered[c] \/ Excused(c)

NotYetCleared(c) ==
  pc[c] \in {"probe", "read", "request"} => ~cleared[c]

ClearInv(c) == cleared[c] => recovered[c] \/ Excused(c)

OwnerInv(d) ==
  "rec" \in reg[Peer(d)] => owed[d] \/ (d = "sbrmi" /\ stale[d])

IInv ==
  /\ TInv
  /\ \A c \in Clients : PollInv(c) /\ NotYetCleared(c) /\ ClearInv(c)
  /\ \A d \in Device : OwnerInv(d)

LEMMA IInvInit == Init => IInv
<1> SUFFICES ASSUME Init PROVE IInv
  OBVIOUS
<1>1. TInv
  BY TypeInit, RetryAssumption DEF Init, TInv, RetryInv
<1>2. \A c \in Clients : c \in Actors
  BY DEF Actors
<1>3. \A c \in Clients : PollInv(c) /\ NotYetCleared(c) /\ ClearInv(c)
  BY <1>2 DEF Init, PollInv, NotYetCleared, ClearInv
<1>4. \A d \in Device : OwnerInv(d)
  BY PeerType, ActorAssumption DEF Init, OwnerInv
<1> QED
  BY <1>1, <1>3, <1>4 DEF IInv

LEMMA ClientStepInv ==
  ASSUME IInv, NEW b \in Clients,
         ClientStep(b) \/ \E d \in Device : Begin(b, d),
         NEW c \in Clients
  PROVE  PollInv(c)' /\ NotYetCleared(c)' /\ ClearInv(c)'
<1> USE DEF PollInv, NotYetCleared, ClearInv, Excused
<1>t. TypeOK /\ b \in Actors /\ c \in Actors
  BY DEF IInv, TInv, Actors
<1>i. PollInv(c) /\ NotYetCleared(c) /\ ClearInv(c)
  BY DEF IInv
<1>d. Peer(target[b]) \in Device /\ Peer(target[c]) \in Device
  BY <1>t, PeerType DEF TypeOK
<1>1. ASSUME NEW d \in Device, Begin(b, d)
      PROVE  PollInv(c)' /\ NotYetCleared(c)' /\ ClearInv(c)'
  BY <1>1, <1>t, <1>i DEF Begin, Goto, hardware, TypeOK
<1>2. CASE ProbePeer(b)
  BY <1>2, <1>t, <1>i DEF ProbePeer, Goto, hardware, history, TypeOK
<1>3. CASE ReadRegister(b)
  BY <1>3, <1>t, <1>i DEF ReadRegister, Goto, hardware, history, TypeOK
<1>4. CASE RequestRecovery(b)
  <2>1. "rec" \in config'[b] /\ reg' = [reg EXCEPT ![Peer(target[b])] = config'[b]]
    BY <1>4, <1>t DEF RequestRecovery, TypeOK
  <2>2. /\ "rec" \in reg'[Peer(target[b])]
        /\ "rec" \in reg[Peer(target[c])] => "rec" \in reg'[Peer(target[c])]
    BY <2>1, <1>d, <1>t DEF TypeOK
  <2> QED
    BY <2>2, <1>4, <1>t, <1>i DEF RequestRecovery, Goto, TypeOK
<1>5. CASE Poll(b)
  BY <1>5, <1>t, <1>i DEF Poll, PollUntil, Goto, hardware, TypeOK
<1>6. ASSUME NEW status, Return(b, status)
      PROVE  PollInv(c)' /\ NotYetCleared(c)' /\ ClearInv(c)'
  BY <1>6, <1>t, <1>i DEF Return, hardware, history, TypeOK
<1> QED
  BY <1>1, <1>2, <1>3, <1>4, <1>5, <1>6 DEF ClientStep, VerifyTarget, Fail

LEMMA OtherStepInv ==
  ASSUME IInv,
         \/ \E s \in Setters : SetterStep(s)
         \/ \E d \in Device : Hang(d) \/ Recover(d),
         NEW c \in Clients
  PROVE  PollInv(c)' /\ NotYetCleared(c)' /\ ClearInv(c)'
<1> USE DEF PollInv, NotYetCleared, ClearInv, Excused
<1>t. TypeOK /\ c \in Actors
  BY DEF IInv, TInv, Actors
<1>i. PollInv(c) /\ NotYetCleared(c) /\ ClearInv(c)
  BY DEF IInv
<1>1. ASSUME NEW s \in Setters, SetterStep(s)
      PROVE  PollInv(c)' /\ NotYetCleared(c)' /\ ClearInv(c)'
  <2>s. s \in Actors /\ s # c
    BY ActorAssumption DEF Actors
  <2>1. CASE SetRead(s) \/ SetFail(s)
    BY <2>1, <2>s, <1>t, <1>i
    DEF SetRead, SetFail, Goto, hardware, history, TypeOK
  <2>2. ASSUME NEW flag, NEW mode, Write(s, flag, mode)
        PROVE  PollInv(c)' /\ NotYetCleared(c)' /\ ClearInv(c)'
    <3>1. UNCHANGED <<target, cleared, recovered>> /\ pc'[c] = pc[c]
      BY <2>2, <2>s, <1>t DEF Write, Goto, TypeOK
    <3>2. overwritten[c] => overwritten'[c]
      BY <2>2, <1>t DEF Write, TypeOK
    <3>3. CASE target[c] = "sbrmi"
      <4>1. "rec" \in reg'["sbtsi"] \/ overwritten'[c]
        BY <2>2, <3>3, <1>t DEF Write, TypeOK, Device
      <4> QED
        BY <4>1, <3>1, <3>2, <3>3, <1>i DEF Peer
    <3>4. CASE target[c] # "sbrmi"
      <4>1. reg'["sbrmi"] = reg["sbrmi"] /\ target[c] = "sbtsi"
        BY <2>2, <3>4, <1>t DEF Write, TypeOK, Device
      <4> QED
        BY <4>1, <3>1, <1>i DEF Peer
    <3> QED
      BY <3>3, <3>4
  <2> QED
    BY <1>1, <2>1, <2>2 DEF SetterStep, SetWrite
<1>2. ASSUME NEW d \in Device, Hang(d)
      PROVE  PollInv(c)' /\ NotYetCleared(c)' /\ ClearInv(c)'
  BY <1>2, <1>i DEF Hang, history
<1>3. ASSUME NEW d \in Device, Recover(d)
      PROVE  PollInv(c)' /\ NotYetCleared(c)' /\ ClearInv(c)'
  <2>1. CASE target[c] = d
    BY <2>1, <1>3, <1>t, <1>i DEF Recover, TypeOK
  <2>2. CASE target[c] # d
    <3>1. Peer(target[c]) # Peer(d)
      BY <2>2, <1>t DEF TypeOK, Device, Peer
    <3> QED
      BY <3>1, <2>2, <1>3, <1>t, <1>i, PeerType DEF Recover, TypeOK
  <2> QED
    BY <2>1, <2>2
<1> QED
  BY <1>1, <1>2, <1>3

(* Who can set a request bit. *)
LEMMA OwnerStep ==
  ASSUME IInv, [Next]_vars, NEW d \in Device PROVE OwnerInv(d)'
<1>t. TypeOK /\ OwnerInv(d) /\ Peer(d) \in Device
  BY PeerType DEF IInv, TInv
<1>1. ASSUME NEW c \in Clients, RequestRecovery(c) PROVE OwnerInv(d)'
  <2>1. CASE target[c] = d
    BY <2>1, <1>1, <1>t DEF RequestRecovery, OwnerInv, TypeOK
  <2>2. CASE target[c] # d
    <3>1. Peer(target[c]) # Peer(d) /\ Peer(target[c]) \in Device
      BY <2>2, <1>t DEF TypeOK, Device, Peer
    <3> QED
      BY <3>1, <2>2, <1>1, <1>t DEF RequestRecovery, OwnerInv, TypeOK
  <2> QED
    BY <2>1, <2>2
<1>2. ASSUME NEW s \in Setters, NEW flag \in Flags, NEW mode,
             Write(s, flag, mode)
      PROVE  OwnerInv(d)'
  <2>1. CASE d = "sbrmi"
    <3>1. "rec" \in reg'["sbtsi"] => "rec" \in config[s]
      BY <1>2, <1>t, ActorAssumption DEF Write, TypeOK, Device
    <3>2. "rec" \in config[s] => stale'["sbrmi"]
      BY <1>2, <1>t DEF Write, TypeOK, Device
    <3> QED
      BY <3>1, <3>2, <2>1 DEF OwnerInv, Peer
  <2>2. CASE d # "sbrmi"
    BY <2>2, <1>2, <1>t DEF Write, OwnerInv, TypeOK, Device, Peer
  <2> QED
    BY <2>1, <2>2
<1>3. ASSUME NEW e \in Device, Recover(e) PROVE OwnerInv(d)'
  <2>1. CASE e = d
    BY <2>1, <1>3, <1>t DEF Recover, OwnerInv, TypeOK
  <2>2. CASE e # d
    BY <2>2, <1>3, <1>t DEF Recover, OwnerInv, TypeOK, Device, Peer
  <2> QED
    BY <2>1, <2>2
<1>4. CASE UNCHANGED <<reg, owed, stale>>
  BY <1>4, <1>t DEF OwnerInv
<1> QED
  BY <1>1, <1>2, <1>3, <1>4
  DEF Next, ClientStep, SetterStep, SetWrite, Hang, Begin, ProbePeer,
      ReadRegister, Poll, PollUntil, VerifyTarget, Fail, Return, SetRead,
      SetFail, vars, hardware, history

LEMMA IInvStep == IInv /\ [Next]_vars => IInv'
<1> SUFFICES ASSUME IInv, [Next]_vars PROVE IInv'
  OBVIOUS
<1>1. TInv'
  BY TypeStep DEF IInv
<1>2. \A d \in Device : OwnerInv(d)'
  BY OwnerStep
<1>3. ASSUME NEW c \in Clients
      PROVE  PollInv(c)' /\ NotYetCleared(c)' /\ ClearInv(c)'
  <2>1. CASE UNCHANGED vars
    BY <2>1
    DEF IInv, vars, hardware, history, PollInv, NotYetCleared, ClearInv,
        Excused
  <2> QED
    BY <2>1, ClientStepInv, OtherStepInv DEF Next
<1> QED
  BY <1>1, <1>2, <1>3 DEF IInv

(* A client that polls its request bit and finds it clear knows that the   *)
(* hardware recovered the device after its request, unless a setter wrote  *)
(* an older configuration over the bit - for any number of clients that    *)
(* recover both devices and setters that configure SBTSI meanwhile.        *)
THEOREM ClearedBitMeansRecovered == Spec => []ClearedMeansRecovered
<1>1. IInv => ClearedMeansRecovered
  BY DEF IInv, ClearInv, Excused, ClearedMeansRecovered
<1> QED
  BY <1>1, IInvInit, IInvStep, PTL DEF Spec

(* No recovery starts that no client asked for, except of SBRMI by a       *)
(* setter that wrote a request bit back.                                   *)
THEOREM RequestsAreOwned == Spec => []NoSpuriousRequest
<1>1. IInv => NoSpuriousRequest
  BY DEF IInv, OwnerInv, NoSpuriousRequest
<1> QED
  BY <1>1, IInvInit, IInvStep, PTL DEF Spec
=============================================================================

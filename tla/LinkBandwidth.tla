---------------------------- MODULE LinkBandwidth ----------------------------
(***************************************************************************)
(* The bandwidth of an IO or xGMI link (read_current_io_bandwidth and      *)
(* read_current_xgmi_bandwidth of esmi_mailbox.c).  Which link IDs there   *)
(* are depends on the processor: the call asks the socket for its family   *)
(* and model, leaves them in the global plat_info, and tests the link ID   *)
(* by what it reads there.  All threads of the process and all sockets     *)
(* share that one variable.                                                *)
(***************************************************************************)
EXTENDS Integers

CONSTANTS
  Threads,
  Sockets,
  Processor,   (* the family and model of each socket                      *)
  LinkIds      (* the link IDs callers ask about                           *)

Family19h == 25
LegacyLinks == {1, 2, 4, 8, 16, 32, 64, 128}
Mi300Links == {3, 4} \cup 8 .. 15

(* Mutant: the first model of the range is left out. *)
IsMi300ModelPast(m) == m > 144 /\ m <= 159

IsMi300Model(m) == m >= 144 /\ m <= 159

ASSUME ProcessorAssumption ==
  Processor \in [Sockets -> [family : Nat, model : Nat]]

VARIABLES
  plat_info,   (* the global                                               *)
  where,       (* where in its call each thread is                         *)
  asks,        (* the socket, link and type of its call                    *)
  verdict,     (* what came of the call                                    *)
  disturbed    (* history: threads whose plat_info another call replaced   *)
               (* by something else before they had tested it              *)

linkVars == <<plat_info, where, asks, verdict, disturbed>>

Ask == [socket : Sockets, link : LinkIds,
        bw_type : {"total", "read", "other"}, io : BOOLEAN]
Own(t) == Processor[asks[t].socket]

LinkInit ==
  /\ plat_info = [family |-> 0, model |-> 0]
  /\ where = [t \in Threads |-> "idle"]
  /\ asks \in [Threads -> Ask]
  /\ verdict = [t \in Threads |-> "none"]
  /\ disturbed = {}

GoOn(t, place) == where' = [where EXCEPT ![t] = place]
End(t, result) ==
  /\ GoOn(t, "idle")
  /\ verdict' = [verdict EXCEPT ![t] = result]

(* The IO bandwidth is known only as a total.                              *)
AcceptsType(ask) == IF ask.io THEN ask.bw_type = "total" ELSE ask.bw_type # "other"

Call(t, ask) ==
  /\ where[t] = "idle"
  /\ asks' = [asks EXCEPT ![t] = ask]
  /\ disturbed' = disturbed \ {t}
  /\ \/ ~AcceptsType(ask) /\ End(t, "invalid_type")
     \/ /\ AcceptsType(ask)
        /\ GoOn(t, "family")
        /\ verdict' = [verdict EXCEPT ![t] = "none"]
  /\ UNCHANGED plat_info

(* The socket does not answer: plat_info stays as it was.                  *)
NoAnswer(t) ==
  /\ where[t] \in {"family", "send"}
  /\ End(t, "error")
  /\ UNCHANGED <<plat_info, asks, disturbed>>

(* Whose test of a member a store spoils: those who have stored it and     *)
(* have not tested it yet.                                                 *)
Awaiting(field) ==
  {t \in Threads : where[t] \in IF field = "family"
                                THEN {"model", "test family"}
                                ELSE {"test family", "test model"}}
Spoils(t, field) ==
  {u \in Awaiting(field) \ {t} : Own(u)[field] # Own(t)[field]}

StoreFamily(t) ==
  /\ where[t] = "family"
  /\ plat_info' = [plat_info EXCEPT !.family = Own(t).family]
  /\ disturbed' = disturbed \cup Spoils(t, "family")
  /\ GoOn(t, "model")
  /\ UNCHANGED <<asks, verdict>>

StoreModel(t) ==
  /\ where[t] = "model"
  /\ plat_info' = [plat_info EXCEPT !.model = Own(t).model]
  /\ disturbed' = disturbed \cup Spoils(t, "model")
  /\ GoOn(t, "test family")
  /\ UNCHANGED <<asks, verdict>>

TestLink(t, links) ==
  \/ asks[t].link \in links /\ GoOn(t, "send") /\ UNCHANGED verdict
  \/ asks[t].link \notin links /\ End(t, "invalid_link")

TestFamily(t) ==
  /\ where[t] = "test family"
  /\ \/ plat_info.family = Family19h /\ GoOn(t, "test model") /\ UNCHANGED verdict
     \/ plat_info.family # Family19h /\ TestLink(t, LegacyLinks)
  /\ UNCHANGED <<plat_info, asks, disturbed>>

TestModel(t) ==
  /\ where[t] = "test model"
  /\ TestLink(t, IF IsMi300Model(plat_info.model) THEN Mi300Links ELSE LegacyLinks)
  /\ UNCHANGED <<plat_info, asks, disturbed>>

Send(t) ==
  /\ where[t] = "send"
  /\ End(t, "success")
  /\ UNCHANGED <<plat_info, asks, disturbed>>

LinkNext ==
  \E t \in Threads :
    \/ \E ask \in Ask : Call(t, ask)
    \/ StoreFamily(t) \/ StoreModel(t)
    \/ TestFamily(t) \/ TestModel(t)
    \/ Send(t) \/ NoAnswer(t)

LinkSpec == LinkInit /\ [][LinkNext]_linkVars

-----------------------------------------------------------------------------
(* The link IDs of a socket, as the header lists them by platform.         *)
LinksOf(p) ==
  IF p.family = Family19h /\ p.model \in 144 .. 159 THEN Mi300Links ELSE LegacyLinks

(* A link ID is sent to, and refused for, the processor of its own socket, *)
(* unless a call for a processor of another family or model replaced       *)
(* plat_info between the answer and the test.                              *)
LinkIsOfItsSocket ==
  \A t \in Threads \ disturbed :
    /\ where[t] = "send" \/ verdict[t] = "success" => asks[t].link \in LinksOf(Own(t))
    /\ verdict[t] = "invalid_link" => asks[t].link \notin LinksOf(Own(t))
=============================================================================

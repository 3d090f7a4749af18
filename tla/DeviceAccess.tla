---------------------------- MODULE DeviceAccess ----------------------------
(***************************************************************************)
(* What the callers of apml.c may rely on (esmi_oob_read_byte,             *)
(* esmi_oob_write_byte, esmi_oob_read_mailbox, esmi_oob_write_mailbox,     *)
(* sbrmi_xfer_msg), without device files, descriptors and errno: the       *)
(* device a call is for answers at most once, and the call tells success   *)
(* if and only if that device did what was asked.  Data comes with the     *)
(* success of a read, and with a refusal that the firmware explains.       *)
(***************************************************************************)
CONSTANTS
  Threads,
  Requests,    (* <<device, command>>                                      *)
  Reading,     (* the requests that read something                         *)
  Explained    (* the requests whose refusal can come with data            *)

VARIABLES
  asked,       (* what each thread's call asks for, or NoRequest           *)
  answer,      (* which device answered it and how, or NoAnswer            *)
  told,        (* what the caller has been told                            *)
  buffer       (* what the call left in the caller's buffer                *)

vars == <<asked, answer, told, buffer>>

NoRequest == << >>
NoAnswer == << >>

Init ==
  /\ asked = [t \in Threads |-> NoRequest]
  /\ answer = [t \in Threads |-> NoAnswer]
  /\ told = [t \in Threads |-> "nothing"]
  /\ buffer = [t \in Threads |-> "untouched"]

Ask(t) ==
  /\ asked[t] = NoRequest /\ told[t] = "nothing"
  /\ asked'[t] \in Requests
  /\ asked' = [asked EXCEPT ![t] = asked'[t]]
  /\ UNCHANGED <<answer, told, buffer>>

Answer(t) ==
  /\ asked[t] # NoRequest /\ answer[t] = NoAnswer
  /\ \E o \in {"done", "failed", "explained"} :
       /\ o = "explained" => asked[t] \in Explained
       /\ answer' = [answer EXCEPT ![t] = <<asked[t][1], o>>]
  /\ UNCHANGED <<asked, told, buffer>>

(* A call that did not reach its device has failed.                        *)
Outcome(t) == IF answer[t] = NoAnswer THEN "failed" ELSE answer[t][2]

Tell(t) ==
  /\ asked[t] # NoRequest
  /\ asked' = [asked EXCEPT ![t] = NoRequest]
  /\ answer' = [answer EXCEPT ![t] = NoAnswer]
  /\ told' = [told EXCEPT ![t] =
                IF Outcome(t) = "done" THEN "success" ELSE "failure"]
  /\ buffer' = [buffer EXCEPT ![t] =
                  CASE Outcome(t) = "done" /\ asked[t] \in Reading -> "answer"
                    [] Outcome(t) = "explained" -> "no_answer"
                    [] OTHER -> "untouched"]

Reject(t) ==
  /\ asked[t] = NoRequest /\ told[t] = "nothing"
  /\ told' = [told EXCEPT ![t] = "failure"]
  /\ UNCHANGED <<asked, answer, buffer>>

Leave(t) ==
  /\ told[t] # "nothing"
  /\ told' = [told EXCEPT ![t] = "nothing"]
  /\ buffer' = [buffer EXCEPT ![t] = "untouched"]
  /\ UNCHANGED <<asked, answer>>

Next == \E t \in Threads : Ask(t) \/ Answer(t) \/ Tell(t) \/ Reject(t) \/ Leave(t)

Spec == Init /\ [][Next]_vars
=============================================================================

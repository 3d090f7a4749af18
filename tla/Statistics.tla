----------------------------- MODULE Statistics -----------------------------
(***************************************************************************)
(* The statistics of an MI300 socket (get_statistics and clear_statistics  *)
(* of rmi_mailbox_mi300.c).  A get is two commands: QUERY_STATISTICS       *)
(* without input freezes what was collected, with an input it reads one    *)
(* statistic of what was frozen; both leave their answer in the caller's   *)
(* variable.  Clearing is one command, of any client, at any time.         *)
(***************************************************************************)
EXTENDS Integers

CONSTANTS
  Callers,
  MaxCount     (* bound on what is collected                               *)

ASSUME CountAssumption == MaxCount \in Nat

VARIABLES
  collected,   (* the statistic as it is collected                         *)
  frozen,      (* the statistic as it was frozen                           *)
  step,        (* each caller: idle, or the command it sends next          *)
  param,       (* its variable                                             *)
  status,      (* what its last call returned                              *)
  during       (* history: what the statistic was during its call          *)

statVars == <<collected, frozen, step, param, status, during>>

Untouched == -1
FreezeAck == -2          (* what a freeze answers                          *)

StatInit ==
  /\ collected = 0
  /\ frozen \in {0, MaxCount}
  /\ step = [c \in Callers |-> "idle"]
  /\ param = [c \in Callers |-> Untouched]
  /\ status = [c \in Callers |-> "none"]
  /\ during = [c \in Callers |-> {}]

(* The statistic becomes n, under the calls that are under way.            *)
Becomes(n) ==
  /\ collected' = n
  /\ during' = [c \in Callers |->
                  IF step[c] = "idle" THEN during[c] ELSE during[c] \cup {n}]

Collect ==
  /\ collected < MaxCount
  /\ Becomes(collected + 1)
  /\ UNCHANGED <<frozen, step, param, status>>

Clear ==
  /\ Becomes(0)
  /\ frozen' = 0
  /\ UNCHANGED <<step, param, status>>

GetStatistics(c) ==
  /\ step[c] = "idle"
  /\ step' = [step EXCEPT ![c] = "freeze"]
  /\ param' = [param EXCEPT ![c] = Untouched]
  /\ status' = [status EXCEPT ![c] = "none"]
  /\ during' = [during EXCEPT ![c] = {collected}]
  /\ UNCHANGED <<collected, frozen>>

FreezeAs(c, kept) ==
  /\ step[c] = "freeze"
  /\ frozen' = kept
  /\ step' = [step EXCEPT ![c] = "read"]
  /\ param' = [param EXCEPT ![c] = FreezeAck]
  /\ UNCHANGED <<collected, status, during>>

(* Mutant: the first command carries the input too, and freezes nothing. *)
FreezeNothing(c) == FreezeAs(c, frozen)

Freeze(c) == FreezeAs(c, collected)

ReadStatistic(c) ==
  /\ step[c] = "read"
  /\ step' = [step EXCEPT ![c] = "idle"]
  /\ param' = [param EXCEPT ![c] = frozen]
  /\ status' = [status EXCEPT ![c] = "success"]
  /\ UNCHANGED <<collected, frozen, during>>

(* Either command fails; a freeze that fails may have been done.           *)
StatFails(c) ==
  /\ step[c] # "idle"
  /\ step' = [step EXCEPT ![c] = "idle"]
  /\ status' = [status EXCEPT ![c] = "error"]
  /\ UNCHANGED frozen \/ (step[c] = "freeze" /\ frozen' = collected)
  /\ UNCHANGED <<collected, param, during>>

StatNext ==
  \/ Collect
  \/ Clear
  \/ \E c \in Callers :
       GetStatistics(c) \/ Freeze(c) \/ ReadStatistic(c) \/ StatFails(c)

StatSpec == StatInit /\ [][StatNext]_statVars

-----------------------------------------------------------------------------
(* A statistic that a call returns is what was collected at some moment of *)
(* that call, however other clients freeze and clear in between: never     *)
(* what an earlier call froze.                                             *)
StatisticIsOfItsCall ==
  \A c \in Callers : status[c] = "success" => param[c] \in during[c]
=============================================================================

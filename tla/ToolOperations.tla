--------------------------- MODULE ToolOperations ---------------------------
(***************************************************************************)
(* One command of apml_tool against a library whose calls may fail: the    *)
(* script of the command (ToolScripts) is run step by step, and the model  *)
(* follows which variables hold the answer of the call last made to fill   *)
(* them, and which are printed.                                            *)
(***************************************************************************)
EXTENDS ToolScripts

CONSTANT MaxFailures      \* bound on the library calls that fail in a run

ASSUME ToolFailuresAssumption == MaxFailures \in Nat

VARIABLES chip,      \* what the socket is
          platInfo,  \* what the global plat_info says it is; all zero: "v10"
          doing,     \* the command being run, or "none"
          variant,   \* which of its scripts its arguments select
          at,        \* the next step
          current,   \* its variables that hold the answer last asked for
          shown,     \* the variables the last step printed
          failed,    \* the last command, if a call ended it, or "none"
          failures   \* how many more calls may fail

opVars == <<chip, platInfo, doing, variant, at, current, shown, failed, failures>>

Steps   == Scripts[doing][variant]
Running == doing # "none" /\ at <= Len(Steps)
Now     == Steps[at]
Applies == chip \in Now.chips /\ platInfo \in Now.families

OperationTypeOK ==
  /\ chip \in Chips
  /\ platInfo \in {"v10", chip}
  /\ doing \in DOMAIN Scripts \cup {"none"}
  /\ doing # "none" => /\ variant \in DOMAIN Scripts[doing]
                       /\ at \in 1..Len(Steps) + 1
  /\ failed \in DOMAIN Scripts \cup {"none"}
  /\ failures \in 0..MaxFailures

OperationInit ==
  /\ chip \in Chips
  /\ platInfo = "v10"
  /\ doing = "none"
  /\ variant = 1
  /\ at = 1
  /\ current = {} /\ shown = {}
  /\ failed = "none"
  /\ failures \in 0..MaxFailures

StartOperation(o) ==
  /\ doing' = o
  /\ variant' \in DOMAIN Scripts[o]
  /\ at' = 1
  /\ current' = {} /\ shown' = {}
  /\ failed' = "none"
  /\ UNCHANGED <<chip, platInfo, failures>>

(* A step that is not for this socket. *)
PassOver ==
  /\ Running /\ ~Applies
  /\ at' = at + 1
  /\ shown' = {}
  /\ UNCHANGED <<chip, platInfo, doing, variant, current, failed, failures>>

CallSucceeds ==
  /\ Running /\ Applies
  /\ at' = at + 1
  /\ current' = current \cup Now.fills
  /\ shown' = Now.shows
  /\ platInfo' = IF Now.call = "get_platform_info" THEN chip ELSE platInfo
  /\ UNCHANGED <<chip, doing, variant, failed, failures>>

(* read_sbrmi_thread_cs drops the status of its access: its caller is told  *)
(* that a read that failed succeeded, and masks and prints what was there.  *)
CallFailsSilently ==
  /\ Running /\ Applies /\ Now.call = "read_sbrmi_thread_cs"
  /\ failures > 0
  /\ failures' = failures - 1
  /\ at' = at + 1
  /\ current' = current \ Now.fills
  /\ shown' = Now.shows
  /\ UNCHANGED <<chip, platInfo, doing, variant, failed>>

(* The validity check may fail and yet give a word about the failure, which *)
(* is then what its command prints.                                         *)
Explained == {"add_err_data"}

CallFailsWithData ==
  /\ Running /\ Applies /\ Now.call = ValidityCheck
  /\ failures > 0
  /\ failures' = failures - 1
  /\ at' = at + 1
  /\ current' = (current \ Now.fills) \cup Explained
  /\ shown' = Explained
  /\ UNCHANGED <<chip, platInfo, doing, variant, failed>>

CallFails ==
  /\ Running /\ Applies /\ Now.call \notin {"none", "read_sbrmi_thread_cs"}
  /\ failures > 0
  /\ failures' = failures - 1
  /\ current' = current \ Now.fills
  /\ shown' = {}
  /\ IF Now.fail = "stop"
     THEN doing' = "none" /\ failed' = doing /\ UNCHANGED at
     ELSE at' = at + 1 /\ UNCHANGED <<doing, failed>>
  /\ UNCHANGED <<chip, platInfo, variant>>

OperationEnds ==
  /\ doing # "none" /\ at > Len(Steps)
  /\ doing' = "none"
  /\ shown' = {}
  /\ UNCHANGED <<chip, platInfo, variant, at, current, failed, failures>>

OperationStep == \/ PassOver \/ CallSucceeds \/ CallFailsSilently
                 \/ CallFailsWithData \/ CallFails \/ OperationEnds

(***************************************************************************)
(* Commands that print a variable without its answer, and the reason: the  *)
(* throttle that could not be read back, a call that hides its failure.    *)
(***************************************************************************)
Careless == {"set_and_verify_dramthrottle", "showrmiregisters"}

(* Every other command prints a value only when it holds what the last call *)
(* made to read it returned: not the value of an earlier call into the same *)
(* variable, and nothing left unassigned (hazard: partial failure).         *)
ShownWasRead ==
  doing \notin Careless => shown \subseteq current
=============================================================================

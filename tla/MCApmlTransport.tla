-------------------------- MODULE MCApmlTransport --------------------------
(***************************************************************************)
(* The two ways to look at a call: its way through the descriptors and the *)
(* driver (ApmlTransport), and the calls that need several such calls      *)
(* (SocketThreads); "view" keeps the other one still.                      *)
(*                                                                         *)
(* Transport: two threads and as many descriptors, which the rest of the   *)
(* process can take; the files of SB-RMI come and go, SB-TSI has the one   *)
(* of its driver, new or old; errors with a status of their own and        *)
(* without one; refusals with and without additional data.  Threads of a   *)
(* socket: every revision that the code tells apart and one that it does   *)
(* not, with counts on both sides of the 8-bit boundary and of 128.        *)
(***************************************************************************)
EXTENDS ApmlTransport, SocketThreads, TLC

VARIABLE view

MCInit ==
  /\ Init /\ SocketInit
  /\ \/ /\ view = "transport"
        /\ platform.rev = 49 /\ threads = 1
        /\ names["sbtsi"] \in {{"new"}, {"legacy"}}
     \/ view = "threads" /\ names = [d \in Device |-> Name]

MCNext ==
  /\ \/ view = "transport" /\ Next /\ UNCHANGED socketVars
        /\ names'["sbtsi"] = names["sbtsi"]
     \/ view = "threads" /\ SocketNext /\ UNCHANGED vars
  /\ UNCHANGED view

MCSpec == MCInit /\ [][MCNext]_<<vars, socketVars, view>>

Same == Permutations(Threads)

MCErrnos == {5, 110}
WithEmsgsize == MCErrnos \cup {90}
MCFwCodes == {1, 5}

MCPlatforms ==
  {[rev |-> 16, dense |-> FALSE], [rev |-> 32, dense |-> FALSE],
   [rev |-> 33, dense |-> FALSE], [rev |-> 33, dense |-> TRUE],
   [rev |-> 49, dense |-> FALSE]}

MCCounts == {1, 64, 128, 255, 256, 257, 384}

MCAsks ==
  [thread : {0, 1, 127, 128, 256, 384}, fn : {"0", "b"}, sub : {0, 15, 16}]
=============================================================================

--------------------------- MODULE MCApmlRecovery ---------------------------
(***************************************************************************)
(* One client that recovers either device, one that recovers SBRMI, and    *)
(* one setter, any two of which are inside a call at the same time; both   *)
(* devices hang at once only while the setter is idle.                     *)
(***************************************************************************)
EXTENDS ApmlRecovery, FiniteSets

CONSTANTS c1, c2

Bounds ==
  /\ Cardinality({a \in Actors : pc[a] # "idle"}) <= 2
  /\ hung = Device => \A s \in Setters : pc[s] = "idle"
  /\ c2 \in Clients => target[c2] = "sbrmi"

MCInit == Init /\ Bounds
MCNext == Next /\ Bounds'

MCSpec == MCInit /\ [][MCNext]_vars
MCFairSpec == MCSpec /\ Fairness
=============================================================================

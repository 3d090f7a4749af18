----------------------------- MODULE TableLookup -----------------------------
(***************************************************************************)
(* A table written in several parts, each a record or a function.          *)
(***************************************************************************)

Entries(parts) == UNION {DOMAIN parts[i] : i \in DOMAIN parts}

(* The part that has the entry says what it is; no two parts share one.    *)
Joined(parts) ==
  [x \in Entries(parts) |-> parts[CHOOSE i \in DOMAIN parts : x \in DOMAIN parts[i]][x]]
=============================================================================

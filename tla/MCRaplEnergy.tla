---------------------------- MODULE MCRaplEnergy ----------------------------
(***************************************************************************)
(* Small instances of RaplEnergy, with words of two values, so that every  *)
(* second count carries: two threads on one counter, and two threads on    *)
(* the package counters of two sockets with different energy units.        *)
(***************************************************************************)
EXTENDS RaplEnergy

CONSTANTS t1, t2, s0, s1

TwoReaders == {t1, t2}
MCSockets == {s0, s1}
OneCounter == {<<"pkg", s0>>}
TwoCounters == {<<"pkg", s0>>, <<"pkg", s1>>}
MCSocketOf == [c \in Counters |-> c[2]]
MCEsus == {15, 16}
OneUnit == [s \in MCSockets |-> 16]
TwoUnits == [s \in MCSockets |-> IF s = s0 THEN 15 ELSE 16]
=============================================================================

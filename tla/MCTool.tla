------------------------------- MODULE MCTool -------------------------------
(***************************************************************************)
(* Command lines for ToolCommandLine: socket 1, one option of either table *)
(* with its arguments (too few, enough, one too many; all small numbers,   *)
(* or one of them any other kind of word), and what follows.  Every socket,*)
(* module and failing call is combined with the lines of one well-formed   *)
(* command; the other lines are about the words, and no call fails.        *)
(***************************************************************************)
EXTENDS ToolCommandLine

CONSTANT Tails        \* the words that follow the first option

Arity(o) == IF o \in MainOptions THEN Len(MainReads[o]) ELSE Len(MiReads[o])

Plain(n) == [i \in 1..n |-> "dec"]
ArgumentLists(o) ==
  {Plain(n) : n \in 0..Arity(o) + 1}
  \cup {[Plain(Arity(o)) EXCEPT ![i] = k] : i \in 1..Arity(o), k \in Kinds}

OneCommand == {<< >>, <<"dec">>} \cup {<<"dec", o>> \o Plain(Arity(o)) : o \in Names}

(* Every option with every list of arguments, alone and before each tail.   *)
OneOption ==
  UNION {{<<"dec", o>> \o args : args \in ArgumentLists(o)} : o \in Names}
TwoOptions == {s \o t : s \in OneOption, t \in Tails}

(* An option where its first argument should be, or where a temperature     *)
(* should be, and the short forms.                                          *)
Oddities ==
  {<<"word">>, <<"help", "word">>, <<"help">>,
   <<"dec", "setdimmthermalsensor", "dec", "showpower", "dec">>}
  \cup {<<"dec", o, "showpower">> : o \in MainValued \cup MiValued}
  \cup {<<"dec", s, k>> : s \in DOMAIN ShortForms, k \in {"dec", "word"}}

MCLines == OneCommand \cup OneOption \cup TwoOptions \cup Oddities

MCInit ==
  /\ Init
  /\ argv \notin OneCommand =>
       chip = "v20" /\ failures = 0 /\ (modules = {"sbrmi", "sbtsi"} \/ Len(argv) = 2)
MCSpec == MCInit /\ [][Next]_vars /\ WF_vars(Next)

AllTails ==
  {<<"showtdp">>, <<"showhbmthrottle">>, <<"setmaxpstate", "word">>,
   <<"showpower", "showhbmthrottle">>, <<"showhbmthrottle", "showtdp">>,
   <<"minus">>, <<"showdependency">>}
LoopTails == {<<"setmaxpstate", "word", "showpsn", "dec">>}
NoTails == {}
=============================================================================

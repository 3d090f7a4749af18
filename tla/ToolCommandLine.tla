--------------------------- MODULE ToolCommandLine ---------------------------
(***************************************************************************)
(* apml_tool from main to its end for one command line: parseesb_args goes *)
(* through the words with getopt_long, checks the arguments of each option *)
(* and performs it; an option it does not know sends it to the second      *)
(* parser, parseesb_mi300_args, which starts again at the second word with *)
(* a table of its own.  getopt's place in the line (optind) is one global  *)
(* for both, and the second parser's flag is a static that keeps the last  *)
(* option it found.                                                        *)
(***************************************************************************)
EXTENDS ToolOptions, ToolOperations

CONSTANTS Lines       \* the command lines, without the program's name

ASSUME ToolLinesAssumption == Lines \subseteq Seq(Tokens)

VARIABLES argv,       \* the words after the program's name
          modules,    \* the kernel modules that are loaded
          pc,         \* where the tool is
          optind,     \* getopt's next word
          miFlag,     \* the option mi300_tool.c's flag names, or "none"
          performed,  \* the commands performed so far
          told        \* whether the tool has complained about the line

lineVars == <<argv, modules, pc, optind, miFlag, performed, told>>
vars     == <<opVars, lineVars>>

(* A command performed: the word that caused it, the words it used up, and  *)
(* whether every argument arrived as the number on the line.                *)
Performed == [command : Names, at : Nat, used : Nat, sound : BOOLEAN]

TypeOK ==
  /\ OperationTypeOK
  /\ argv \in Seq(Tokens)
  /\ modules \subseteq {"sbrmi", "sbtsi"}
  /\ pc \in {"start", "main", "mi300", "mainCommand", "mi300Command",
             "summary", "registers", "lastCommand", "end"}
  /\ optind \in 1..Len(argv) + 1
  /\ miFlag \in MiOptions \cup {"none"}
  /\ performed \subseteq Performed
  /\ told \in BOOLEAN

Init == /\ OperationInit
        /\ argv \in Lines
        /\ modules \in SUBSET {"sbrmi", "sbtsi"}
        /\ pc = "start"
        /\ optind = 1
        /\ miFlag = "none"
        /\ performed = {}
        /\ told = FALSE

(***************************************************************************)
(* getopt_long at word i, with a table of plain and valued options: the    *)
(* option, and the word it goes on with.  "?" stands for a word that is no *)
(* option, with optopt the offending character of a short one or 0.        *)
(***************************************************************************)
Meant(word, options, longer, shorts) ==
  CASE word \in options       -> word
    [] word \in DOMAIN shorts -> shorts[word]
    [] word \in DOMAIN longer -> longer[word]
    [] OTHER                  -> "?"

GetOpt(i, options, valued, longer, shorts) ==
  IF i > Len(argv) \/ ~Dashed(argv[i])
  THEN [opt |-> "end", next |-> i, optopt |-> FALSE]
  ELSE LET o == Meant(argv[i], options, longer, shorts)
       IN CASE o = "?" ->
                 [opt |-> "?", next |-> i + 1, optopt |-> argv[i] \notin Names]
            [] o # "?" /\ o \notin valued ->
                 [opt |-> o, next |-> i + 1, optopt |-> FALSE]
            [] o \in valued /\ i = Len(argv) ->
                 [opt |-> ":", next |-> i + 1, optopt |-> TRUE]
            [] o \in valued /\ i < Len(argv) ->
                 [opt |-> o, next |-> i + 2, optopt |-> FALSE]

MainOpt == GetOpt(optind, MainOptions, MainValued, MainLonger, ShortForms)
MiOpt   == GetOpt(optind, MiOptions, MiValued, MiLonger, [w \in {} |-> "none"])

(* argv[optind - 1] and the words after it, once getopt has gone on.        *)
Arguments(g) == SubSeq(argv, g.next - 1, Len(argv))

(***************************************************************************)
(* Steps.                                                                  *)
(***************************************************************************)
Stop(says) == /\ pc' = "end"
              /\ told' = (told \/ says)
              /\ UNCHANGED <<opVars, argv, modules, optind, miFlag, performed>>

Complain(next, where) ==
  /\ told' = TRUE
  /\ optind' = next
  /\ pc' = where
  /\ UNCHANGED <<opVars, argv, modules, miFlag, performed>>

(* The command o, caused by the word at optind; the case of its option      *)
(* reads the words from argv[g.next - 1] on and moves optind past them.     *)
Perform(o, g, reads, where) ==
  LET extra == IF Len(reads) > 1 THEN Len(reads) - 1 ELSE 0
      args  == Arguments(g)
      sound == \A i \in 1..Len(reads) :
                 i <= Len(args) /\ (args[i] \in Kinds \/ reads[i].how = "text")
                   /\ (args[i] \in Kinds => Converts(reads[i], args[i]))
  IN /\ performed' = performed \cup
          {[command |-> o, at |-> optind, used |-> g.next + extra - optind,
            sound |-> sound]}
     /\ optind' = g.next + extra
     /\ pc' = where
     /\ StartOperation(o)
     /\ UNCHANGED <<argv, modules, told>>

(* The words before the options: no socket number, a request for help, the  *)
(* modules' state alone, or the whole summary of a socket.                  *)
Refused ==
  /\ pc = "start"
  /\ \/ argv = << >>
     \/ Len(argv) >= 2 /\ argv[2] = "showdependency"
     \/ argv # << >> /\ (argv[1] \notin Kinds \/ Wrong("10", argv[1]))
  /\ Stop(TRUE)

Begin ==
  /\ pc = "start"
  /\ argv # << >> /\ argv[1] \in Kinds /\ ~Wrong("10", argv[1])
  /\ Len(argv) >= 2 => argv[2] # "showdependency"
  /\ optind' = 2
  /\ pc' = IF Len(argv) = 1 THEN "summary" ELSE "main"
  /\ UNCHANGED <<opVars, argv, modules, miFlag, performed, told>>

(* show_smi_parameters: the mailbox summary, then the SB-TSI registers      *)
(* whatever became of it.                                                   *)
Summary ==
  /\ pc = "summary"
  /\ IF "sbrmi" \notin modules THEN Stop(TRUE)
     ELSE /\ StartOperation("showmailboxsummary")
          /\ pc' = "registers"
          /\ UNCHANGED <<argv, modules, optind, miFlag, performed, told>>

Registers ==
  /\ pc = "registers" /\ doing = "none"
  /\ IF "sbtsi" \notin modules THEN Stop(TRUE)
     ELSE /\ StartOperation("showtsiregisters")
          /\ pc' = "lastCommand"
          /\ UNCHANGED <<argv, modules, optind, miFlag, performed, told>>

(* Which modules an option wants: an option getopt does not know wants none *)
(* (the second parser does not ask either).                                 *)
Wanted(opt) == CASE opt \in TsiOptions -> {"sbtsi"}
                 [] opt = "apml_recovery" -> {"sbrmi", "sbtsi"}
                 [] opt = "?" -> {}
                 [] OTHER -> {"sbrmi"}

(* Mutant: no look at what is left of the line. *)
MainDoneSilent ==
  /\ pc = "main" /\ MainOpt.opt = "end"
  /\ Stop(FALSE)

MainDone ==
  /\ pc = "main" /\ MainOpt.opt = "end"
  /\ Stop(optind <= Len(argv))

MainLacksModule ==
  /\ pc = "main" /\ MainOpt.opt # "end"
  /\ ~(Wanted(MainOpt.opt) \subseteq modules)
  /\ Stop(TRUE)

MainLacksArgument ==
  /\ pc = "main" /\ MainOpt.opt = ":" /\ Wanted(":") \subseteq modules
  /\ Complain(MainOpt.next, "main")

MainUnknown ==
  /\ pc = "main" /\ MainOpt.opt = "?"
  /\ optind' = 2
  /\ pc' = "mi300"
  /\ UNCHANGED <<opVars, argv, modules, miFlag, performed, told>>

(* An option of the table: help, the version and the letters that have no   *)
(* case end the tool, showdependency has no case among the flags.           *)
MainOption ==
  LET g == MainOpt
      o == g.opt
  IN /\ pc = "main" /\ o \notin {"end", ":", "?"}
     /\ Wanted(o) \subseteq modules
     /\ IF \/ o \in {"help", "version", "unhandled"}
           \/ o \in MainValued /\ Wrongly(o, Arguments(g))
        THEN Stop(TRUE)
        ELSE IF o = "showdependency"
             THEN /\ optind' = g.next
                  /\ UNCHANGED <<opVars, argv, modules, pc, miFlag, performed, told>>
             ELSE /\ Perform(o, g, MainReads[o], "mainCommand")
                  /\ UNCHANGED miFlag

(* Of all commands of the line only the SB-TSI registers' failure ends it.  *)
MainCommandEnds ==
  /\ pc \in {"mainCommand", "lastCommand"} /\ doing = "none"
  /\ pc' = IF pc = "lastCommand" \/ failed = "showtsiregisters"
           THEN "end" ELSE "main"
  /\ UNCHANGED <<opVars, argv, modules, optind, miFlag, performed, told>>

(* The second parser: at the end of the options, and after a complaint, it  *)
(* returns to the first as if all was well.                                 *)
(* Mutant: the second parser puts the first one's place back. *)
MiDoneRestored ==
  /\ pc = "mi300" /\ MiOpt.opt = "end"
  /\ pc' = "main" /\ optind' = 2
  /\ UNCHANGED <<opVars, argv, modules, miFlag, performed, told>>

MiDone ==
  /\ pc = "mi300" /\ MiOpt.opt = "end"
  /\ pc' = "main"
  /\ UNCHANGED <<opVars, argv, modules, optind, miFlag, performed, told>>

MiLacksArgument ==
  /\ pc = "mi300" /\ MiOpt.opt \in {"?", ":"} /\ MiOpt.optopt
  /\ Complain(MiOpt.next, "main")

(* Mutant: it returns quietly, as after a complaint, when flag names nothing. *)
MiOptionReturns ==
  LET g == MiOpt
      found == g.opt \in MiOptions
      o == IF found THEN g.opt ELSE miFlag
  IN /\ pc = "mi300" /\ g.opt # "end" /\ ~g.optopt
     /\ miFlag' = o
     /\ IF o = "none" \/ MiFirstWrong(o, Arguments(g)) \/ MiTwoWrong(o, Arguments(g))
        THEN /\ pc' = "main" /\ optind' = g.next
             /\ UNCHANGED <<opVars, argv, modules, performed, told>>
        ELSE Perform(o, g, MiReads[o], "mi300Command")

(* What flag names decides: for a word that is no option it still names the *)
(* one before, and the first time nothing.                                  *)
MiOption ==
  LET g == MiOpt
      found == g.opt \in MiOptions
      o == IF found THEN g.opt ELSE miFlag
  IN /\ pc = "mi300" /\ g.opt # "end" /\ ~g.optopt
     /\ miFlag' = o
     /\ IF o = "none"
        THEN /\ pc' = "end" /\ told' = TRUE
             /\ UNCHANGED <<opVars, argv, modules, optind, performed>>
        ELSE IF \/ found /\ MiFirstWrong(o, Arguments(g))
                \/ MiTwoWrong(o, Arguments(g))
             THEN /\ told' = TRUE /\ pc' = "main" /\ optind' = g.next
                  /\ UNCHANGED <<opVars, argv, modules, performed>>
             ELSE Perform(o, g, MiReads[o], "mi300Command")

MiCommandEnds ==
  /\ pc = "mi300Command" /\ doing = "none"
  /\ pc' = "mi300"
  /\ UNCHANGED <<opVars, argv, modules, optind, miFlag, performed, told>>

Command == OperationStep /\ UNCHANGED lineVars

Ended == pc = "end" /\ UNCHANGED vars

Next == \/ Refused \/ Begin \/ Summary \/ Registers
        \/ MainDone \/ MainLacksModule \/ MainLacksArgument \/ MainUnknown
        \/ MainOption \/ MainCommandEnds
        \/ MiDone \/ MiLacksArgument \/ MiOption \/ MiCommandEnds
        \/ Command \/ Ended

Spec     == Init /\ [][Next]_vars
FairSpec == Spec /\ WF_vars(Next)

(***************************************************************************)
(* Properties.                                                             *)
(***************************************************************************)

(* What the validation demands and what the dispatch reads agree: a command *)
(* never reads past the end of the line, and no argument of its own begins  *)
(* with a dash but the one getopt took and the temperature of a DIMM, which *)
(* nobody looks at: there alone an option is swallowed (hazard: the two     *)
(* lists are kept apart).                                                   *)
ArgumentsAreThere ==
  \A p \in performed :
    /\ p.at + p.used <= Len(argv) + 1
    /\ \A i \in p.at + 2..p.at + p.used - 1 :
         Dashed(argv[i]) => p.command = "setdimmthermalsensor" /\ i = p.at + 2

(* When the tool ends without a complaint and without a failed command that *)
(* ends it, every word of the line belonged to a command it performed; only *)
(* showdependency, further right than it is looked for, is passed over.     *)
NoWordIsDropped ==
  pc = "end" /\ ~told /\ failed # "showtsiregisters" =>
    \A i \in 2..Len(argv) :
      \/ argv[i] = "showdependency"
      \/ \E p \in performed : i \in p.at..p.at + p.used - 1

(* Until something on the line is complained about, the first parser        *)
(* performs each of its options once, from left to right, although the      *)
(* second one moves the optind they share back to the start of the line and *)
(* through words the first has dealt with.                                  *)
OnceInOrder ==
  [][pc = "main" /\ pc' = "mainCommand" /\ ~told =>
       \A p \in performed : p.command \in MainOptions => p.at < optind]_vars

(* The tool performs the command the line names.  It does not: getopt takes *)
(* setxgmipstate, which only the second table has, for the beginning of the *)
(* first table's setxgmipstaterange; and for an option of the first table   *)
(* the second parser performs again the command it performed before.        *)
NamedIsPerformed ==
  \A p \in performed :
    \/ p.command = argv[p.at]
    \/ argv[p.at] \in DOMAIN ShortForms /\ p.command = ShortForms[argv[p.at]]

(* The argument of an option on the list of those to check is a number, and *)
(* arrives as it is.  It does not: the test of the word is for options      *)
(* getopt returns as 0 only, and these it returns as a character, so that   *)
(* a word after setpowerlimit is 0 Watts; and some parameters have eight    *)
(* bits.                                                                    *)
NumbersArrive == \A p \in performed : p.command \in Listed => p.sound

(* The tool comes to its end.  It need not: the second parser returns from  *)
(* a complaint as from success, and if an option of its table follows, the  *)
(* first sends it to the start of the line, and to the same complaint.      *)
LineEnds == <>(pc = "end")

(* It does end when there is nothing to complain about.                     *)
EndsOrComplains == <>(pc = "end" \/ told)
=============================================================================

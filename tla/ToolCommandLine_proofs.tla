----------------------- MODULE ToolCommandLine_proofs -----------------------
(***************************************************************************)
(* What ToolCommandLine promises of every command line, and ToolOperations *)
(* of every command of it.                                                 *)
(***************************************************************************)
EXTENDS ToolCommandLine, ToolScripts_proofs

(* No option has the name of an outcome of getopt or of "no option".        *)
LEMMA OutcomesAreNoNames == {"end", ":", "?", "none"} \cap Names = {}
BY DEF Names, MainOptions, MainPlain, MainValued, CharPlain, FlagPlain, CharValued,
       FlagValued, TsiReal, TsiCount, MiOptions, MiPlain, MiValued

LEMMA MainTables ==
  \A o \in MainOptions :
    /\ o \in MainPlain => MainReads[o] = << >> /\ o \notin MainValued
    /\ \/ MainReads[o] = << >>
       \/ MainReads[o] = <<Real>> \/ MainReads[o] = <<Dec(32)>>
       \/ o \in DOMAIN EarlyFlagReads /\ MainReads[o] = EarlyFlagReads[o]
       \/ o \in DOMAIN LateFlagReads /\ MainReads[o] = LateFlagReads[o]
       \/ o \in DOMAIN CharReads /\ MainReads[o] = CharReads[o]
<1>1. \A o \in MainPlain : o \notin MainValued
  BY DEF MainPlain, MainValued, CharPlain, FlagPlain, CharValued, FlagValued,
         TsiReal, TsiCount
<1>6. \A o \in TsiReal \cup TsiCount \cup DOMAIN EarlyFlagReads \cup DOMAIN LateFlagReads
              \cup DOMAIN CharReads : o \in MainValued
  BY DEF MainValued, CharValued, FlagValued, TsiReal, TsiCount, EarlyFlagReads,
         LateFlagReads, CharReads
<1>2. \A o \in MainValued :
        \/ o \in TsiReal \/ o \in TsiCount \/ o \in DOMAIN EarlyFlagReads
        \/ o \in DOMAIN LateFlagReads \/ o \in DOMAIN CharReads
  BY DEF MainValued, CharValued, FlagValued, TsiReal, TsiCount, EarlyFlagReads,
         LateFlagReads, CharReads
<1>3. \A o \in MainOptions : o \in MainPlain \/ o \in MainValued
  BY DEF MainOptions
<1> SUFFICES ASSUME NEW o \in MainOptions
             PROVE  /\ o \in MainPlain => MainReads[o] = << >> /\ o \notin MainValued
                    /\ \/ MainReads[o] = << >>
                       \/ MainReads[o] = <<Real>> \/ MainReads[o] = <<Dec(32)>>
                       \/ o \in DOMAIN EarlyFlagReads /\ MainReads[o] = EarlyFlagReads[o]
                       \/ o \in DOMAIN LateFlagReads /\ MainReads[o] = LateFlagReads[o]
                       \/ o \in DOMAIN CharReads /\ MainReads[o] = CharReads[o]
  OBVIOUS
<1>4. CASE o \in MainPlain
  <2>1. /\ o \notin TsiReal /\ o \notin TsiCount
        /\ o \notin DOMAIN EarlyFlagReads /\ o \notin DOMAIN LateFlagReads
        /\ o \notin DOMAIN CharReads
    BY <1>1, <1>4, <1>6
  <2>2. MainReads[o] = << >>
    BY <1>4, <2>1 DEF MainReads
  <2> QED BY <1>1, <1>4, <2>2
<1>5. CASE o \notin MainPlain
  BY <1>2, <1>3, <1>5 DEF MainReads
<1> QED BY <1>4, <1>5

(* What the validation has found: the words a case reads are there, and    *)
(* none of them is an option but the one where a temperature should be.    *)
Found(o, reads, args) ==
  /\ Len(reads) \in Nat
  /\ Len(reads) > 1 => Len(reads) <= Len(args)
  /\ \A j \in 2..Len(reads) : Dashed(args[j]) => o = "setdimmthermalsensor" /\ j = 2

LEMMA EarlyFound ==
  ASSUME NEW o \in DOMAIN EarlyFlagReads, NEW args \in Seq(Tokens), ~Wrongly(o, args)
  PROVE  Found(o, EarlyFlagReads[o], args)
<1>1. CASE o \in {"showccdbist", "showccxbist", "showlclkdpmlevelrange", "apml_recovery",
                  "getpostcode", "clearrasstatusregister", "showrasdferrvaliditycheck"}
  <2>1. Len(EarlyFlagReads[o]) = 1
    BY <1>1 DEF EarlyFlagReads
  <2> QED BY <2>1 DEF Found
<1>2. CASE o \in {"readmsrregister", "showrasrterrvalidityck", "shownbioerrorloggingregister"}
  <2>1. Len(EarlyFlagReads[o]) = 2
    BY <1>2 DEF EarlyFlagReads
  <2>2. Len(args) >= 2 /\ ~Dashed(args[2])
    BY <1>2 DEF Wrongly, TwoArgumentsWrong, ThreeArgumentsWrong, Short
  <2> QED BY <2>1, <2>2 DEF Found
<1>3. CASE o \in {"writeregister", "readcpuidregister", "rasoverridedelay",
                  "showrasrterrinfo", "setraserrthreshold", "showrasdferrdump"}
  <2>1. Len(EarlyFlagReads[o]) = 3
    BY <1>3 DEF EarlyFlagReads
  <2>2. Len(args) >= 3 /\ ~Dashed(args[2]) /\ ~Dashed(args[3])
    BY <1>3 DEF Wrongly, ThreeArgumentsWrong, Short
  <2> QED BY <2>1, <2>2 DEF Found
<1>4. CASE o = "setrasoobconfig"
  <2>1. Len(EarlyFlagReads[o]) = 5
    BY <1>4 DEF EarlyFlagReads
  <2>2. Len(args) >= 5 /\ \A j \in 2..5 : ~Dashed(args[j])
    BY <1>4 DEF Wrongly, MoreArgumentsWrong, Short
  <2> QED BY <2>1, <2>2 DEF Found
<1> QED BY <1>1, <1>2, <1>3, <1>4 DEF EarlyFlagReads

LEMMA LateFound ==
  ASSUME NEW o \in DOMAIN LateFlagReads, NEW args \in Seq(Tokens), ~Wrongly(o, args)
  PROVE  Found(o, LateFlagReads[o], args)
<1>1. CASE o \in {"readtsiregister", "readrmiregister", "getdimmserialnum",
                  "setcpurailfreqpolicy", "setdfcenable", "getchdramthrottle"}
  <2>1. Len(LateFlagReads[o]) = 1
    BY <1>1 DEF LateFlagReads
  <2> QED BY <2>1 DEF Found
<1>2. CASE o \in {"writetsiregister", "writermiregister", "setxgmipstaterange"}
  <2>1. Len(LateFlagReads[o]) = 2
    BY <1>2 DEF LateFlagReads
  <2>2. Len(args) >= 2 /\ ~Dashed(args[2])
    BY <1>2 DEF Wrongly, TwoArgumentsWrong, Short
  <2> QED BY <2>1, <2>2 DEF Found
<1>3. CASE o = "getspddata"
  <2>1. Len(LateFlagReads[o]) = 4
    BY <1>3 DEF LateFlagReads
  <2>2. Len(args) >= 4 /\ \A j \in 2..4 : ~Dashed(args[j])
    BY <1>3 DEF Wrongly, MoreArgumentsWrong, Short
  <2> QED BY <2>1, <2>2 DEF Found
<1>4. CASE o = "setpcieconfig"
  <2>1. Len(LateFlagReads[o]) = 6
    BY <1>4 DEF LateFlagReads
  <2>2. Len(args) >= 6 /\ \A j \in 2..6 : ~Dashed(args[j])
    BY <1>4 DEF Wrongly, MoreArgumentsWrong, Short
  <2> QED BY <2>1, <2>2 DEF Found
<1> QED BY <1>1, <1>2, <1>3, <1>4 DEF LateFlagReads

LEMMA CharFound ==
  ASSUME NEW o \in DOMAIN CharReads, NEW args \in Seq(Tokens), ~Wrongly(o, args)
  PROVE  Found(o, CharReads[o], args)
<1>1. CASE o \in {"setpowerlimit", "showboostlimit", "setapmlsocketboostlimit",
                  "set_and_verify_dramthrottle", "showfchresetreason",
                  "showdimmtemprangeandrefreshrate", "showdimmpower",
                  "showdimmthermalsensor", "showcclklimit", "APBDisable",
                  "setPCIegenratectrl", "setpwrefficiencymode", "showraplcore"}
  <2>1. Len(CharReads[o]) = 1
    BY <1>1 DEF CharReads
  <2> QED BY <2>1 DEF Found
<1>2. CASE o \in {"setapmlboostlimit", "showrasmcamsr", "showiobandwidth",
                  "showxGMIbandwidth", "setGMI3linkwidthrange",
                  "setxGMIlinkwidthrange", "setdfpstaterange", "readregister"}
  <2>1. Len(CharReads[o]) = 2
    BY <1>2 DEF CharReads
  <2>2. Len(args) >= 2 /\ ~Dashed(args[2])
    BY <1>2 DEF Wrongly, TwoArgumentsWrong, Short
  <2> QED BY <2>1, <2>2 DEF Found
<1>3. CASE o \in {"setdimmpower", "setlclkdpmlevel"}
  <2>1. Len(CharReads[o]) = 3
    BY <1>3 DEF CharReads
  <2>2. Len(args) >= 3 /\ ~Dashed(args[2]) /\ ~Dashed(args[3])
    BY <1>3 DEF Wrongly, ThreeArgumentsWrong, Short
  <2> QED BY <2>1, <2>2 DEF Found
<1>4. CASE o = "setdimmthermalsensor"
  <2>1. Len(CharReads[o]) = 3
    BY <1>4 DEF CharReads
  <2>2. Len(args) >= 3 /\ ~Dashed(args[3])
    BY <1>4 DEF Wrongly, ThreeArgumentsWrong, Short
  <2> QED BY <1>4, <2>1, <2>2 DEF Found
<1>5. CASE o = "showPCIeconfigspacedata"
  <2>1. Len(CharReads[o]) = 5
    BY <1>5 DEF CharReads
  <2>2. Len(args) >= 5 /\ \A j \in 2..5 : ~Dashed(args[j])
    BY <1>5 DEF Wrongly, MoreArgumentsWrong, Short
  <2> QED BY <2>1, <2>2 DEF Found
<1> QED BY <1>1, <1>2, <1>3, <1>4, <1>5 DEF CharReads

LEMMA MainFound ==
  ASSUME NEW o \in MainOptions, NEW args \in Seq(Tokens),
         o \in MainValued => ~Wrongly(o, args)
  PROVE  /\ Found(o, MainReads[o], args)
         /\ o \notin MainValued => Len(MainReads[o]) = 0
<1>1. CASE o \notin MainValued
  <2>1. MainReads[o] = << >>
    BY <1>1, MainTables DEF MainOptions
  <2> QED BY <2>1 DEF Found
<1>2. CASE o \in MainValued
  <2>1. \A r : Found(o, << >>, args) /\ Found(o, <<r>>, args)
    BY DEF Found
  <2> QED BY <1>2, <2>1, MainTables, EarlyFound, LateFound, CharFound
<1> QED BY <1>1, <1>2

(* The same of the second parser, for a word it found or did not find.     *)
LEMMA MiFound ==
  ASSUME NEW o \in MiOptions, NEW args \in Seq(Tokens), ~MiTwoWrong(o, args)
  PROVE  /\ Found(o, MiReads[o], args) /\ Len(MiReads[o]) <= 2
         /\ o \notin MiValued => Len(MiReads[o]) = 0
<1>1. CASE o \in MiTwo
  <2>1. Len(MiReads[o]) = 2
    BY <1>1 DEF MiReads, MiTwo, MiReal, MiPlain
  <2>2. Len(args) >= 2 /\ ~Dashed(args[2])
    BY <1>1 DEF MiTwoWrong, Short
  <2>3. o \in MiValued
    BY <1>1 DEF MiTwo, MiValued
  <2> QED BY <2>1, <2>2, <2>3 DEF Found
<1>2. CASE o \notin MiTwo
  <2>1. MiReads[o] = << >> \/ \E r : MiReads[o] = <<r>>
    BY <1>2 DEF MiReads, MiTwo
  <2>2. o \notin MiValued => MiReads[o] = << >>
    <3>1. o \notin MiValued => o \in MiPlain
      BY DEF MiOptions
    <3>2. /\ o \in MiPlain => o \notin MiReal
          /\ o \in MiPlain => o \notin {"showsvibasedtelemetryforindvrails", "querystatistics",
                                 "showxgmipstates", "sethbmalertthreshold"}
      BY DEF MiPlain, MiReal
    <3>3. o \in MiPlain => MiReads[o] = << >>
      BY <3>2 DEF MiReads
    <3> QED BY <3>1, <3>3
  <2>3. CASE MiReads[o] = << >>
    BY <2>3 DEF Found
  <2>4. CASE \E r : MiReads[o] = <<r>>
    <3>1. PICK r : MiReads[o] = <<r>>
      BY <2>4
    <3>2. o \in MiValued
      BY <2>2, <3>1
    <3> QED BY <3>1, <3>2 DEF Found
  <2> QED BY <2>1, <2>3, <2>4
<1> QED BY <1>1, <1>2

(***************************************************************************)
(* Where getopt stands after a word.                                       *)
(***************************************************************************)
AtEnd(i) == i > Len(argv) \/ ~Dashed(argv[i])

(* What one call of getopt does at word i: at the end it stays; else it    *)
(* passes the word, and with it the argument of an option that has one.    *)
Walks(g, i, options, valued) ==
  /\ AtEnd(i) => g.opt = "end" /\ g.next = i
  /\ ~AtEnd(i) =>
       /\ i <= Len(argv)
       /\ g.opt # "end"
       /\ g.next \in {i + 1, i + 2} /\ g.next <= Len(argv) + 1
       /\ g.opt \in options \cup {"unhandled", "?", ":"}
       /\ g.opt \in options =>
            g.next = (IF g.opt \in valued THEN i + 2 ELSE i + 1)
       /\ g.opt \in options =>
            /\ argv[i] \in Tokens
            /\ ~g.optopt
       /\ g.opt \notin options => g.next = i + 1
       /\ g.opt = ":" => g.optopt

LEMMA GetOptWalks ==
  ASSUME NEW options \in SUBSET Names, NEW valued \in SUBSET options,
         NEW longer, NEW shorts,
         \A w \in Tokens : Meant(w, options, longer, shorts)
                             \in options \cup {"unhandled", "?"},
         argv \in Seq(Tokens), NEW i \in Nat \ {0}
  PROVE  Walks(GetOpt(i, options, valued, longer, shorts), i, options, valued)
<1> DEFINE g == GetOpt(i, options, valued, longer, shorts)
           o == Meant(argv[i], options, longer, shorts)
<1>0. Len(argv) \in Nat /\ \A k \in 1..Len(argv) : argv[k] \in Tokens
  BY LenProperties, ElementOfSeq
<1>1. "end" \notin options /\ ":" \notin options /\ "?" \notin options
  BY OutcomesAreNoNames
<1>2. CASE AtEnd(i)
  BY <1>2 DEF Walks, GetOpt, AtEnd
<1>3. CASE ~AtEnd(i)
  <2>1. i \in 1..Len(argv) /\ argv[i] \in Tokens
    <3>1. i <= Len(argv)
      BY <1>0, <1>3 DEF AtEnd
    <3> QED BY <1>0, <3>1
  <2>2. o \in options \cup {"unhandled", "?"}
    BY <2>1
  <2>3. g = CASE o = "?" ->
                 [opt |-> "?", next |-> i + 1, optopt |-> argv[i] \notin Names]
            [] o # "?" /\ o \notin valued ->
                 [opt |-> o, next |-> i + 1, optopt |-> FALSE]
            [] o \in valued /\ i = Len(argv) ->
                 [opt |-> ":", next |-> i + 1, optopt |-> TRUE]
            [] o \in valued /\ i < Len(argv) ->
                 [opt |-> o, next |-> i + 2, optopt |-> FALSE]
    BY <1>3 DEF GetOpt, AtEnd
  <2> HIDE DEF g, o
  <2>4. CASE o = "?"
    <3>1. o \notin valued
      BY <1>1, <2>4
    <3>2. g = [opt |-> "?", next |-> i + 1, optopt |-> argv[i] \notin Names]
      BY <2>3, <2>4, <3>1
    <3>3. Walks(g, i, options, valued)
      BY <1>0, <1>1, <1>3, <2>1, <3>2 DEF Walks
    <3> QED BY <3>3 DEF g
  <2>5. CASE o # "?" /\ o \notin valued
    <3>1. g = [opt |-> o, next |-> i + 1, optopt |-> FALSE]
      BY <2>3, <2>5
    <3>2. Walks(g, i, options, valued)
      BY <1>0, <1>1, <1>3, <2>1, <2>2, <2>5, <3>1 DEF Walks
    <3> QED BY <3>2 DEF g
  <2>6. CASE o # "?" /\ o \in valued /\ i = Len(argv)
    <3>1. g = [opt |-> ":", next |-> i + 1, optopt |-> TRUE]
      BY <1>0, <2>3, <2>6
    <3>2. Walks(g, i, options, valued)
      BY <1>0, <1>1, <1>3, <2>1, <3>1 DEF Walks
    <3> QED BY <3>2 DEF g
  <2>7. CASE o # "?" /\ o \in valued /\ i < Len(argv)
    <3>1. g = [opt |-> o, next |-> i + 2, optopt |-> FALSE]
      BY <1>0, <2>3, <2>7
    <3>2. Walks(g, i, options, valued)
      BY <1>0, <1>1, <1>3, <2>1, <2>2, <2>7, <3>1 DEF Walks
    <3> QED BY <3>2 DEF g
  <2> QED BY <1>0, <2>1, <2>4, <2>5, <2>6, <2>7
<1> QED BY <1>2, <1>3

LEMMA MainWalks ==
  ASSUME argv \in Seq(Tokens), optind \in Nat \ {0}
  PROVE  /\ Walks(MainOpt, optind, MainOptions, MainValued)
         /\ MainOpt.opt = "showdependency" => argv[optind] = "showdependency"
<1>1. ASSUME NEW w
      PROVE  /\ Meant(w, MainOptions, MainLonger, ShortForms)
                  \in MainOptions \cup {"unhandled", "?"}
             /\ Meant(w, MainOptions, MainLonger, ShortForms) = "showdependency"
                  => w = "showdependency"
  <2>1. \A x \in DOMAIN ShortForms :
          ShortForms[x] \in {"help", "version", "showpower", "setpowerlimit",
                             "unhandled"}
    BY DEF ShortForms
  <2>2. {"help", "version", "showpower", "setpowerlimit", "setxgmipstaterange"}
          \subseteq MainOptions
    BY DEF MainOptions, MainPlain, MainValued, CharPlain, FlagPlain, CharValued, FlagValued
  <2>3. DOMAIN MainLonger = {"setxgmipstate"} /\ MainLonger["setxgmipstate"] = "setxgmipstaterange"
    BY DEF MainLonger
  <2> QED BY <2>1, <2>2, <2>3 DEF Meant
<1>2. MainValued \subseteq MainOptions /\ MainOptions \subseteq Names
  BY DEF MainOptions, Names
<1>3. Walks(MainOpt, optind, MainOptions, MainValued)
  BY <1>1, <1>2, GetOptWalks DEF MainOpt
<1>4. MainOpt.opt = "showdependency" => argv[optind] = "showdependency"
  <2>1. MainOpt.opt \in {"end", "?", ":",
                         Meant(argv[optind], MainOptions, MainLonger, ShortForms)}
    BY DEF MainOpt, GetOpt
  <2> QED BY <1>1, <2>1
<1> QED BY <1>3, <1>4

LEMMA MiWalks ==
  ASSUME argv \in Seq(Tokens), optind \in Nat \ {0}
  PROVE  /\ Walks(MiOpt, optind, MiOptions, MiValued)
         /\ MiOpt.opt # "unhandled"
<1> DEFINE none == [w \in {} |-> "none"]
<1>1. ASSUME NEW w
      PROVE  Meant(w, MiOptions, MiLonger, none) \in MiOptions \cup {"?"}
  BY DEF Meant, MiLonger
<1>2. MiValued \subseteq MiOptions /\ MiOptions \subseteq Names
  BY DEF MiOptions, Names
<1>3. Walks(MiOpt, optind, MiOptions, MiValued)
  BY <1>1, <1>2, GetOptWalks DEF MiOpt
<1>4. "unhandled" \notin MiOptions
  BY DEF MiOptions, MiPlain, MiValued
<1>5. MiOpt.opt \in {"end", "?", ":", Meant(argv[optind], MiOptions, MiLonger, none)}
  BY DEF MiOpt, GetOpt
<1> QED BY <1>1, <1>3, <1>4, <1>5

(***************************************************************************)
(* The invariant of the command line.                                      *)
(***************************************************************************)
LineTypes ==
  /\ argv \in Seq(Tokens)
  /\ modules \subseteq {"sbrmi", "sbtsi"}
  /\ pc \in {"start", "main", "mi300", "mainCommand", "mi300Command",
             "summary", "registers", "lastCommand", "end"}
  /\ optind \in 1..Len(argv) + 1
  /\ miFlag \in MiOptions \cup {"none"}
  /\ performed \subseteq Performed
  /\ told \in BOOLEAN

(* Where no command runs, and where the line is the socket's number alone.  *)
PlaceInv ==
  /\ pc = "start" => optind = 1 /\ performed = {}
  /\ pc \in {"summary", "registers", "lastCommand"} => Len(argv) = 1
  /\ pc \in {"start", "summary", "main", "mi300", "end"} => doing = "none"

(* A command's words are within the line and are its own.                   *)
Fits(p) ==
  /\ p.at + p.used <= Len(argv) + 1
  /\ \A i \in p.at + 2..p.at + p.used - 1 :
       Dashed(argv[i]) => p.command = "setdimmthermalsensor" /\ i = p.at + 2

Covered(i) == \/ argv[i] = "showdependency"
              \/ \E p \in performed : i \in p.at..p.at + p.used - 1

(* Before a complaint every word getopt has passed belonged to a command,   *)
(* whichever parser passed it; and the first parser has either nothing left *)
(* to do or is further right than all the commands.                         *)
CoverInv ==
  /\ ~told => \A i \in 2..optind - 1 : Covered(i)
  /\ pc = "end" /\ ~told => \/ failed = "showtsiregisters"
                            \/ \A i \in 2..Len(argv) : Covered(i)

OrderInv ==
  ~told /\ pc \in {"main", "mainCommand"} =>
    AtEnd(optind) \/ \A p \in performed : p.at < optind

LineInv == /\ LineTypes /\ PlaceInv /\ CoverInv /\ OrderInv
           /\ \A p \in performed : Fits(p)

(* What performing an option adds, once its arguments have been found.      *)
LEMMA PerformAdds ==
  ASSUME LineTypes, NEW o \in Names, NEW g, NEW reads, NEW where,
         Perform(o, g, reads, where),
         optind <= Len(argv), g.next \in {optind + 1, optind + 2},
         g.next <= Len(argv) + 1,
         Found(o, reads, Arguments(g)), g.next = optind + 1 => Len(reads) <= 2
  PROVE  \E p \in Performed :
            /\ performed' = performed \cup {p}
            /\ p.at = optind /\ p.command = o
            /\ optind' = p.at + p.used
            /\ optind' \in optind + 1..Len(argv) + 1
            /\ Fits(p)
<1> DEFINE extra == IF Len(reads) > 1 THEN Len(reads) - 1 ELSE 0
           args == Arguments(g)
           sound == \A i \in 1..Len(reads) :
                      i <= Len(args) /\ (args[i] \in Kinds \/ reads[i].how = "text")
                        /\ (args[i] \in Kinds => Converts(reads[i], args[i]))
           p == [command |-> o, at |-> optind, used |-> g.next + extra - optind,
                 sound |-> sound]
<1>1. /\ optind \in Nat \ {0} /\ Len(argv) \in Nat /\ optind + 1 <= g.next /\ g.next \in Nat
      /\ \A k \in 1..Len(argv) : argv[k] \in Tokens
  BY LenProperties, ElementOfSeq DEF LineTypes
<1>2. Len(reads) \in Nat /\ extra \in Nat
  BY DEF Found
<1>3. /\ Len(args) = Len(argv) - g.next + 2
      /\ \A j \in 1..Len(args) : args[j] = argv[g.next - 2 + j]
  <2>1. \A k \in g.next - 1..Len(argv) : argv[k] \in Tokens
    BY <1>1
  <2>2. g.next - 1 \in Int /\ Len(argv) \in Int /\ g.next - 1 <= Len(argv)
    BY <1>1
  <2>3. /\ Len(args) = Len(argv) - (g.next - 1) + 1
        /\ \A j \in 1..Len(argv) - (g.next - 1) + 1 : args[j] = argv[(g.next - 1) + j - 1]
    <3> HIDE DEF sound, p
    <3> QED BY <2>1, <2>2, SubSeqProperties DEF Arguments
  <2> HIDE DEF sound, p, args, extra
  <2>4. Len(args) = Len(argv) - g.next + 2
    BY <1>1, <2>3
  <2>5. ASSUME NEW j \in 1..Len(args)
        PROVE  args[j] = argv[g.next - 2 + j]
    <3>1. j \in 1..Len(argv) - (g.next - 1) + 1 /\ j \in Nat
      BY <1>1, <2>3
    <3>2. (g.next - 1) + j - 1 = g.next - 2 + j
      BY <1>1, <3>1
    <3> QED BY <2>3, <3>1, <3>2
  <2> QED BY <2>4, <2>5
<1>4. performed' = performed \cup {p} /\ optind' = g.next + extra
  BY DEF Perform
<1>5. sound \in BOOLEAN
  OBVIOUS
<1> HIDE DEF args, sound
<1>6. p \in Performed
  BY <1>1, <1>2, <1>5 DEF Performed
<1>7. g.next + extra <= Len(argv) + 1
  BY <1>1, <1>2, <1>3 DEF Found, args
<1>8. ASSUME NEW i \in optind + 2..g.next + extra - 1, Dashed(argv[i])
      PROVE  o = "setdimmthermalsensor" /\ i = optind + 2
  <2>1. g.next = optind + 2 /\ Len(reads) > 1
    BY <1>1, <1>2, <1>8
  <2>2. i - optind \in 2..Len(reads) /\ i - optind \in 1..Len(args)
    BY <1>1, <1>2, <2>1 DEF Found, args
  <2>3. args[i - optind] = argv[i]
    BY <1>1, <1>3, <2>1, <2>2
  <2>4. o = "setdimmthermalsensor" /\ i - optind = 2
    BY <1>8, <2>2, <2>3 DEF Found, args
  <2> QED BY <1>1, <2>4
<1>9. Fits(p)
  BY <1>1, <1>2, <1>7, <1>8 DEF Fits
<1>10. optind' = p.at + p.used /\ optind' \in optind + 1..Len(argv) + 1
  <2>1. p.at = optind /\ p.used = g.next + extra - optind
    OBVIOUS
  <2> HIDE DEF p, extra
  <2> QED BY <1>1, <1>2, <1>4, <1>7, <2>1
<1> QED BY <1>4, <1>6, <1>9, <1>10

(* Performing an option preserves the invariant.                            *)
LEMMA PerformKeeps ==
  ASSUME LineInv, NEW o \in Names, NEW g, NEW reads, NEW where,
         Perform(o, g, reads, where), miFlag' \in MiOptions \cup {"none"},
         ~AtEnd(optind), g.next \in {optind + 1, optind + 2},
         g.next <= Len(argv) + 1,
         Found(o, reads, Arguments(g)), g.next = optind + 1 => Len(reads) <= 2,
         \/ where = "mainCommand" /\ pc = "main"
         \/ where = "mi300Command" /\ pc = "mi300"
  PROVE  LineInv'
<1>1. LineTypes /\ optind \in Nat \ {0} /\ Len(argv) \in Nat /\ optind <= Len(argv)
  BY LenProperties DEF LineInv, LineTypes, AtEnd
<1>2. PICK p \in Performed :
            /\ performed' = performed \cup {p}
            /\ p.at = optind /\ p.command = o
            /\ optind' = p.at + p.used
            /\ optind' \in optind + 1..Len(argv) + 1
            /\ Fits(p)
  BY <1>1, PerformAdds
<1>3. /\ UNCHANGED <<argv, modules, told>> /\ pc' = where
  BY DEF Perform
<1>4. \A q \in Performed : q.at \in Nat /\ q.used \in Nat
  BY DEF Performed
<1>5. LineTypes'
  BY <1>1, <1>2, <1>3 DEF LineTypes
<1>6. PlaceInv'
  BY <1>3 DEF PlaceInv
<1>7. \A q \in performed' : Fits(q)'
  BY <1>2, <1>3 DEF LineInv, Fits
<1>8. CoverInv'
  <2>1. \A i : Covered(i) => Covered(i)'
    BY <1>2, <1>3 DEF Covered
  <2>2. ~told' => \A i \in 2..optind' - 1 : Covered(i)'
    <3>1. SUFFICES ASSUME ~told, NEW i \in 2..optind' - 1 PROVE Covered(i)'
      BY <1>3
    <3>2. CASE i < optind
      BY <1>1, <2>1, <3>1, <3>2 DEF LineInv, CoverInv
    <3>3. CASE i >= optind
      <4>1. i \in p.at..p.at + p.used - 1
        <5>1. p.at + p.used = optind' /\ p.at = optind /\ p.at + p.used \in Int
          BY <1>2, <1>4
        <5>2. optind' \in Int /\ i \in Int /\ i <= optind' - 1
          BY <1>1, <1>2
        <5>3. p.at \in Nat /\ p.used \in Nat
          BY <1>4
        <5>4. i >= p.at /\ i <= p.at + p.used - 1
          <6>1. i >= p.at
            BY <3>3, <5>1
          <6>2. i <= p.at + p.used - 1
            <7>1. p.at + p.used - 1 = optind' - 1
              BY <5>1, <5>3
            <7> QED BY <5>2, <7>1
          <6> QED BY <6>1, <6>2
        <5> QED BY <5>2, <5>3, <5>4
      <4> QED BY <1>2, <4>1 DEF Covered
    <3> QED BY <1>1, <3>2, <3>3
  <2> QED BY <1>3, <2>2 DEF CoverInv
<1>9. OrderInv'
  <2>1. SUFFICES ASSUME ~told, pc = "main" PROVE \A q \in performed' : q.at < optind'
    BY <1>3 DEF OrderInv
  <2>2. \A q \in performed : q.at < optind
    BY <2>1 DEF LineInv, OrderInv
  <2>3. ASSUME NEW q \in performed' PROVE q.at < optind'
    <3>1. q.at \in Nat /\ q.at <= optind
      BY <1>1, <1>2, <1>4, <2>2 DEF LineTypes
    <3> QED BY <1>1, <1>2, <3>1
  <2> QED BY <2>3
<1> QED BY <1>5, <1>6, <1>7, <1>8, <1>9 DEF LineInv

(* The same for the two parsers, whose validation finds the arguments.      *)
LEMMA MainOptionKeeps == LineInv /\ MainOption => LineInv'
<1> SUFFICES ASSUME LineInv, MainOption PROVE LineInv'
  OBVIOUS
<1> DEFINE g == MainOpt
           o == g.opt
<1>1. /\ LineTypes /\ argv \in Seq(Tokens) /\ optind \in Nat \ {0} /\ Len(argv) \in Nat
      /\ pc = "main" /\ o \notin {"end", ":", "?"}
  BY LenProperties DEF LineInv, LineTypes, MainOption
<1>2. Walks(g, optind, MainOptions, MainValued) /\ (o = "showdependency" => argv[optind] = "showdependency")
  BY <1>1, MainWalks
<1>3. ~AtEnd(optind)
  BY <1>1, <1>2 DEF Walks
<1>4. CASE Stop(TRUE)
  BY <1>1, <1>4 DEF LineInv, LineTypes, PlaceInv, CoverInv, OrderInv, Stop, Fits, opVars
<1>5. CASE /\ o \notin {"help", "version", "unhandled"}
           /\ ~(o \in MainValued /\ Wrongly(o, Arguments(g)))
  <2>0. o \in MainOptions /\ o \in Names
    BY <1>1, <1>2, <1>3, <1>5 DEF Walks, Names
  <2>1. CASE /\ o = "showdependency"
             /\ optind' = g.next
             /\ UNCHANGED <<opVars, argv, modules, pc, miFlag, performed, told>>
    <3>1. /\ optind' = optind + 1 /\ optind <= Len(argv)
          /\ argv[optind] = "showdependency"
      <4>1. o \notin MainValued
        BY <2>1 DEF MainValued, CharValued, FlagValued, TsiReal, TsiCount
      <4> QED BY <1>2, <1>3, <2>0, <2>1, <4>1 DEF Walks
    <3>2. LineTypes'
      BY <1>1, <2>1, <3>1 DEF LineTypes
    <3>3. \A i : Covered(i)' <=> Covered(i)
      BY <2>1 DEF Covered
    <3>4. Covered(optind)
      BY <3>1 DEF Covered
    <3>5. CoverInv'
      BY <1>1, <2>1, <3>1, <3>3, <3>4 DEF LineInv, CoverInv
    <3>6. OrderInv'
      <4>1. ~told => \A p \in performed : p.at \in Nat /\ p.at < optind
        BY <1>1, <1>3 DEF LineInv, OrderInv, LineTypes, Performed
      <4> QED BY <1>1, <2>1, <3>1, <4>1 DEF OrderInv
    <3> QED BY <1>1, <2>1, <3>2, <3>5, <3>6 DEF LineInv, PlaceInv, Fits, opVars
  <2>2. CASE Perform(o, g, MainReads[o], "mainCommand") /\ UNCHANGED miFlag
    <3>1. /\ g.next \in {optind + 1, optind + 2} /\ g.next <= Len(argv) + 1
          /\ g.next = optind + 1 => o \notin MainValued
      BY <1>1, <1>2, <1>3, <2>0 DEF Walks
    <3>2. Arguments(g) \in Seq(Tokens)
      <4>1. \A k \in g.next - 1..Len(argv) : argv[k] \in Tokens
        BY <1>1, <3>1, ElementOfSeq
      <4>2. g.next - 1 \in Int /\ Len(argv) \in Int
        BY <1>1, <3>1
      <4> QED BY <4>1, <4>2, SubSeqProperties DEF Arguments
    <3>3. /\ Found(o, MainReads[o], Arguments(g))
          /\ g.next = optind + 1 => Len(MainReads[o]) <= 2
      BY <1>5, <2>0, <3>1, <3>2, MainFound
    <3> HIDE DEF g
    <3> QED BY <1>1, <1>3, <2>0, <2>2, <3>1, <3>3, PerformKeeps DEF LineTypes
  <2> QED BY <1>5, <2>1, <2>2 DEF MainOption
<1> QED BY <1>4, <1>5 DEF MainOption

LEMMA MiOptionKeeps == LineInv /\ MiOption => LineInv'
<1> SUFFICES ASSUME LineInv, MiOption PROVE LineInv'
  OBVIOUS
<1> DEFINE g == MiOpt
           found == g.opt \in MiOptions
           o == IF found THEN g.opt ELSE miFlag
<1>1. /\ LineTypes /\ argv \in Seq(Tokens) /\ optind \in Nat \ {0} /\ Len(argv) \in Nat
      /\ pc = "mi300" /\ g.opt # "end" /\ ~g.optopt /\ miFlag' = o
  BY LenProperties DEF LineInv, LineTypes, MiOption
<1>2. Walks(g, optind, MiOptions, MiValued)
  BY <1>1, MiWalks
<1>3. ~AtEnd(optind)
  BY <1>1, <1>2 DEF Walks
<1>4. /\ g.next \in {optind + 1, optind + 2} /\ g.next <= Len(argv) + 1
      /\ optind <= Len(argv)
  BY <1>2, <1>3 DEF Walks
<1>5. o \in MiOptions \cup {"none"}
  BY <1>1 DEF LineTypes
<1>6. CASE o = "none"
  <2>1. pc' = "end" /\ told' = TRUE /\ UNCHANGED <<opVars, argv, modules, optind, performed>>
    BY <1>6 DEF MiOption, opVars
  <2> QED BY <1>1, <1>5, <2>1
        DEF LineInv, LineTypes, PlaceInv, CoverInv, OrderInv, Fits, opVars
<1>7. CASE /\ told' = TRUE /\ pc' = "main" /\ optind' = g.next
           /\ UNCHANGED <<opVars, argv, modules, performed>>
  <2>1. LineTypes'
    BY <1>1, <1>4, <1>5, <1>7 DEF LineTypes
  <2> QED BY <1>1, <1>7, <2>1
        DEF LineInv, PlaceInv, CoverInv, OrderInv, Fits, opVars
<1>8. CASE Perform(o, g, MiReads[o], "mi300Command") /\ o # "none" /\ ~MiTwoWrong(o, Arguments(g))
  <2>1. o \in MiOptions /\ o \in Names
    BY <1>5, <1>8 DEF Names
  <2>2. Arguments(g) \in Seq(Tokens)
    <3>1. \A k \in g.next - 1..Len(argv) : argv[k] \in Tokens
      BY <1>1, <1>4, ElementOfSeq
    <3>2. g.next - 1 \in Int /\ Len(argv) \in Int
      BY <1>1, <1>4
    <3> QED BY <3>1, <3>2, SubSeqProperties DEF Arguments
  <2>3. Found(o, MiReads[o], Arguments(g)) /\ Len(MiReads[o]) <= 2
    BY <1>8, <2>1, <2>2, MiFound
  <2> HIDE DEF g, o
  <2> QED BY <1>1, <1>3, <1>4, <1>5, <1>8, <2>1, <2>3, PerformKeeps
<1> QED BY <1>1, <1>5, <1>6, <1>7, <1>8 DEF MiOption

LEMMA LineInit == Init => LineInv
<1> SUFFICES ASSUME Init PROVE LineInv
  OBVIOUS
<1>1. argv \in Seq(Tokens) /\ Len(argv) \in Nat
  BY ToolLinesAssumption, LenProperties DEF Init
<1>2. LineTypes
  <2>1. optind \in 1..Len(argv) + 1
    BY <1>1 DEF Init
  <2>2. modules \subseteq {"sbrmi", "sbtsi"}
    BY DEF Init
  <2> QED BY <1>1, <2>1, <2>2 DEF Init, LineTypes
<1>3. PlaceInv /\ CoverInv /\ OrderInv
  BY DEF Init, OperationInit, PlaceInv, CoverInv, OrderInv
<1> QED BY <1>2, <1>3 DEF Init, LineInv

LEMMA LineStep == LineInv /\ [Next]_vars => LineInv'
<1> SUFFICES ASSUME LineInv, [Next]_vars PROVE LineInv'
  OBVIOUS
<1> USE DEF LineInv, LineTypes, PlaceInv
<1>0. optind \in Nat \ {0} /\ Len(argv) \in Nat
  BY LenProperties
<1>1. CASE Refused
  BY <1>1 DEF Refused, Stop, opVars, CoverInv, OrderInv, Fits
<1>2. CASE Begin
  <2>1. Len(argv) >= 1
    BY <1>2, EmptySeq DEF Begin
  <2> QED BY <1>0, <1>2, <2>1 DEF Begin, opVars, CoverInv, OrderInv, Fits
<1>3. CASE Summary
  <2>1. CASE Stop(TRUE)
    BY <1>3, <2>1 DEF Summary, Stop, opVars, CoverInv, OrderInv, Fits
  <2>2. CASE pc' = "registers" /\ UNCHANGED <<argv, modules, optind, miFlag, performed, told>>
    BY <1>3, <2>2 DEF Summary, CoverInv, OrderInv, Fits, Covered
  <2> QED BY <1>3, <2>1, <2>2 DEF Summary
<1>4. CASE Registers
  <2>1. CASE Stop(TRUE)
    BY <1>4, <2>1 DEF Registers, Stop, opVars, CoverInv, OrderInv, Fits
  <2>2. CASE pc' = "lastCommand" /\ UNCHANGED <<argv, modules, optind, miFlag, performed, told>>
    BY <1>4, <2>2 DEF Registers, CoverInv, OrderInv, Fits, Covered
  <2> QED BY <1>4, <2>1, <2>2 DEF Registers
<1>5. CASE MainDone
  <2>1. /\ pc' = "end" /\ told' = (told \/ optind <= Len(argv))
        /\ UNCHANGED <<opVars, argv, modules, optind, miFlag, performed>>
    BY <1>5 DEF MainDone, Stop
  <2>2. ~told' => \A i \in 2..Len(argv) : Covered(i)'
    <3>1. ~told' => ~told /\ ~(optind <= Len(argv))
      BY <2>1, Zenon
    <3>2. ~told' => \A i \in 2..Len(argv) : Covered(i)
      BY <1>0, <3>1 DEF CoverInv
    <3> QED BY <2>1, <3>2 DEF Covered
  <2> QED BY <1>5, <2>1, <2>2 DEF MainDone, opVars, CoverInv, OrderInv, Fits, Covered
<1>6. CASE MainLacksModule
  BY <1>6 DEF MainLacksModule, Stop, opVars, CoverInv, OrderInv, Fits
<1>7. CASE MainLacksArgument
  <2>1. MainOpt.next \in 1..Len(argv) + 1
    BY <1>0, MainWalks DEF Walks
  <2> QED BY <1>7, <2>1 DEF MainLacksArgument, Complain, opVars, CoverInv, OrderInv, Fits
<1>8. CASE MainUnknown
  <2>1. optind <= Len(argv)
    <3>1. MainOpt.opt # "end"
      BY <1>8 DEF MainUnknown
    <3> QED BY <1>0, <3>1, MainWalks DEF Walks
  <2> QED BY <1>0, <1>8, <2>1 DEF MainUnknown, opVars, CoverInv, OrderInv, Fits
<1>9. CASE MainOption
  BY <1>9, MainOptionKeeps
<1>10. CASE MainCommandEnds
  <2>1. /\ UNCHANGED <<opVars, argv, modules, optind, miFlag, performed, told>>
        /\ pc \in {"mainCommand", "lastCommand"} /\ doing = "none"
        /\ pc' = IF pc = "lastCommand" \/ failed = "showtsiregisters" THEN "end" ELSE "main"
    BY <1>10 DEF MainCommandEnds
  <2>2. \A i \in 2..Len(argv) : pc = "lastCommand" => Covered(i)'
    BY <1>0
  <2> QED BY <2>1, <2>2 DEF opVars, CoverInv, OrderInv, Fits, Covered, AtEnd
<1>11. CASE MiDone
  <2>1. AtEnd(optind)
    <3>1. MiOpt.opt = "end"
      BY <1>11 DEF MiDone
    <3> QED BY <1>0, <3>1, MiWalks DEF Walks
  <2> QED BY <1>11, <2>1 DEF MiDone, opVars, CoverInv, OrderInv, Fits, Covered, AtEnd
<1>12. CASE MiLacksArgument
  <2>1. MiOpt.next \in 1..Len(argv) + 1
    BY <1>0, MiWalks DEF Walks
  <2> QED BY <1>12, <2>1 DEF MiLacksArgument, Complain, opVars, CoverInv, OrderInv, Fits
<1>13. CASE MiOption
  BY <1>13, MiOptionKeeps
<1>14. CASE MiCommandEnds
  BY <1>14 DEF MiCommandEnds, opVars, CoverInv, OrderInv, Fits, Covered
<1>15. CASE Command
  <2>1. doing # "none" /\ UNCHANGED lineVars
    BY <1>15 DEF Command, OperationStep, PassOver, CallSucceeds, CallFailsSilently,
                 CallFailsWithData, CallFails, OperationEnds, Running
  <2> QED BY <2>1 DEF lineVars, CoverInv, OrderInv, Fits, Covered, AtEnd
<1>16. CASE UNCHANGED vars
  BY <1>16 DEF vars, lineVars, opVars, CoverInv, OrderInv, Fits, Covered, AtEnd
<1> QED
  BY <1>1, <1>2, <1>3, <1>4, <1>5, <1>6, <1>7, <1>8, <1>9, <1>10, <1>11, <1>12, <1>13,
     <1>14, <1>15, <1>16 DEF Next, Ended

LEMMA LineInvariant == Spec => []LineInv
BY LineInit, LineStep, PTL DEF Spec

(* The validation and the dispatch agree on every command line: no command  *)
(* reads beyond its end, and none but setdimmthermalsensor, in the place of *)
(* its temperature, takes a word that begins with a dash for an argument it *)
(* reads beyond the first.                                                  *)
THEOREM ArgumentsFound == Spec => []ArgumentsAreThere
<1>1. LineInv => ArgumentsAreThere
  BY DEF LineInv, Fits, ArgumentsAreThere
<1> QED BY <1>1, LineInvariant, PTL

(* A command line that ends without a complaint has been performed to its   *)
(* last word.                                                               *)
THEOREM WordsAreNotDropped == Spec => []NoWordIsDropped
<1>1. LineInv => NoWordIsDropped
  BY DEF LineInv, CoverInv, Covered, NoWordIsDropped
<1> QED BY <1>1, LineInvariant, PTL

(* Until a complaint the first parser performs its options from left to     *)
(* right and none twice, whatever the second one does to optind.            *)
THEOREM CommandsOnceInOrder == Spec => OnceInOrder
<1> DEFINE Forward == pc = "main" /\ pc' = "mainCommand" /\ ~told =>
                     \A p \in performed : p.command \in MainOptions => p.at < optind
<1>1. LineInv /\ [Next]_vars => [Forward]_vars
  <2> SUFFICES ASSUME LineInv, Next, pc = "main", pc' = "mainCommand", ~told
               PROVE  \A p \in performed : p.at < optind
    BY DEF vars, lineVars
  <2>1. MainOption
    BY DEF Next, Refused, Begin, Summary, Registers, MainDone, MainLacksModule,
           MainLacksArgument, MainUnknown, MainCommandEnds, MiDone, MiLacksArgument,
           MiOption, MiCommandEnds, Command, lineVars, Ended, vars, Stop, Complain
  <2>2. MainOpt.opt # "end"
    BY <2>1 DEF MainOption
  <2>3. ~AtEnd(optind)
    BY <2>2, MainWalks, LenProperties DEF LineInv, LineTypes, Walks
  <2> QED BY <2>3 DEF LineInv, OrderInv
<1>2. Spec => [][Forward]_vars
  BY <1>1, LineInvariant, PTL DEF Spec
<1> QED BY <1>2 DEF OnceInOrder

(***************************************************************************)
(* The command that is run.                                                *)
(***************************************************************************)
(* Every option the parsers perform has its script.                         *)
LEMMA EveryOptionHasAScript ==
  /\ MainOptions \ {"help", "version", "showdependency"} \subseteq DOMAIN Scripts
  /\ MiOptions \subseteq DOMAIN Scripts
  /\ {"showmailboxsummary", "showtsiregisters"} \subseteq DOMAIN Scripts
<1> DEFINE In(o) == \E i \in 1..27 : o \in DOMAIN ScriptTables[i]
<1>1. \A o : In(o) => o \in DOMAIN Scripts
  BY LookedUp, TablesAre DEF Scripts
<1>2. \A o : \/ o \in DOMAIN PowerScripts \/ o \in DOMAIN BoostScripts
             \/ o \in DOMAIN TsiSetScripts \/ o \in DOMAIN TsiConfigScripts
             \/ o \in DOMAIN RmiScripts \/ o \in DOMAIN TsiScripts
             \/ o \in DOMAIN DimmScripts \/ o \in DOMAIN RasMcaScripts
             \/ o \in DOMAIN FrequencyScripts \/ o \in DOMAIN LinkScripts
             \/ o \in DOMAIN FabricScripts \/ o \in DOMAIN RegisterScripts
             \/ o \in DOMAIN BistScripts \/ o \in DOMAIN StatusScripts
             => In(o)
  BY TablesAre
<1>3. \A o : \/ o \in DOMAIN ThreadScripts \/ o \in DOMAIN RasScripts
             \/ o \in DOMAIN PostCodeScripts \/ o \in DOMAIN RuntimeErrorScripts
             \/ o \in DOMAIN LateReadScripts \/ o \in DOMAIN LateScripts
             \/ o \in DOMAIN SummaryScripts \/ o \in DOMAIN MiMemoryScripts
             \/ o \in DOMAIN MiInfoScripts \/ o \in DOMAIN MiClockScripts
             \/ o \in DOMAIN MiPstateScripts \/ o \in DOMAIN MiStatisticsScripts
             \/ o \in DOMAIN MiDieScripts
             => In(o)
  BY TablesAre
<1> HIDE DEF In
<1> USE DEF PowerScripts, BoostScripts, TsiSetScripts, TsiConfigScripts, RmiScripts,
            TsiScripts, DimmScripts, RasMcaScripts, FrequencyScripts, LinkScripts,
            FabricScripts, RegisterScripts, BistScripts, StatusScripts, ThreadScripts,
            RasScripts, PostCodeScripts, RuntimeErrorScripts, LateReadScripts,
            LateScripts, SummaryScripts, MiMemoryScripts, MiInfoScripts, MiClockScripts,
            MiPstateScripts, MiStatisticsScripts, MiDieScripts
<1>4. \A o \in CharPlain \ {"help", "version"} : In(o)
  BY <1>2, <1>3 DEF CharPlain
<1>5. \A o \in FlagPlain \ {"showdependency"} : In(o)
  BY <1>2, <1>3 DEF FlagPlain
<1>6. \A o \in CharValued : In(o)
  BY <1>2, <1>3 DEF CharValued
<1>7. \A o \in FlagValued : In(o)
  BY <1>2, <1>3 DEF FlagValued, TsiReal, TsiCount
<1>8. \A o \in MiPlain : In(o)
  BY <1>2, <1>3 DEF MiPlain
<1>9. \A o \in MiValued : In(o)
  BY <1>2, <1>3 DEF MiValued
<1>10. In("showmailboxsummary") /\ In("showtsiregisters")
  BY <1>2, <1>3
<1> QED
  BY <1>1, <1>4, <1>5, <1>6, <1>7, <1>8, <1>9, <1>10
     DEF MainOptions, MainPlain, MainValued, MiOptions

LEMMA CommandStep == LineInv /\ OpInv /\ [Next]_vars => OpInv'
<1> SUFFICES ASSUME LineInv, OpInv, [Next]_vars PROVE OpInv'
  OBVIOUS
<1>1. ASSUME NEW o \in DOMAIN Scripts, StartOperation(o) PROVE OpInv'
  BY <1>1, OperationStarts
<1>2. CASE UNCHANGED opVars
  BY <1>2, OperationStays
<1>3. CASE Summary \/ Registers
  BY <1>1, <1>2, <1>3, EveryOptionHasAScript DEF Summary, Registers, Stop
<1>4. CASE MainOption
  <2>1. CASE UNCHANGED opVars
    BY <1>2, <2>1
  <2>2. CASE ~ UNCHANGED opVars
    <3>1. /\ MainOpt.opt \notin {"end", ":", "?", "help", "version", "unhandled", "showdependency"}
          /\ Perform(MainOpt.opt, MainOpt, MainReads[MainOpt.opt], "mainCommand")
      BY <1>4, <2>2 DEF MainOption, Stop
    <3>2. MainOpt.opt \in MainOptions
      BY <3>1, MainWalks, LenProperties DEF LineInv, LineTypes, Walks
    <3> QED BY <1>1, <3>1, <3>2, EveryOptionHasAScript DEF Perform
  <2> QED BY <2>1, <2>2
<1>5. CASE MiOption
  <2>1. CASE UNCHANGED opVars
    BY <1>2, <2>1
  <2>2. CASE ~ UNCHANGED opVars
    <3> DEFINE o == IF MiOpt.opt \in MiOptions THEN MiOpt.opt ELSE miFlag
    <3>1. o # "none" /\ Perform(o, MiOpt, MiReads[o], "mi300Command")
      BY <1>5, <2>2 DEF MiOption
    <3>2. o \in MiOptions
      BY <3>1 DEF LineInv, LineTypes
    <3> HIDE DEF o
    <3> QED BY <1>1, <3>1, <3>2, EveryOptionHasAScript DEF Perform
  <2> QED BY <2>1, <2>2
<1>6. CASE Command
  BY <1>6, OperationGoesOn DEF Command
<1> QED
  BY <1>2, <1>3, <1>4, <1>5, <1>6
     DEF Next, Refused, Begin, MainDone, MainLacksModule, MainLacksArgument, MainUnknown,
         MainCommandEnds, MiDone, MiLacksArgument, MiCommandEnds, Ended, vars, Stop, Complain

LEMMA CommandInvariant == Spec => [](LineInv /\ OpInv)
<1>1. Init => LineInv /\ OpInv
  BY LineInit, OperationBegins DEF Init
<1>2. LineInv /\ OpInv /\ [Next]_vars => (LineInv /\ OpInv)'
  BY LineStep, CommandStep
<1> QED BY <1>1, <1>2, PTL DEF Spec

(* The type invariant of the tool, the command it runs included.            *)
THEOREM TypeCorrect == Spec => []TypeOK
<1>1. LineInv /\ OpInv => TypeOK
  BY DEF LineInv, LineTypes, OpInv, TypeOK
<1> QED BY <1>1, CommandInvariant, PTL

(* Whatever fails and wherever it is in the line, no command but the        *)
(* careless prints a variable without the answer to the call last made to   *)
(* fill it.                                                                 *)
THEOREM ShownIsRead == Spec => []ShownWasRead
<1>1. OpInv => ShownWasRead
  BY DEF OpInv
<1> QED BY <1>1, CommandInvariant, PTL

=============================================================================

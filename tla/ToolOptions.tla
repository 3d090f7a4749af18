----------------------------- MODULE ToolOptions -----------------------------
(***************************************************************************)
(* The words of apml_tool's command line: the options each of its two      *)
(* parsers knows, what kind of word a check accepts, which arguments the   *)
(* validation demands of an option and which ones its operation then reads.*)
(* Demand and use are written in different places of the tool (an if per   *)
(* group of options, a case per option); they are separate tables here.    *)
(***************************************************************************)
EXTENDS Integers, Sequences, TableLookup

(***************************************************************************)
(* Arguments, by what the tool's checks and conversions tell apart: dec 1,  *)
(* wide 300 (more than eight bits), hex c, prefixed 0xc, real 1.5, minus    *)
(* -5, word xyz.                                                            *)
(***************************************************************************)
Kinds == {"dec", "wide", "hex", "prefixed", "real", "minus", "word"}
Width == [dec |-> 1, wide |-> 9, hex |-> 4, prefixed |-> 4]

(* validate_number in the three bases it is called with, and strtof with a  *)
(* test of where it stopped: base 0 and 10 want a digit first.              *)
Passes(check, kind) ==
  CASE check = "any"  -> TRUE
    [] check = "10"   -> kind \in {"dec", "wide"}
    [] check = "0"    -> kind \in {"dec", "wide", "prefixed"}
    [] check = "16"   -> kind \in {"dec", "wide", "hex", "prefixed", "minus"}
    [] check = "real" -> kind \in {"dec", "wide", "prefixed", "real", "minus"}

(* Whether a conversion hands the operation the number the user wrote: atoi *)
(* and strtoul give 0 for a word and stop at the first character that does  *)
(* not belong, and the parameter or field keeps so many bits.               *)
Reads(how, bits) == [how |-> how, bits |-> bits]
Converts(use, kind) ==
  CASE use.how = "text" -> TRUE
    [] use.how = "atof" -> kind \notin {"hex", "word"}
    [] use.how = "atoi" -> kind \in {"dec", "wide"} /\ Width[kind] <= use.bits
    [] use.how = "hex"  -> /\ kind \in {"dec", "wide", "hex", "prefixed"}
                           /\ Width[kind] <= use.bits

(***************************************************************************)
(* parseesb_args: the options without an argument and with one.  "Char" are*)
(* the ones getopt_long returns as a character, "Flag" the ones for which  *)
(* it returns 0 and leaves their number in flag.                           *)
(***************************************************************************)
CharPlain == {"help", "version", "showmailboxsummary", "showpower", "showtdp"}

FlagPlain ==
  {"showddrbandwidth", "rasresetonsyncflood", "showrmiregisters",
   "showtsiregisters", "showvalidmcabanks", "showsktfreqlimit",
   "showsvitelemetryallrails", "showsktfreqrange", "enabledfpstatedynamic",
   "showfclkmclkuclk", "showprocbasefreq", "showraplpkg", "showiodbist",
   "showdramthrottle", "showprochotstatus", "showprochotresidency",
   "showucoderevision", "showpowerconsumed", "showSMTstatus",
   "showthreadspercoreandsocket", "showccxinfo", "getrasoobconfig",
   "showppinfuse", "showcclkfreqlimit", "showc0residency", "showdependency",
   "showrtc", "getsmufwversion", "getcpurailfreqpolicy", "getdfcenable",
   "getavgdramthrottle"}

CharValued ==
  {"setpowerlimit", "showboostlimit", "setapmlboostlimit",
   "setapmlsocketboostlimit", "set_and_verify_dramthrottle", "setdimmpower",
   "setdimmthermalsensor", "showdimmpower", "showdimmthermalsensor",
   "showdimmtemprangeandrefreshrate", "showPCIeconfigspacedata",
   "showrasmcamsr", "showfchresetreason", "showcclklimit", "showiobandwidth",
   "showxGMIbandwidth", "setGMI3linkwidthrange", "setxGMIlinkwidthrange",
   "APBDisable", "setlclkdpmlevel", "showraplcore", "setPCIegenratectrl",
   "setpwrefficiencymode", "setdfpstaterange", "readregister"}

(* The set-and-report options of SB-TSI, numbered 1200 and above.           *)
TsiReal == {"set_verify_updaterate", "sethightempthreshold",
             "setlowtempthreshold", "settempoffset"}
TsiCount == {"settimeoutconfig", "setalertthreshold", "setalertconfig",
             "setalertmask", "setrunstop", "setreadorder", "setara"}
TsiOptions == TsiReal \cup TsiCount \cup {"showtsiregisters"}

FlagValued == TsiReal \cup TsiCount \cup
  {"writeregister", "readmsrregister", "readcpuidregister", "showccdbist",
   "showccxbist", "shownbioerrorloggingregister", "showlclkdpmlevelrange",
   "apml_recovery", "rasoverridedelay", "getpostcode",
   "clearrasstatusregister", "showrasrterrvalidityck", "showrasrterrinfo",
   "setraserrthreshold", "setrasoobconfig", "showrasdferrvaliditycheck",
   "showrasdferrdump", "readtsiregister", "writetsiregister",
   "readrmiregister", "writermiregister", "getdimmserialnum", "getspddata",
   "setpcieconfig", "setxgmipstaterange", "setcpurailfreqpolicy",
   "setdfcenable", "getchdramthrottle"}

MainPlain == CharPlain \cup FlagPlain
MainValued == CharValued \cup FlagValued
MainOptions == MainPlain \cup MainValued

(* The short forms the option string of parseesb_args adds, and one that it *)
(* lists (f, u, X, w, ...) and no case handles.                             *)
ShortForms ==
  [w \in {"-h", "-v", "-p", "-s", "-f"} |->
     CASE w = "-h" -> "help"
       [] w = "-v" -> "version"
       [] w = "-p" -> "showpower"
       [] w = "-s" -> "setpowerlimit"
       [] w = "-f" -> "unhandled"]

(* parseesb_mi300_args: its own table, all of them flags.                   *)
MiPlain ==
  {"showhbmthrottle", "showhbmbandwidth", "showpmstatus", "showlinkinfo",
   "showdiehotspotinfo", "showmemhotspotinfo", "showhoststatus",
   "showabsmaxmingfxfreq", "showactfreqcapselected", "showgfxclkfreqlimit",
   "showflckfreqlimit", "unsetxgmipstate", "showenergyacctimestamp",
   "showxccidleres", "shownumberofsockets", "clearstatistics", "showmaxdieid",
   "getcurrxgmipstate", "gethbmdeviceinfo"}
MiValued ==
  {"sethbmthrottle", "setmaxgfxcoreclock", "setmingfxcoreclock", "showpsn",
   "showhbmstacktemp", "showxgmipstates", "setxgmipstate", "showpstates",
   "setmaxpstate", "showbistresult", "showsvibasedtelemetryforindvrails",
   "querystatistics", "sethbmhightempthreshold", "sethbmlowtempthreshold",
   "sethbmalertthreshold", "sethbmalertconfig", "showdietype",
   "getoperatingtemp", "getslowdowntemp", "getpciestats"}
MiOptions == MiPlain \cup MiValued

Names == MainOptions \cup MiOptions
Tokens == Names \cup DOMAIN ShortForms \cup Kinds

(* getopt_long takes a name that is no option's but begins exactly one for  *)
(* that option.                                                             *)
Begins(short, long) ==
  Len(short) < Len(long) /\ SubSeq(long, 1, Len(short)) = short
LongerNames(name, options) == {o \in options : Begins(name, o)}

(* Of all the names of the two tables this is the only such one, of the     *)
(* first table, and the second table has none.                              *)
MainLonger == [setxgmipstate |-> "setxgmipstaterange"]
MiLonger   == [name \in {} |-> "none"]

ASSUME ToolLongerAssumption ==
  /\ \A name \in Names \ MainOptions :
       LongerNames(name, MainOptions) =
         IF name \in DOMAIN MainLonger THEN {MainLonger[name]} ELSE {}
  /\ \A name \in Names \ MiOptions : LongerNames(name, MiOptions) = {}

(***************************************************************************)
(* The validation of parseesb_args, one operator for each of its groups.   *)
(* args are the words from argv[optind - 1] on; a complaint ends the tool. *)
(* A word that begins with '-' is an option or a negative number.          *)
(***************************************************************************)
Dashed(w) == w \in Names \/ w \in DOMAIN ShortForms \/ w = "minus"
Wrong(check, w) ==
  IF w \in Kinds THEN ~Passes(check, w) ELSE check # "any"
Short(args, n, undashed) ==
  Len(args) < n \/ \E i \in undashed : Dashed(args[i])

SimpleFlags == {"showccdbist", "showccxbist", "apml_recovery",
  "clearrasstatusregister", "showrasrterrvalidityck",
  "showrasdferrvaliditycheck", "setpcieconfig", "setxgmipstaterange",
  "setcpurailfreqpolicy", "setdfcenable"}
HexFlags == {"readtsiregister", "readrmiregister", "getdimmserialnum",
             "getchdramthrottle"}

(* The characters on the list of the first block, less those with a         *)
(* hexadecimal argument.                                                    *)
Listed == {"setpowerlimit", "showboostlimit", "setapmlboostlimit",
  "setapmlsocketboostlimit", "set_and_verify_dramthrottle",
  "showPCIeconfigspacedata", "showrasmcamsr", "showfchresetreason",
  "showcclklimit", "setGMI3linkwidthrange", "setxGMIlinkwidthrange",
  "APBDisable", "showraplcore", "setPCIegenratectrl", "setpwrefficiencymode"}

(* The first block.  Its list of options begins with the characters, but    *)
(* every test of the word itself is for flags: a character option's first   *)
(* argument is not looked at.                                               *)
OneArgumentWrong(o, args) ==
  \/ o \in SimpleFlags /\ (Wrong("0", args[1]) \/ Wrong("10", args[1]))
  \/ o \in HexFlags /\ (Wrong("0", args[1]) \/ Wrong("16", args[1]))
  \/ o \in TsiReal /\ Wrong("real", args[1])
  \/ o \in TsiCount /\ Wrong("10", args[1])

(* Mutant: most of the options are not in the list. *)
TwoArgumentsWrongFew(o, args) ==
  /\ o \in {"setapmlboostlimit", "showrasmcamsr", "writetsiregister",
            "writermiregister", "setxgmipstaterange"}
  /\ Short(args, 2, {2})

TwoArgumentsWrong(o, args) ==
  /\ o \in {"setapmlboostlimit", "showrasmcamsr", "showiobandwidth",
            "setGMI3linkwidthrange", "showxGMIbandwidth",
            "setxGMIlinkwidthrange", "setdfpstaterange", "readregister",
            "readmsrregister", "showrasrterrvalidityck", "writetsiregister",
            "writermiregister", "setxgmipstaterange"}
  /\ \/ Short(args, 2, {2})
     \/ o \in {"writetsiregister", "writermiregister"} /\ Wrong("16", args[1])
     \/ o = "setdfpstaterange" /\ Wrong("10", args[1])
     \/ /\ o \notin {"showiobandwidth", "readregister", "showxGMIbandwidth"}
        /\ Wrong("10", args[2])

ThreeArgumentsWrong(o, args) ==
  \/ o = "shownbioerrorloggingregister" /\ Short(args, 2, {2})
  \/ /\ o \in {"setlclkdpmlevel", "writeregister"}
     /\ \/ Short(args, 3, {2, 3})
        \/ o = "setlclkdpmlevel" /\ \E i \in {1, 2} : Wrong("10", args[i])
        \/ o = "writeregister" /\ Wrong("16", args[2])
        \/ Wrong("10", args[3])
  \/ /\ o \in {"readcpuidregister", "rasoverridedelay", "showrasrterrinfo",
               "setraserrthreshold", "showrasdferrdump"}
     /\ \/ Short(args, 3, {2, 3})
        \/ o # "readcpuidregister" /\ \E i \in {1, 2} : Wrong("10", args[i])
        \/ Wrong("10", args[3])
  \/ o = "setdimmpower" /\ (Short(args, 3, {2, 3})
                              \/ \E i \in {2, 3} : Wrong("10", args[i]))
  \/ o = "setdimmthermalsensor" /\ (Short(args, 3, {3}) \/ Wrong("10", args[3]))

MoreArgumentsWrong(o, args) ==
  \/ o = "getspddata" /\ (Short(args, 4, 2..4)
                            \/ \E i \in 1..4 : Wrong("16", args[i]))
  \/ o = "showPCIeconfigspacedata" /\ (Short(args, 5, 2..5)
                            \/ \E i \in {2, 5} : Wrong("10", args[i]))
  \/ o = "setpcieconfig" /\ (Short(args, 6, 2..6) \/ Wrong("10", args[2])
                            \/ \E i \in 3..6 : Wrong("16", args[i]))
  \/ o = "setrasoobconfig" /\ (Short(args, 5, 2..5)
                            \/ \E i \in 1..5 : Wrong("10", args[i]))

Wrongly(o, args) == \/ OneArgumentWrong(o, args)
                    \/ TwoArgumentsWrong(o, args)
                    \/ ThreeArgumentsWrong(o, args)
                    \/ MoreArgumentsWrong(o, args)

(***************************************************************************)
(* The cases of the dispatch: for each option the conversions its case     *)
(* makes, of argv[optind - 1], argv[optind], ... in this order.            *)
(***************************************************************************)
Dec(n) == Reads("atoi", n)
Hex(n) == Reads("hex", n)
Real == Reads("atof", 32)
Text == Reads("text", 32)

(* Flags 14 to 42. *)
EarlyFlagReads ==
  [ writeregister  |-> <<Text, Hex(32), Dec(32)>>,
    readmsrregister |-> <<Hex(32), Dec(32)>>,
    readcpuidregister |-> <<Hex(32), Hex(32), Dec(32)>>,
    showccdbist    |-> <<Dec(32)>>,
    showccxbist    |-> <<Dec(32)>>,
    shownbioerrorloggingregister |-> <<Hex(8), Hex(24)>>,
    showlclkdpmlevelrange |-> <<Dec(8)>>,
    apml_recovery  |-> <<Dec(8)>>,
    rasoverridedelay |-> <<Dec(8), Dec(1), Dec(1)>>,
    getpostcode    |-> <<Text>>,
    clearrasstatusregister |-> <<Dec(8)>>,
    showrasrterrvalidityck |-> <<Dec(2), Dec(1)>>,
    showrasrterrinfo |-> <<Dec(8), Dec(8), Dec(8)>>,
    setraserrthreshold |-> <<Dec(2), Dec(16), Dec(4)>>,
    setrasoobconfig |-> <<Dec(1), Dec(2), Dec(5), Dec(1), Dec(1)>>,
    showrasdferrvaliditycheck |-> <<Dec(8)>>,
    showrasdferrdump |-> <<Dec(8), Dec(8), Dec(8)>> ]

(* Flags 46 to 64 and the SB-TSI ones. *)
LateFlagReads ==
  [ readtsiregister |-> <<Hex(32)>>, writetsiregister |-> <<Hex(32), Dec(32)>>,
    readrmiregister |-> <<Hex(32)>>, writermiregister |-> <<Hex(32), Dec(32)>>,
    getdimmserialnum |-> <<Hex(8)>>,
    getspddata     |-> <<Hex(8), Hex(4), Hex(11), Hex(1)>>,
    setpcieconfig  |-> <<Dec(4), Dec(12), Hex(8), Hex(5), Hex(3), Hex(32)>>,
    setxgmipstaterange |-> <<Dec(8), Dec(8)>>,
    setcpurailfreqpolicy |-> <<Dec(8)>>,
    setdfcenable   |-> <<Dec(8)>>,
    getchdramthrottle |-> <<Hex(8)>> ]

CharReads ==
  [ setpowerlimit  |-> <<Dec(32)>>, showboostlimit |-> <<Dec(32)>>,
    setapmlboostlimit |-> <<Dec(32), Dec(32)>>,
    setapmlsocketboostlimit |-> <<Dec(32)>>,
    set_and_verify_dramthrottle |-> <<Dec(32)>>,
    setdimmpower   |-> <<Hex(8), Dec(15), Dec(9)>>,
    setdimmthermalsensor |-> <<Hex(8), Real, Dec(9)>>,
    showPCIeconfigspacedata |-> <<Dec(4), Dec(12), Hex(8), Hex(5), Dec(3)>>,
    showrasmcamsr  |-> <<Dec(16), Dec(16)>>, showfchresetreason |-> <<Dec(32)>>,
    showdimmtemprangeandrefreshrate |-> <<Hex(8)>>,
    showdimmpower  |-> <<Hex(8)>>, showdimmthermalsensor |-> <<Hex(8)>>,
    showcclklimit  |-> <<Dec(32)>>,
    showiobandwidth |-> <<Text, Text>>, showxGMIbandwidth |-> <<Text, Text>>,
    setGMI3linkwidthrange |-> <<Dec(16), Dec(16)>>,
    setxGMIlinkwidthrange |-> <<Dec(16), Dec(16)>>,
    APBDisable     |-> <<Dec(8)>>, setlclkdpmlevel |-> <<Dec(8), Dec(8), Dec(8)>>,
    setPCIegenratectrl |-> <<Dec(8)>>, setpwrefficiencymode |-> <<Dec(8)>>,
    showraplcore   |-> <<Dec(32)>>, setdfpstaterange |-> <<Dec(8), Dec(8)>>,
    readregister   |-> <<Text, Hex(32)>> ]

MainReads ==
  [o \in MainOptions |->
     CASE o \in MainPlain             -> << >>
       [] o \in TsiReal               -> <<Real>>
       [] o \in TsiCount              -> <<Dec(32)>>
       [] o \in DOMAIN EarlyFlagReads -> EarlyFlagReads[o]
       [] o \in DOMAIN LateFlagReads  -> LateFlagReads[o]
       [] o \in DOMAIN CharReads      -> CharReads[o]]

(***************************************************************************)
(* The same two tables of parseesb_mi300_args.                             *)
(***************************************************************************)
MiTwo == {"showsvibasedtelemetryforindvrails", "querystatistics"}
MiReal == {"sethbmhightempthreshold", "sethbmlowtempthreshold"}

(* Before the command, and only for an option that was found. *)
MiFirstWrong(o, args) ==
  \/ o \in MiReal /\ Wrong("real", args[1])
  \/ /\ o \in MiValued \ (MiReal \cup MiTwo \cup {"getpciestats"})
     /\ Wrong("10", args[1])

(* For the command the flag names, found or left from the option before. *)
MiTwoWrong(o, args) ==
  o \in MiTwo /\ (Short(args, 2, {2}) \/ \E i \in {1, 2} : Wrong("10", args[i]))

MiReads ==
  [o \in MiOptions |->
     CASE o \in MiPlain -> << >>
       [] o \in MiReal -> <<Real>>
       [] o = "showsvibasedtelemetryforindvrails" -> <<Dec(2), Dec(3)>>
       [] o = "querystatistics" -> <<Dec(16), Dec(16)>>
       [] o \in {"showxgmipstates", "sethbmalertthreshold"} -> <<Dec(8)>>
       [] OTHER -> <<Dec(32)>>]
=============================================================================

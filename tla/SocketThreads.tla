---------------------------- MODULE SocketThreads ----------------------------
(***************************************************************************)
(* The threads of a socket, as esmi_rmi.c counts them and esmi_cpuid_msr.c *)
(* addresses them.  A CPUID or MSR call asks SB-RMI for its revision and   *)
(* for the number of threads, refuses a thread that is not there, and      *)
(* sends one message per result; a call that reads one register for each   *)
(* group of eight threads first finds out which registers there are, some  *)
(* of them by a CPUID call.  Each access is an ioctl that may fail, and    *)
(* the host may restart between two of them with another number of         *)
(* threads (SMT or cores switched on or off): the BMC keeps running.       *)
(*                                                                         *)
(* No call shares state with another one: one caller, one call at a time.  *)
(***************************************************************************)
EXTENDS Integers, Sequences

CONSTANTS
  Platforms,   (* [rev, dense] of the sockets there are                    *)
  Counts,      (* numbers of threads that a host comes up with             *)
  Asks         (* [thread, fn, sub]: what callers ask CPUID or an MSR for  *)

ASSUME PlatformAssumption ==
  Platforms \subseteq [rev : 0 .. 255, dense : BOOLEAN]
ASSUME CountAssumption == \A n \in Counts : n \in Nat /\ 0 < n /\ n < 65536
ASSUME AskAssumption == \A a \in Asks : {a.thread, a.sub} \subseteq Nat

VARIABLES
  platform, threads,   (* the socket, and how many threads it has          *)
  at, op, ask,         (* next step; the call and what it was given        *)
  size,                (* room in the buffer the caller passed             *)
  low,                 (* the low byte of the number of threads            *)
  todo,                (* the results to ask for, in order                 *)
  out,                 (* the caller's variables for results               *)
  filled,              (* bytes stored in the caller's buffer              *)
  length,              (* registers in the table that is being read        *)
  result,              (* status of the last call                          *)
  restarted            (* history: the host restarted during the call      *)

socket == <<platform, threads>>
caller == <<op, ask, size>>
socketVars == <<socket, at, caller, low, todo, out, filled, length, result, restarted>>

Outcome == {"ok", "invalid_thread", "unexpected_size", "failed"}
Unset == <<>>

(* What each call asks of a thread, in this order. *)
Registers == <<"eax", "ebx", "ecx", "edx">>
Results == [cpuid     |-> Registers,
            msr       |-> <<"msr">>,
            enable    |-> Registers,
            status    |-> Registers,
            per_core  |-> <<"ebx">>,
            cores     |-> <<"ebx">>,
            per_l3    |-> <<"eax">>,
            count     |-> <<>>,
            thread_cs |-> <<"cs">>]
Ops == DOMAIN Results
Validated == {"cpuid", "msr", "enable", "status"}
Tables == {"enable", "status"}

(* What a call asks for that takes no thread from its caller. *)
ProcessorInfo == [thread |-> 0, fn |-> "1", sub |-> 0]
OwnAsk == [enable    |-> ProcessorInfo,
           status    |-> ProcessorInfo,
           per_core  |-> [thread |-> 0, fn |-> "8000001e", sub |-> 0],
           cores     |-> [thread |-> 0, fn |-> "b", sub |-> 1],
           per_l3    |-> [thread |-> 0, fn |-> "8000001d", sub |-> 3],
           count     |-> ProcessorInfo,
           thread_cs |-> ProcessorInfo]

(* One register per eight threads, by the revision and the model. *)
EnableLength(rev, dense) ==
  CASE rev = 16 -> 16 [] rev = 33 /\ dense -> 48 [] OTHER -> 32
AlertLength(dense) == IF dense THEN 48 ELSE 32

(* The room a caller makes: as the tool does for the enable registers, and *)
(* either length for the alert registers, where it passes the length too.  *)
Room(o) ==
  CASE o = "enable" -> {EnableLength(platform.rev, platform.dense)}
    [] o = "status" -> {AlertLength(TRUE), AlertLength(FALSE)}
    [] OTHER -> {0}

-----------------------------------------------------------------------------
(* A CPUID message and its answer: the firmware takes four bits of the     *)
(* sub-function, and a bit that says which two registers to return.        *)
Request(a, r) ==
  [thread |-> a.thread, fn |-> a.fn, sub |-> a.sub % 16,
   read_reg |-> IF r \in {"eax", "ebx"} THEN 0 ELSE 1]

Pair(m) ==
  LET value(r) == <<r, m.thread, m.fn, m.sub>>
  IN IF m.read_reg = 0 THEN <<value("eax"), value("ebx")>>
                       ELSE <<value("ecx"), value("edx")>>

Word(r) == IF r \in {"eax", "ecx"} THEN 1 ELSE 2

(* An MSR and a register of the device have one value each. *)
Answer(a, r) ==
  IF r \in {"msr", "cs"} THEN <<r, a.thread, a.fn>>
                         ELSE Pair(Request(a, r))[Word(r)]

-----------------------------------------------------------------------------
(* Sockets of revision 0x10 have a byte that counts at most 128 threads.   *)
CountsOf(p) == IF p.rev = 16 THEN Counts \cap 1 .. 128 ELSE Counts

SocketInit ==
  /\ platform \in Platforms
  /\ threads \in CountsOf(platform)
  /\ at = "idle"
  /\ op = "count"
  /\ ask = ProcessorInfo
  /\ size = 0
  /\ low = 0
  /\ todo = <<>>
  /\ out = [r \in {"eax", "ebx", "ecx", "edx", "msr", "cs", "count"} |-> Unset]
  /\ filled = 0
  /\ length = 0
  /\ result = "failed"
  /\ restarted = FALSE

Restart ==
  /\ threads' \in CountsOf(platform)
  /\ restarted' = TRUE
  /\ UNCHANGED <<platform, at, caller, low, todo, out, filled, length, result>>

Entry(o) ==
  CASE o = "enable" -> "table_revision"
    [] o = "count" -> "number"
    [] o \in Validated \ {"enable"} -> "revision"
    [] OTHER -> "ask"

BeginCall ==
  /\ at = "idle"
  /\ op' \in Ops
  /\ ask' \in IF op' \in {"cpuid", "msr"} THEN Asks ELSE {OwnAsk[op']}
  /\ size' \in Room(op')
  /\ at' = Entry(op')
  /\ todo' = Results[op']
  /\ out' = [r \in DOMAIN out |-> Unset]
  /\ low' = 0
  /\ filled' = 0
  /\ length' = 0
  /\ result' = "failed"
  /\ restarted' = FALSE
  /\ UNCHANGED socket

Finish(status) ==
  /\ at' = "idle"
  /\ result' = status

(* Any access may fail; read_sbrmi_thread_cs says nothing of it. *)
Fail ==
  /\ at # "idle"
  /\ Finish(IF op = "thread_cs" THEN "ok" ELSE "failed")
  /\ UNCHANGED <<socket, caller, low, todo, out, filled, length, restarted>>

(* Mutant: a thread number equal to the number of threads is let through. *)
RefusesPast(n) == n # 0 /\ ask.thread > n

(* thread_num > max - 1 on 32 bits: with max = 0 no thread is refused. *)
Refuses(n) == n # 0 /\ ask.thread > n - 1

(* The number of threads is known: it is the result, or what the thread is *)
(* checked against.                                                        *)
Counted(n) ==
  /\ IF op = "count"
     THEN Finish("ok") /\ out' = [out EXCEPT !["count"] = <<n>>]
     ELSE /\ IF Refuses(n) THEN Finish("invalid_thread")
                           ELSE at' = "ask" /\ result' = result
          /\ UNCHANGED out
  /\ UNCHANGED <<socket, caller, todo, filled, length, restarted>>

(* 128 for the revision of Rome and Milan, which is not asked. *)
ReadRevision ==
  /\ at = "revision"
  /\ low' = 0
  /\ IF platform.rev = 16
     THEN Counted(128)
     ELSE at' = "number"
          /\ UNCHANGED <<socket, caller, todo, out, filled, length, result, restarted>>

(* THREADNUMBER is 0 where THREADNUMBERLOW and HIGH count the threads. *)
ReadNumber ==
  LET number == IF platform.rev = 16 THEN threads ELSE 0
  IN /\ at = "number"
     /\ low' = number
     /\ IF number # 0
        THEN Counted(number)
        ELSE at' = "low"
             /\ UNCHANGED <<socket, caller, todo, out, filled, length, result, restarted>>

ReadLow ==
  /\ at = "low"
  /\ low' = threads % 256
  /\ at' = "high"
  /\ UNCHANGED <<socket, caller, todo, out, filled, length, result, restarted>>

(* Mutant: the high byte in the place of the low one. *)
ReadHighUnshifted ==
  /\ at = "high"
  /\ Counted(threads \div 256 + low)
  /\ UNCHANGED low

ReadHigh ==
  /\ at = "high"
  /\ Counted((threads \div 256) * 256 + low)
  /\ UNCHANGED low

-----------------------------------------------------------------------------
(* Mutant: the length of the caller's buffer is not compared. *)
StartTableUnchecked(n) ==
  at' = "table" /\ length' = n /\ result' = result

StartTable(n) ==
  IF op = "status" /\ size # n
  THEN Finish("unexpected_size") /\ length' = 0
  ELSE at' = "table" /\ length' = n /\ result' = result

ReadTableRevision ==
  /\ at = "table_revision"
  /\ IF platform.rev = 33
     THEN at' = "revision" /\ UNCHANGED <<length, result>>
     ELSE StartTable(EnableLength(platform.rev, FALSE))
  /\ UNCHANGED <<socket, caller, low, todo, out, filled, restarted>>

(* All results are there: they are what was asked for, or the family and   *)
(* the model that tell how many registers to read.                         *)
Asked ==
  IF op \in Tables
  THEN StartTable(IF op = "enable" THEN EnableLength(platform.rev, platform.dense)
                                   ELSE AlertLength(platform.dense))
  ELSE Finish("ok") /\ UNCHANGED length

AskFor(a) ==
  /\ at = "ask"
  /\ a.thread < threads
  /\ out' = [out EXCEPT ![Head(todo)] = Answer(a, Head(todo))]
  /\ todo' = Tail(todo)
  /\ IF Tail(todo) = <<>> THEN Asked ELSE UNCHANGED <<at, length, result>>
  /\ UNCHANGED <<socket, caller, low, filled, restarted>>

(* Mutant: *eax instead of the copy that was made of it. *)
AskOverwritten ==
  AskFor(IF out["eax"] = Unset THEN ask ELSE [ask EXCEPT !.fn = "answer"])

(* One message.  The firmware refuses a thread that is not there: Fail. *)
Ask == AskFor(ask)

(* Mutant: i <= n for i < n. *)
ReadTableInclusive ==
  /\ at = "table"
  /\ filled' = filled + 1
  /\ IF filled + 1 > length THEN Finish("ok") ELSE UNCHANGED <<at, result>>
  /\ UNCHANGED <<socket, caller, low, todo, out, length, restarted>>

ReadTable ==
  /\ at = "table"
  /\ filled' = filled + 1
  /\ IF filled + 1 = length THEN Finish("ok") ELSE UNCHANGED <<at, result>>
  /\ UNCHANGED <<socket, caller, low, todo, out, length, restarted>>

SocketNext ==
  \/ Restart \/ BeginCall \/ Fail
  \/ ReadRevision \/ ReadNumber \/ ReadLow \/ ReadHigh
  \/ ReadTableRevision \/ Ask \/ ReadTable

SocketSpec == SocketInit /\ [][SocketNext]_socketVars

-----------------------------------------------------------------------------
SocketTypeOK ==
  /\ platform \in Platforms
  /\ threads \in Counts
  /\ at \in {"idle", "table_revision", "revision", "number", "low", "high",
            "ask", "table"}
  /\ op \in Ops
  /\ ask \in Asks \cup {OwnAsk[o] : o \in DOMAIN OwnAsk}
  /\ low \in 0 .. 255
  /\ {size, filled, length} \subseteq {0} \cup 0 .. 48
  /\ \E n \in 1 .. Len(Results[op]) + 1 :
       todo = SubSeq(Results[op], n, Len(Results[op]))
  /\ result \in Outcome
  /\ restarted \in BOOLEAN

(* The calls that check their thread send no message for one that is not   *)
(* there (on revision 0x10: not one past 128), unless the host restarted   *)
(* during the call.  After a restart between the two bytes of the count,   *)
(* even a count of 0 is possible, which lets every thread through.         *)
ThreadExists ==
  at = "ask" /\ op \in Validated /\ ~restarted =>
    ask.thread < IF platform.rev = 16 THEN 128 ELSE threads

(* A call that reports success has each of its results, and they belong to *)
(* the one thread, function and sub-function the caller asked for, though  *)
(* they come in several messages and the caller's eax and ecx are          *)
(* overwritten on the way.  Not said of read_sbrmi_thread_cs, which hides  *)
(* a failed access, nor of sub-functions past 15, which wrap.  (Only       *)
(* revision 0x21 makes the call for the enable registers ask for a model.) *)
AnswersTheAsk ==
  at = "idle" /\ result = "ok" /\ op # "thread_cs" /\ ask.sub < 16
    /\ (op = "enable" => platform.rev = 33) =>
    \A i \in 1 .. Len(Results[op]) :
      LET r == Results[op][i]
      IN out[r] = IF r = "msr" THEN <<r, ask.thread, ask.fn>>
                               ELSE <<r, ask.thread, ask.fn, ask.sub>>

(* The table that a revision and a model select, found out by accesses of  *)
(* their own, fits the caller's buffer, and a successful call fills it.    *)
BufferFits ==
  /\ filled <= size
  /\ at = "idle" /\ result = "ok" /\ op \in Tables => filled = size

(* The number of threads, read in up to three bytes, is the number there   *)
(* is, across the 8-bit boundary, unless the host restarted in between.    *)
CountIsWhole ==
  at = "idle" /\ result = "ok" /\ op = "count" /\ ~restarted =>
    out["count"] = <<threads>>
=============================================================================

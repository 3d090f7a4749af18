------------------------ MODULE SocketThreads_proofs ------------------------
(***************************************************************************)
(* What SocketThreads promises, for sockets of any revision and model, any *)
(* numbers of threads and anything asked; and, in the second half, what    *)
(* ApmlTransport promises, which carries each of its messages, for any     *)
(* threads, descriptors, errors and codes of the firmware.                 *)
(***************************************************************************)
EXTENDS ApmlTransport, SocketThreads, TLAPS

Steps == {"idle", "table_revision", "revision", "number", "low", "high", "ask", "table"}

(* Where a call can be: "count" asks no thread for anything, a table starts*)
(* with its revision, and a socket of revision 0x10 has no second byte.    *)
PlaceInv ==
  /\ platform \in Platforms
  /\ threads \in CountsOf(platform)
  /\ at \in Steps
  /\ op \in Ops
  /\ ask.thread \in Nat /\ ask.sub \in Nat
  /\ low \in Nat
  /\ DOMAIN out = {"eax", "ebx", "ecx", "edx", "msr", "cs", "count"}
  /\ op = "count" => at \in {"idle", "number", "low", "high"}
  /\ at \in {"revision", "number", "low", "high"} => op \in Validated \cup {"count"}
  /\ at = "table_revision" => op = "enable"
  /\ at = "table" => op \in Tables
  /\ at \in {"low", "high"} => platform.rev # 16
  /\ at = "number" /\ op # "count" => platform.rev # 16

(* The number of threads, as far as it is known. *)
CountInv ==
  /\ at = "high" /\ ~restarted => low = threads % 256
  /\ ThreadExists
  /\ CountIsWhole

(* The room the caller made, and what is stored of it. *)
RoomInv ==
  /\ size \in Nat /\ filled \in Nat
  /\ op \in Tables => size \in Room(op)
  /\ at \notin {"table", "idle"} => filled = 0
  /\ at = "table" => length = size /\ filled < size
  /\ BufferFits

LEMMA SocketFacts ==
  ASSUME PlaceInv
  PROVE  /\ platform.rev \in 0 .. 255 /\ platform.dense \in BOOLEAN
         /\ threads \in Nat /\ threads # 0
         /\ platform.rev = 16 => threads <= 128
<1>1. platform \in [rev : 0 .. 255, dense : BOOLEAN]
  BY PlatformAssumption DEF PlaceInv
<1>2. threads \in Counts /\ (platform.rev = 16 => threads \in 1 .. 128)
  BY DEF PlaceInv, CountsOf
<1>3. threads \in Nat /\ threads # 0
  BY <1>2, CountAssumption
<1> QED BY <1>1, <1>2, <1>3

LEMMA Halves ==
  ASSUME NEW n \in Nat
  PROVE  (n \div 256) * 256 + (n % 256) = n /\ (n \div 256) \in Nat /\ n % 256 \in Nat
BY SMT

LEMMA OwnAsks ==
  ASSUME NEW o \in Ops, NEW a \in IF o \in {"cpuid", "msr"} THEN Asks ELSE {OwnAsk[o]}
  PROVE  a.thread \in Nat /\ a.sub \in Nat
<1>1. CASE o \in {"cpuid", "msr"}
  BY <1>1, AskAssumption
<1>2. CASE o \notin {"cpuid", "msr"}
  BY <1>2 DEF Ops, Results, OwnAsk, ProcessorInfo
<1> QED BY <1>1, <1>2

LEMMA TableLengths ==
  ASSUME NEW rev, NEW dense
  PROVE  EnableLength(rev, dense) \in Nat \ {0} /\ AlertLength(dense) \in Nat \ {0}
BY DEF EnableLength, AlertLength

-----------------------------------------------------------------------------
LEMMA CountedPlaces ==
  ASSUME PlaceInv, NEW n \in Nat, Counted(n), low' \in Nat,
         at \in {"revision", "number", "high"}
  PROVE  PlaceInv'
BY DEF Counted, Finish, PlaceInv, Steps, Validated, Tables, socket, caller

LEMMA TablePlaces ==
  ASSUME PlaceInv, NEW n, StartTable(n), op \in Tables,
         UNCHANGED <<socket, caller, low, out>>
  PROVE  PlaceInv'
BY DEF StartTable, Finish, PlaceInv, Steps, Tables, socket, caller

LEMMA PlaceStep ==
  ASSUME PlaceInv, [SocketNext]_socketVars
  PROVE  PlaceInv'
<1>1. CASE Restart
  BY <1>1 DEF Restart, PlaceInv, caller
<1>2. CASE BeginCall
  <2>1. /\ op' \in Ops /\ at' = Entry(op') /\ low' = 0 /\ UNCHANGED socket
        /\ DOMAIN out' = DOMAIN out
        /\ ask'.thread \in Nat /\ ask'.sub \in Nat
    BY <1>2, OwnAsks DEF BeginCall
  <2> QED BY <2>1 DEF Entry, PlaceInv, Steps, Validated, Tables, socket
<1>3. CASE Fail
  BY <1>3 DEF Fail, Finish, PlaceInv, Steps, socket, caller
<1>4. CASE ReadRevision
  <2>1. CASE platform.rev = 16
    BY <1>4, <2>1, CountedPlaces DEF ReadRevision
  <2>2. CASE platform.rev # 16
    BY <1>4, <2>2 DEF ReadRevision, PlaceInv, Steps, socket, caller
  <2> QED BY <2>1, <2>2
<1>5. CASE ReadNumber
  <2> DEFINE number == IF platform.rev = 16 THEN threads ELSE 0
  <2>1. number \in Nat /\ (number = 0 => platform.rev # 16)
    <3>1. threads \in Nat /\ threads # 0
      BY SocketFacts
    <3> QED BY <3>1
  <2>2. /\ at = "number" /\ low' = number
        /\ IF number # 0 THEN Counted(number)
           ELSE at' = "low" /\ UNCHANGED <<socket, caller, out>>
    BY <1>5 DEF ReadNumber
  <2> HIDE DEF number
  <2>3. CASE number # 0
    BY <2>1, <2>2, <2>3, CountedPlaces
  <2>4. CASE number = 0
    BY <2>1, <2>2, <2>4 DEF PlaceInv, Steps, socket, caller
  <2> QED BY <2>3, <2>4
<1>6. CASE ReadLow
  <2>1. threads % 256 \in Nat
    BY SocketFacts, SMT
  <2> QED BY <1>6, <2>1 DEF ReadLow, PlaceInv, Steps, socket, caller
<1>7. CASE ReadHigh
  <2>1. (threads \div 256) * 256 + low \in Nat
    <3>1. threads \in Nat /\ low \in Nat
      BY SocketFacts DEF PlaceInv
    <3> QED BY <3>1, SMT
  <2> QED BY <1>7, <2>1, CountedPlaces DEF ReadHigh, PlaceInv
<1>8. CASE ReadTableRevision
  <2>1. op = "enable" /\ UNCHANGED <<socket, caller, low, out>>
    BY <1>8 DEF ReadTableRevision, PlaceInv
  <2>2. CASE platform.rev = 33
    BY <1>8, <2>1, <2>2
       DEF ReadTableRevision, PlaceInv, Steps, Validated, Tables, socket, caller
  <2>3. CASE platform.rev # 33
    BY <1>8, <2>1, <2>3, TablePlaces DEF ReadTableRevision, Tables
  <2> QED BY <2>2, <2>3
<1>9. CASE Ask
  <2>1. /\ at = "ask" /\ UNCHANGED <<socket, caller, low>> /\ (Asked \/ UNCHANGED at)
        /\ DOMAIN out' = DOMAIN out
    BY <1>9 DEF Ask, AskFor
  <2>2. CASE op \in Tables /\ Asked
    <3>1. at' = "table" \/ at' = "idle"
      BY <2>2 DEF Asked, StartTable, Finish
    <3> QED BY <2>1, <2>2, <3>1 DEF PlaceInv, Steps, socket, caller
  <2>3. CASE op \notin Tables /\ Asked
    BY <2>1, <2>3 DEF Asked, Finish, PlaceInv, Steps, socket, caller
  <2>4. CASE UNCHANGED at
    BY <2>1, <2>4 DEF PlaceInv, socket, caller
  <2> QED BY <2>1, <2>2, <2>3, <2>4
<1>10. CASE ReadTable
  BY <1>10 DEF ReadTable, Finish, PlaceInv, Steps, socket, caller
<1>11. CASE UNCHANGED socketVars
  BY <1>11 DEF socketVars, PlaceInv, socket, caller
<1> QED BY <1>1, <1>2, <1>3, <1>4, <1>5, <1>6, <1>7, <1>8, <1>9, <1>10, <1>11
        DEF SocketNext

-----------------------------------------------------------------------------
(* Counted with the right number leaves the right count, or lets a thread  *)
(* through that is there.                                                  *)
LEMMA CountedRight ==
  ASSUME PlaceInv, CountInv, NEW n \in Nat \ {0}, Counted(n),
         at \in {"revision", "number", "high"},
         ~restarted /\ (op = "count" \/ platform.rev # 16) => n = threads,
         platform.rev = 16 /\ op # "count" => n = 128
  PROVE  CountInv'
<1>1. /\ UNCHANGED <<socket, caller, restarted>>
      /\ op = "count" => at' = "idle" /\ out' = [out EXCEPT !["count"] = <<n>>]
      /\ op # "count" => \/ at' = "idle"
                         \/ at' = "ask" /\ ~Refuses(n)
  BY DEF Counted, Finish
<1>2. ~Refuses(n) => ask.thread < n
  BY SMT DEF Refuses, PlaceInv
<1>3. op = "count" /\ ~restarted => out'["count"] = <<threads>>
  BY <1>1 DEF PlaceInv
<1> QED
  BY <1>1, <1>2, <1>3
  DEF CountInv, ThreadExists, CountIsWhole, Validated, socket, caller

LEMMA CountStep ==
  ASSUME PlaceInv, CountInv, [SocketNext]_socketVars
  PROVE  CountInv'
<1>1. CASE Restart
  BY <1>1 DEF Restart, CountInv, ThreadExists, CountIsWhole
<1>2. CASE BeginCall
  <2>1. /\ result' = "failed" /\ op' \in Ops /\ at' = Entry(op')
        /\ at' # "high" /\ (at' = "ask" => op' \notin Validated)
    BY <1>2 DEF BeginCall, Entry, Validated
  <2> QED BY <2>1 DEF CountInv, ThreadExists, CountIsWhole
<1>3. CASE Fail
  BY <1>3 DEF Fail, Finish, CountInv, ThreadExists, CountIsWhole, socket, caller
<1>4. CASE ReadRevision
  <2>1. op # "count"
    BY <1>4 DEF ReadRevision, PlaceInv
  <2>2. CASE platform.rev = 16
    BY <1>4, <2>1, <2>2, CountedRight DEF ReadRevision
  <2>3. CASE platform.rev # 16
    BY <1>4, <2>1, <2>3
       DEF ReadRevision, CountInv, ThreadExists, CountIsWhole, caller, socket
  <2> QED BY <2>2, <2>3
<1>5. CASE ReadNumber
  <2>1. CASE platform.rev = 16
    <3>1. threads \in Nat \ {0} /\ op = "count"
      BY <1>5, <2>1, SocketFacts DEF ReadNumber, PlaceInv
    <3> QED BY <1>5, <2>1, <3>1, CountedRight DEF ReadNumber
  <2>2. CASE platform.rev # 16
    BY <1>5, <2>2 DEF ReadNumber, CountInv, ThreadExists, CountIsWhole
  <2> QED BY <2>1, <2>2
<1>6. CASE ReadLow
  BY <1>6 DEF ReadLow, CountInv, ThreadExists, CountIsWhole, socket
<1>7. CASE ReadHigh
  <2> DEFINE n == (threads \div 256) * 256 + low
  <2>1. Counted(n) /\ at = "high" /\ low' = low
    BY <1>7 DEF ReadHigh
  <2>2. threads \in Nat /\ threads # 0 /\ low \in Nat /\ platform.rev # 16
    BY <2>1, SocketFacts DEF PlaceInv
  <2>3. n \in Nat
    BY <2>2, SMT
  <2>4. ~restarted => n = threads
    BY <2>1, <2>2, Halves DEF CountInv
  <2> HIDE DEF n
  <2>5. CASE ~restarted
    BY <2>1, <2>2, <2>3, <2>4, <2>5, CountedRight
  <2>6. CASE restarted
    BY <2>1, <2>6 DEF Counted, Finish, CountInv, ThreadExists, CountIsWhole
  <2> QED BY <2>5, <2>6
<1>8. CASE ReadTableRevision
  <2>1. op' = "enable" /\ at' # "ask" /\ at' # "high"
    BY <1>8 DEF ReadTableRevision, StartTable, Finish, PlaceInv, caller
  <2> QED BY <2>1 DEF CountInv, ThreadExists, CountIsWhole
<1>9. CASE Ask
  <2>1. /\ at = "ask" /\ UNCHANGED <<socket, caller, restarted>>
        /\ at' \in {"ask", "table", "idle"} /\ op # "count"
    BY <1>9 DEF Ask, AskFor, Asked, StartTable, Finish, PlaceInv
  <2> QED BY <2>1 DEF CountInv, ThreadExists, CountIsWhole, socket, caller
<1>10. CASE ReadTable
  BY <1>10
  DEF ReadTable, Finish, CountInv, ThreadExists, CountIsWhole, PlaceInv, Tables,
      socket, caller
<1>11. CASE UNCHANGED socketVars
  BY <1>11 DEF socketVars, CountInv, ThreadExists, CountIsWhole, socket, caller
<1> QED BY <1>1, <1>2, <1>3, <1>4, <1>5, <1>6, <1>7, <1>8, <1>9, <1>10, <1>11
        DEF SocketNext

-----------------------------------------------------------------------------
(* A table that is started has the length of the caller's buffer. *)
LEMMA StartedTableFits ==
  ASSUME PlaceInv, RoomInv, NEW n \in Nat \ {0}, StartTable(n), op \in Tables,
         at \notin {"idle", "table"}, op = "enable" => size = n,
         UNCHANGED <<socket, caller, filled>>
  PROVE  RoomInv'
<1>1. Room(op)' = Room(op)
  BY DEF Room, socket, caller
<1>2. \/ at' = "idle" /\ result' = "unexpected_size"
      \/ at' = "table" /\ length' = n /\ size = n
  BY DEF StartTable, Finish, Tables
<1>3. filled = 0 /\ size \in Nat
  BY DEF RoomInv
<1> QED BY <1>1, <1>2, <1>3, SMT DEF RoomInv, BufferFits, socket, caller

LEMMA RoomsAreNat ==
  ASSUME NEW o
  PROVE  Room(o) \subseteq Nat /\ (o \in Tables => Room(o) \subseteq Nat \ {0})
<1>1. CASE o = "enable"
  <2>1. Room(o) = {EnableLength(platform.rev, platform.dense)}
    BY <1>1 DEF Room
  <2> QED BY <2>1, TableLengths
<1>2. CASE o = "status"
  <2>1. Room(o) = {48, 32}
    BY <1>2 DEF Room, AlertLength
  <2> QED BY <2>1
<1>3. CASE o \notin Tables
  <2>1. Room(o) = {0}
    BY <1>3 DEF Room, Tables
  <2> QED BY <1>3, <2>1
<1> QED BY <1>1, <1>2, <1>3 DEF Tables

(* What leaves the buffer, the call and the socket alone, and ends neither *)
(* a table nor a call with success, is no danger to the buffer.            *)
LEMMA QuietStep ==
  ASSUME RoomInv, UNCHANGED <<platform, caller, filled>>, at \notin {"idle", "table"},
         at' # "table", op \in Tables /\ at' = "idle" => result' # "ok"
  PROVE  RoomInv'
<1>1. Room(op)' = Room(op)
  BY DEF Room, caller
<1> QED BY <1>1 DEF RoomInv, BufferFits, caller

LEMMA CountedIsQuiet ==
  ASSUME PlaceInv, NEW n, Counted(n)
  PROVE  /\ UNCHANGED <<platform, caller, filled>> /\ at' # "table"
         /\ op \in Tables /\ at' = "idle" => result' # "ok"
BY DEF Counted, Finish, Tables, socket

LEMMA RoomStep ==
  ASSUME PlaceInv, RoomInv, [SocketNext]_socketVars
  PROVE  RoomInv'
<1>1. CASE Restart
  <2>1. /\ UNCHANGED <<at, op, size, filled, length, result>> /\ Room(op)' = Room(op)
    BY <1>1 DEF Restart, Room, caller
  <2> QED BY <2>1 DEF RoomInv, BufferFits
<1>2. CASE BeginCall
  <2>1. /\ size' \in Room(op') /\ filled' = 0 /\ result' = "failed"
        /\ at' = Entry(op') /\ op' \in Ops /\ platform' = platform
    BY <1>2 DEF BeginCall, socket
  <2>2. Room(op)' = Room(op') /\ Room(op') \subseteq Nat /\ at' \notin {"table", "idle"}
    BY <2>1, RoomsAreNat DEF Room, Entry
  <2> QED BY <2>1, <2>2, SMT DEF RoomInv, BufferFits
<1>3. CASE Fail
  <2>1. /\ UNCHANGED <<op, size, filled>> /\ Room(op)' = Room(op) /\ at' = "idle"
        /\ op \in Tables => result' = "failed"
    BY <1>3 DEF Fail, Finish, Room, socket, caller, Tables
  <2> QED BY <2>1 DEF RoomInv, BufferFits
<1>4. CASE ReadRevision
  <2>1. CASE platform.rev = 16
    BY <1>4, <2>1, CountedIsQuiet, QuietStep DEF ReadRevision
  <2>2. CASE platform.rev # 16
    BY <1>4, <2>2, QuietStep DEF ReadRevision, socket
  <2> QED BY <2>1, <2>2
<1>5. CASE ReadNumber
  <2>1. \/ Counted(threads) \/ Counted(0)
        \/ at' = "low" /\ UNCHANGED <<socket, caller, filled>>
    BY <1>5 DEF ReadNumber
  <2>2. at = "number"
    BY <1>5 DEF ReadNumber
  <2>3. CASE Counted(threads) \/ Counted(0)
    BY <2>2, <2>3, CountedIsQuiet, QuietStep
  <2>4. CASE at' = "low" /\ UNCHANGED <<socket, caller, filled>>
    BY <2>2, <2>4, QuietStep DEF socket
  <2> QED BY <2>1, <2>3, <2>4
<1>6. CASE ReadLow
  BY <1>6, QuietStep DEF ReadLow, socket
<1>7. CASE ReadHigh
  <2>1. Counted((threads \div 256) * 256 + low) /\ at = "high"
    BY <1>7 DEF ReadHigh
  <2> QED BY <2>1, CountedIsQuiet, QuietStep
<1>8. CASE ReadTableRevision
  <2>1. op = "enable" /\ at = "table_revision" /\ UNCHANGED <<socket, caller, filled>>
    BY <1>8 DEF ReadTableRevision, PlaceInv
  <2>2. CASE platform.rev = 33
    BY <1>8, <2>1, <2>2, QuietStep DEF ReadTableRevision, socket
  <2>3. CASE platform.rev # 33
    <3>1. StartTable(EnableLength(platform.rev, FALSE))
      BY <1>8, <2>3 DEF ReadTableRevision
    <3>2. size = EnableLength(platform.rev, FALSE)
      BY <2>1, <2>3 DEF RoomInv, Room, Tables, EnableLength
    <3>3. EnableLength(platform.rev, FALSE) \in Nat \ {0}
      BY TableLengths
    <3> QED BY <2>1, <3>1, <3>2, <3>3, StartedTableFits DEF Tables
  <2> QED BY <2>2, <2>3
<1>9. CASE Ask
  <2>1. at = "ask" /\ UNCHANGED <<socket, caller, filled>>
    BY <1>9 DEF Ask, AskFor
  <2>2. \/ UNCHANGED at
        \/ op \notin Tables /\ at' = "idle"
        \/ op = "enable" /\ StartTable(EnableLength(platform.rev, platform.dense))
        \/ op = "status" /\ StartTable(AlertLength(platform.dense))
    BY <1>9 DEF Ask, AskFor, Asked, Finish, Tables
  <2>3. CASE UNCHANGED at \/ (op \notin Tables /\ at' = "idle")
    BY <2>1, <2>3, QuietStep DEF socket
  <2>4. CASE op = "enable" /\ StartTable(EnableLength(platform.rev, platform.dense))
    <3>1. size = EnableLength(platform.rev, platform.dense)
      BY <2>4 DEF RoomInv, Room, Tables
    <3> QED BY <2>1, <2>4, <3>1, TableLengths, StartedTableFits DEF Tables
  <2>5. CASE op = "status" /\ StartTable(AlertLength(platform.dense))
    BY <2>1, <2>5, TableLengths, StartedTableFits DEF Tables
  <2> QED BY <2>2, <2>3, <2>4, <2>5
<1>10. CASE ReadTable
  <2>1. /\ at = "table" /\ filled' = filled + 1 /\ UNCHANGED <<op, size, length>>
        /\ Room(op)' = Room(op)
        /\ \/ filled + 1 = length /\ at' = "idle"
           \/ filled + 1 # length /\ at' = "table"
    BY <1>10 DEF ReadTable, Finish, Room, socket, caller
  <2> QED BY <2>1, SMT DEF RoomInv, BufferFits
<1>11. CASE UNCHANGED socketVars
  <2>1. UNCHANGED <<at, op, size, filled, length, result, platform>>
    BY <1>11 DEF socketVars, socket, caller
  <2>2. Room(op)' = Room(op)
    BY <2>1 DEF Room
  <2> QED BY <2>1, <2>2 DEF RoomInv, BufferFits
<1> QED BY <1>1, <1>2, <1>3, <1>4, <1>5, <1>6, <1>7, <1>8, <1>9, <1>10, <1>11
        DEF SocketNext

-----------------------------------------------------------------------------
Has(s, r) == \E i \in 1 .. Len(s) : s[i] = r
OutNames == {"eax", "ebx", "ecx", "edx", "msr", "cs"}

LEMMA OneLess ==
  ASSUME NEW s \in Seq(OutNames), s # <<>>
  PROVE  /\ Tail(s) \in Seq(OutNames)
         /\ Head(s) \in OutNames
         /\ \A r : Has(s, r) => r = Head(s) \/ Has(Tail(s), r)
<1>1. Tail(s) \in Seq(OutNames) /\ Head(s) \in OutNames
  OBVIOUS
<1>2. ASSUME NEW i \in 1 .. Len(s), i # 1
      PROVE  i - 1 \in 1 .. Len(Tail(s)) /\ Tail(s)[i - 1] = s[i]
  BY <1>2
<1>3. s[1] = Head(s)
  OBVIOUS
<1>4. ASSUME NEW r, Has(s, r), r # Head(s)
      PROVE  Has(Tail(s), r)
  <2>1. PICK i \in 1 .. Len(s) : s[i] = r
    BY <1>4 DEF Has
  <2>2. i # 1
    BY <1>3, <1>4, <2>1
  <2> QED BY <1>2, <2>1, <2>2 DEF Has
<1> QED BY <1>1, <1>4

LEMMA FullLists ==
  ASSUME NEW o \in Ops
  PROVE  /\ Results[o] \in Seq(OutNames)
         /\ o # "count" => Results[o] # <<>>
         /\ \A r : ~Has(Results["count"], r)
         /\ Has(Results[o], "cs") => o = "thread_cs"
<1>1. /\ Registers \in Seq(OutNames) /\ Registers # <<>> /\ ~Has(Registers, "cs")
  BY DEF Registers, OutNames, Has
<1>2. /\ <<"msr">> \in Seq(OutNames) /\ <<"msr">> # <<>> /\ ~Has(<<"msr">>, "cs")
  BY DEF OutNames, Has
<1>3. /\ <<"ebx">> \in Seq(OutNames) /\ <<"ebx">> # <<>> /\ ~Has(<<"ebx">>, "cs")
  BY DEF OutNames, Has
<1>4. /\ <<"eax">> \in Seq(OutNames) /\ <<"eax">> # <<>> /\ ~Has(<<"eax">>, "cs")
  BY DEF OutNames, Has
<1>5. /\ <<"cs">> \in Seq(OutNames) /\ <<"cs">> # <<>>
  BY DEF OutNames
<1>6. /\ <<>> \in Seq(OutNames) /\ \A r : ~Has(<<>>, r)
  BY DEF Has
<1>7. /\ o \in {"cpuid", "enable", "status"} => Results[o] = Registers
      /\ o = "msr" => Results[o] = <<"msr">>
      /\ o \in {"per_core", "cores"} => Results[o] = <<"ebx">>
      /\ o = "per_l3" => Results[o] = <<"eax">>
      /\ o = "thread_cs" => Results[o] = <<"cs">>
      /\ o = "count" => Results[o] = <<>>
      /\ Results["count"] = <<>>
      /\ o \in {"cpuid", "enable", "status", "msr", "per_core", "cores", "per_l3",
                "thread_cs", "count"}
  BY DEF Ops, Results
<1> QED BY <1>1, <1>2, <1>3, <1>4, <1>5, <1>6, <1>7

Right(r) == out[r] = Answer(ask, r)
Relevant == op = "enable" => platform.rev = 33

(* What is not left to ask for was answered. *)
AnswerInv ==
  /\ todo \in Seq(OutNames)
  /\ at \notin {"idle", "table"} /\ op # "count" => todo # <<>>
  /\ at # "idle" => \A r : Has(Results[op], r) => Has(todo, r) \/ Right(r)
  /\ at = "table" /\ Relevant => todo = <<>>
  /\ at = "idle" /\ result = "ok" /\ op # "thread_cs" /\ Relevant =>
       \A r : Has(Results[op], r) => Right(r)

(* What changes no result, and neither starts a table nor ends a call with *)
(* success.                                                                *)
LEMMA SilentStep ==
  ASSUME AnswerInv, at # "idle", at # "table", at' # "table",
         at' = "idle" => result' # "ok" \/ op = "thread_cs",
         UNCHANGED <<platform, caller, todo, out>>
  PROVE  AnswerInv'
BY DEF AnswerInv, Right, Relevant, caller

LEMMA CountedAnswers ==
  ASSUME PlaceInv, AnswerInv, NEW n, Counted(n), at \in {"revision", "number", "high"}
  PROVE  AnswerInv'
<1>1. CASE op = "count"
  <2>1. op' = "count" /\ at' = "idle" /\ todo' = todo
    BY <1>1 DEF Counted, Finish, caller
  <2> QED BY <2>1, FullLists DEF AnswerInv, PlaceInv
<1>2. CASE op # "count"
  <2>1. /\ at' = "ask" \/ (at' = "idle" /\ result' = "invalid_thread")
        /\ UNCHANGED <<platform, caller, todo, out>>
    BY <1>2 DEF Counted, Finish, socket
  <2> QED BY <2>1, SilentStep
<1> QED BY <1>1, <1>2

LEMMA AskAnswers ==
  ASSUME PlaceInv, AnswerInv, Ask
  PROVE  AnswerInv'
<1> DEFINE first == Head(todo)
<1>1. /\ at = "ask" /\ UNCHANGED <<platform, op, ask>> /\ op # "count"
      /\ out' = [out EXCEPT ![first] = Answer(ask, first)]
      /\ todo' = Tail(todo)
      /\ Tail(todo) = <<>> \/ UNCHANGED at
  BY DEF Ask, AskFor, socket, caller, PlaceInv
<1>2. /\ todo # <<>> /\ todo \in Seq(OutNames)
      /\ \A r : Has(Results[op], r) => Has(todo, r) \/ Right(r)
  BY <1>1 DEF AnswerInv
<1>3. first \in OutNames /\ todo' \in Seq(OutNames)
  BY <1>1, <1>2, OneLess
<1>4. \A r \in OutNames : out'[r] = IF r = first THEN Answer(ask, first) ELSE out[r]
  <2>1. OutNames \subseteq DOMAIN out
    BY DEF PlaceInv, OutNames
  <2> HIDE DEF first
  <2> QED BY <1>1, <2>1
<1>5. \A r : Has(Results[op], r) => r \in OutNames
  <2>1. Results[op] \in Seq(OutNames)
    BY FullLists DEF PlaceInv
  <2> QED BY <2>1 DEF Has
<1>6. \A r : Has(Results[op], r) => Has(todo', r) \/ Right(r)'
  <2> SUFFICES ASSUME NEW r, Has(Results[op], r), ~Has(todo', r)
               PROVE  Right(r)'
    OBVIOUS
  <2>1. r \in OutNames /\ (r = first \/ Right(r))
    BY <1>1, <1>2, <1>5, OneLess
  <2>2. out'[r] = Answer(ask, r)
    BY <1>4, <2>1 DEF Right
  <2> QED BY <1>1, <2>2 DEF Right, Answer, Pair, Request, Word
<1>7. todo' = <<>> => \A r : ~Has(todo', r)
  BY DEF Has
<1>8. CASE todo' # <<>>
  BY <1>1, <1>3, <1>6, <1>8 DEF AnswerInv
<1>9. CASE todo' = <<>>
  <2>1. \A r : Has(Results[op], r) => Right(r)'
    BY <1>6, <1>7, <1>9
  <2>2. at' = "idle" \/ at' = "table"
    BY <1>1, <1>9 DEF Ask, AskFor, Asked, StartTable, Finish
  <2> QED BY <1>1, <1>3, <1>9, <2>1, <2>2 DEF AnswerInv
<1> QED BY <1>8, <1>9

LEMMA AnswerStep ==
  ASSUME PlaceInv, AnswerInv, [SocketNext]_socketVars
  PROVE  AnswerInv'
<1>1. CASE Restart
  <2>1. UNCHANGED <<platform, at, op, ask, todo, out, result>>
    BY <1>1 DEF Restart, caller
  <2> QED BY <2>1 DEF AnswerInv, Right, Relevant
<1>2. CASE BeginCall
  <2>1. /\ op' \in Ops /\ at' = Entry(op') /\ todo' = Results[op']
        /\ at' \notin {"idle", "table"}
    BY <1>2 DEF BeginCall, Entry
  <2>2. Results[op'] \in Seq(OutNames) /\ (op' # "count" => Results[op'] # <<>>)
    BY <2>1, FullLists
  <2> QED BY <2>1, <2>2 DEF AnswerInv
<1>3. CASE Fail
  <2>1. /\ UNCHANGED <<platform, caller, todo, out>> /\ at' = "idle"
        /\ result' # "ok" \/ op = "thread_cs"
    BY <1>3 DEF Fail, Finish, socket
  <2> QED BY <2>1 DEF AnswerInv, caller
<1>4. CASE ReadRevision
  <2>1. CASE platform.rev = 16
    BY <1>4, <2>1, CountedAnswers DEF ReadRevision
  <2>2. CASE platform.rev # 16
    BY <1>4, <2>2, SilentStep DEF ReadRevision, socket
  <2> QED BY <2>1, <2>2
<1>5. CASE ReadNumber
  <2>1. \/ Counted(threads) \/ Counted(0)
        \/ at' = "low" /\ UNCHANGED <<platform, caller, todo, out>>
    BY <1>5 DEF ReadNumber, socket
  <2>2. at = "number"
    BY <1>5 DEF ReadNumber
  <2> QED BY <2>1, <2>2, CountedAnswers, SilentStep
<1>6. CASE ReadLow
  BY <1>6, SilentStep DEF ReadLow, socket
<1>7. CASE ReadHigh
  BY <1>7, CountedAnswers DEF ReadHigh
<1>8. CASE ReadTableRevision
  <2>1. /\ at = "table_revision" /\ op = "enable"
        /\ UNCHANGED <<platform, caller, todo, out>>
    BY <1>8 DEF ReadTableRevision, PlaceInv, socket
  <2>2. CASE platform.rev = 33
    BY <1>8, <2>1, <2>2, SilentStep DEF ReadTableRevision
  <2>3. CASE platform.rev # 33
    <3>1. at' = "table" /\ ~Relevant'
      BY <1>8, <2>1, <2>3 DEF ReadTableRevision, StartTable, Relevant, caller
    <3> QED BY <2>1, <3>1 DEF AnswerInv, Right, caller
  <2> QED BY <2>2, <2>3
<1>9. CASE Ask
  BY <1>9, AskAnswers
<1>10. CASE ReadTable
  <2>1. /\ at = "table" /\ UNCHANGED <<platform, op, ask, todo, out>>
        /\ at' = "table" \/ at' = "idle"
    BY <1>10 DEF ReadTable, Finish, socket, caller
  <2>2. \A r : ~Has(<<>>, r)
    BY DEF Has
  <2> QED BY <2>1, <2>2 DEF AnswerInv, Right, Relevant
<1>11. CASE UNCHANGED socketVars
  BY <1>11 DEF socketVars, AnswerInv, Right, Relevant, socket, caller
<1> QED BY <1>1, <1>2, <1>3, <1>4, <1>5, <1>6, <1>7, <1>8, <1>9, <1>10, <1>11
        DEF SocketNext

LEMMA AnswersAreAsked ==
  ASSUME PlaceInv, AnswerInv
  PROVE  AnswersTheAsk
<1> SUFFICES ASSUME at = "idle", result = "ok", op # "thread_cs", ask.sub < 16,
                    op = "enable" => platform.rev = 33,
                    NEW i \in 1 .. Len(Results[op]), NEW r, r = Results[op][i]
             PROVE  out[r] = IF r = "msr" THEN <<r, ask.thread, ask.fn>>
                             ELSE <<r, ask.thread, ask.fn, ask.sub>>
  BY DEF AnswersTheAsk
<1>1. Has(Results[op], r) /\ out[r] = Answer(ask, r)
  BY DEF Has, AnswerInv, Right, Relevant
<1>2. Results[op] \in Seq(OutNames) /\ r # "cs"
  BY <1>1, FullLists DEF PlaceInv
<1>3. r \in {"eax", "ebx", "ecx", "edx", "msr"}
  BY <1>2 DEF OutNames
<1>4. ask.sub % 16 = ask.sub
  <2>1. ask.sub \in Nat
    BY DEF PlaceInv
  <2> QED BY <2>1, SMT
<1>5. CASE r = "msr"
  BY <1>1, <1>5 DEF Answer
<1>6. CASE r \in {"eax", "ebx"}
  BY <1>1, <1>4, <1>6 DEF Answer, Pair, Request, Word
<1>7. CASE r \in {"ecx", "edx"}
  BY <1>1, <1>4, <1>7 DEF Answer, Pair, Request, Word
<1> QED BY <1>3, <1>5, <1>6, <1>7

-----------------------------------------------------------------------------
SocketInv == PlaceInv /\ CountInv /\ RoomInv /\ AnswerInv

LEMMA SocketStarts == SocketInit => SocketInv
<1> SUFFICES ASSUME SocketInit
             PROVE  SocketInv
  OBVIOUS
<1>1. PlaceInv
  BY DEF SocketInit, PlaceInv, Steps, Ops, Results, ProcessorInfo, Validated, Tables
<1>2. CountInv
  BY DEF SocketInit, CountInv, ThreadExists, CountIsWhole
<1>3. RoomInv
  BY DEF SocketInit, RoomInv, BufferFits, Tables
<1>4. AnswerInv
  BY DEF SocketInit, AnswerInv
<1> QED BY <1>1, <1>2, <1>3, <1>4 DEF SocketInv

LEMMA SocketKeeps == SocketSpec => []SocketInv
<1>1. SocketInv /\ [SocketNext]_socketVars => SocketInv'
  BY PlaceStep, CountStep, RoomStep, AnswerStep DEF SocketInv
<1> QED BY <1>1, SocketStarts, PTL DEF SocketSpec

(* No message goes out for a thread that esmi_oob_cpuid, esmi_oob_read_msr *)
(* or the calls built on them could have known is not there, whatever the  *)
(* number of threads and however it is read.                               *)
THEOREM ThreadsAreThere == SocketSpec => []ThreadExists
<1>1. SocketInv => ThreadExists
  BY DEF SocketInv, CountInv
<1> QED BY <1>1, SocketKeeps, PTL

(* esmi_get_threads_per_socket counts right on every platform, any number  *)
(* of threads below 2^16, unless the host restarts meanwhile.              *)
THEOREM CountsAreWhole == SocketSpec => []CountIsWhole
<1>1. SocketInv => CountIsWhole
  BY DEF SocketInv, CountInv
<1> QED BY <1>1, SocketKeeps, PTL

(* The tables of read_sbrmi_multithreadenablestatus and of                 *)
(* read_sbrmi_alert_status never leave the caller's buffer.                *)
THEOREM TablesFit == SocketSpec => []BufferFits
<1>1. SocketInv => BufferFits
  BY DEF SocketInv, RoomInv
<1> QED BY <1>1, SocketKeeps, PTL

(* A call that succeeds answers what was asked, whichever messages it took *)
(* and whatever they overwrote.                                            *)
THEOREM AnswersAreToTheAsk == SocketSpec => []AnswersTheAsk
<1>1. SocketInv => AnswersTheAsk
  BY AnswersAreAsked DEF SocketInv
<1> QED BY <1>1, SocketKeeps, PTL

-----------------------------------------------------------------------------
(* The descriptors: each thread has its own, of its own device.            *)
TransportTyped ==
  /\ names \in [Device -> SUBSET Name]
  /\ DOMAIN fds = Fds
  /\ pc \in [Threads -> Locations]
  /\ dev \in [Threads -> Device]
  /\ DOMAIN fd = Threads
  /\ steady \in [Threads -> SUBSET Name]
  /\ \A t \in Threads : Using(t) => fd[t] \in Fds

(* What a call that was not refused for want of a file has not found yet. *)
SearchInv ==
  \A t \in Threads :
    /\ steady[t] \subseteq names[dev[t]]
    /\ FreeFds = {} => steady[t] = {}
    /\ pc[t] = "open_legacy" => "new" \notin steady[t]
    /\ pc[t] \notin {"open_new", "open_legacy"} => steady[t] = {}

LEMMA OpeningOwns ==
  ASSUME TransportTyped, DescriptorsAreOwned, NEW t \in Threads,
         pc[t] \in {"open_new", "open_legacy"},
         pc' = [pc EXCEPT ![t] = "ioctl"],
         Opens(t, "new") \/ Opens(t, "legacy")
  PROVE  (TransportTyped /\ DescriptorsAreOwned)'
<1>1. PICK f \in FreeFds :
        /\ fds' = [fds EXCEPT ![f] = dev[t]]
        /\ fd' = [fd EXCEPT ![t] = f]
        /\ steady' = [q \in Threads |->
                       IF q = t \/ FreeFds = {f} THEN {} ELSE steady[q]]
        /\ UNCHANGED <<names, dev>>
  BY DEF Opens
<1>2. f \in Fds /\ fds[f] = Free
  BY DEF FreeFds
<1>3. \A q \in Threads : Using(q) => fd[q] # f
  BY <1>2 DEF DescriptorsAreOwned, TransportTyped, Device, Free
<1>4. \A q \in Threads \ {t} : Using(q)' = Using(q) /\ fd'[q] = fd[q]
  BY <1>1 DEF Using, TransportTyped
<1>5. Using(t)' /\ fd'[t] = f
  BY <1>1 DEF Using, TransportTyped
<1>6. TransportTyped'
  <2>1. pc' \in [Threads -> Locations]
    BY DEF TransportTyped, Locations
  <2>2. steady' \in [Threads -> SUBSET Name]
    BY <1>1 DEF TransportTyped
  <2> QED BY <1>1, <1>2, <1>4, <1>5, <2>1, <2>2 DEF TransportTyped
<1>7. DescriptorsAreOwned'
  <2>1. \A q \in Threads : Using(q)' => fds'[fd'[q]] = dev'[q]
    BY <1>1, <1>2, <1>3, <1>4, <1>5 DEF DescriptorsAreOwned, TransportTyped
  <2>2. \A p, q \in Threads : Using(p)' /\ Using(q)' /\ fd'[p] = fd'[q] => p = q
    BY <1>3, <1>4, <1>5 DEF DescriptorsAreOwned
  <2>3. \A g \in Fds : fds'[g] \in Device => \E q \in Threads : Using(q)' /\ fd'[q] = g
    BY <1>1, <1>2, <1>4, <1>5 DEF DescriptorsAreOwned, TransportTyped, Using
  <2> QED BY <2>1, <2>2, <2>3 DEF DescriptorsAreOwned
<1> QED BY <1>6, <1>7

LEMMA ClosingOwns ==
  ASSUME TransportTyped, DescriptorsAreOwned, NEW t \in Threads, Close(t)
  PROVE  (TransportTyped /\ DescriptorsAreOwned)'
<1>1. /\ pc[t] = "close" /\ fds' = [fds EXCEPT ![fd[t]] = Free]
      /\ pc' = [pc EXCEPT ![t] = "done"] /\ UNCHANGED <<names, dev, fd, steady>>
  BY DEF Close, Closed, Return
<1>2. Using(t) /\ ~Using(t)' /\ fd[t] \in Fds
  BY <1>1 DEF Using, TransportTyped
<1>3. \A q \in Threads \ {t} : /\ Using(q)' = Using(q)
                               /\ Using(q) => fd[q] # fd[t]
  BY <1>1, <1>2 DEF Using, TransportTyped, DescriptorsAreOwned
<1>4. TransportTyped'
  BY <1>1, <1>2, <1>3 DEF TransportTyped, Locations
<1>5. DescriptorsAreOwned'
  <2>1. \A q \in Threads : Using(q)' => fds'[fd'[q]] = dev'[q]
    BY <1>1, <1>2, <1>3 DEF DescriptorsAreOwned, TransportTyped
  <2>2. \A p, q \in Threads : Using(p)' /\ Using(q)' /\ fd'[p] = fd'[q] => p = q
    BY <1>1, <1>2, <1>3 DEF DescriptorsAreOwned
  <2>3. ASSUME NEW g \in Fds, fds'[g] \in Device
        PROVE  \E q \in Threads : Using(q)' /\ fd'[q] = g
    <3>1. g # fd[t] /\ fds[g] \in Device
      BY <1>1, <1>2, <2>3 DEF TransportTyped, Device, Free
    <3>2. PICK q \in Threads : Using(q) /\ fd[q] = g
      BY <3>1 DEF DescriptorsAreOwned
    <3> QED BY <1>1, <1>3, <3>1, <3>2
  <2> QED BY <2>1, <2>2, <2>3 DEF DescriptorsAreOwned
<1> QED BY <1>4, <1>5

(* Steps of a thread that neither open nor close. *)
LEMMA NoOpenNoClose ==
  ASSUME TransportTyped, DescriptorsAreOwned, NEW t \in Threads,
         pc' \in [Threads -> Locations], Using(t)' = Using(t),
         \A q \in Threads \ {t} : pc'[q] = pc[q],
         dev' \in [Threads -> Device], DOMAIN fd' = Threads,
         Using(t) => dev'[t] = dev[t] /\ fd'[t] = fd[t],
         \A q \in Threads \ {t} : dev'[q] = dev[q] /\ fd'[q] = fd[q],
         steady' \in [Threads -> SUBSET Name], UNCHANGED <<names, fds>>
  PROVE  (TransportTyped /\ DescriptorsAreOwned)'
<1>1. \A q \in Threads : /\ Using(q)' = Using(q)
                         /\ Using(q) => dev'[q] = dev[q] /\ fd'[q] = fd[q]
  BY DEF Using
<1>2. TransportTyped'
  BY <1>1 DEF TransportTyped
<1>3. DescriptorsAreOwned'
  <2>1. \A q \in Threads : Using(q)' => fds'[fd'[q]] = dev'[q]
    BY <1>1 DEF DescriptorsAreOwned
  <2>2. \A p, q \in Threads : Using(p)' /\ Using(q)' /\ fd'[p] = fd'[q] => p = q
    BY <1>1 DEF DescriptorsAreOwned
  <2>3. \A g \in Fds : fds'[g] \in Device => \E q \in Threads : Using(q)' /\ fd'[q] = g
    BY <1>1 DEF DescriptorsAreOwned
  <2> QED BY <2>1, <2>2, <2>3 DEF DescriptorsAreOwned
<1> QED BY <1>2, <1>3

LEMMA ForeignOwns ==
  ASSUME TransportTyped, DescriptorsAreOwned, OpenForeign \/ CloseForeign
  PROVE  (TransportTyped /\ DescriptorsAreOwned)'
<1>1. PICK f \in Fds, w \in {Free, Foreign} :
        /\ fds[f] \in {Free, Foreign} /\ fds' = [fds EXCEPT ![f] = w]
        /\ UNCHANGED <<names, pc, dev, fd>> /\ steady' \in [Threads -> SUBSET Name]
  BY DEF OpenForeign, CloseForeign, FreeFds, thread, TransportTyped
<1>2. \A q \in Threads : Using(q)' = Using(q) /\ (Using(q) => fd[q] # f)
  BY <1>1 DEF Using, DescriptorsAreOwned, TransportTyped, Device, Free, Foreign
<1>3. TransportTyped'
  BY <1>1, <1>2 DEF TransportTyped
<1>4. DescriptorsAreOwned'
  <2>1. \A q \in Threads : Using(q)' => fds'[fd'[q]] = dev'[q]
    BY <1>1, <1>2 DEF DescriptorsAreOwned, TransportTyped
  <2>2. \A p, q \in Threads : Using(p)' /\ Using(q)' /\ fd'[p] = fd'[q] => p = q
    BY <1>1, <1>2 DEF DescriptorsAreOwned
  <2>3. \A g \in Fds : fds'[g] \in Device => \E q \in Threads : Using(q)' /\ fd'[q] = g
    BY <1>1, <1>2 DEF DescriptorsAreOwned, TransportTyped, Device, Free, Foreign
  <2> QED BY <2>1, <2>2, <2>3 DEF DescriptorsAreOwned
<1> QED BY <1>3, <1>4

LEMMA OwnStep ==
  ASSUME TransportTyped, DescriptorsAreOwned, [Next]_vars
  PROVE  (TransportTyped /\ DescriptorsAreOwned)'
<1>1. CASE Rename
  <2>1. /\ names' \in [Device -> SUBSET Name] /\ UNCHANGED <<fds, pc, dev, fd>>
        /\ steady' \in [Threads -> SUBSET Name]
    BY <1>1 DEF Rename, thread, TransportTyped
  <2> QED BY <2>1 DEF TransportTyped, DescriptorsAreOwned, Using
<1>2. CASE OpenForeign \/ CloseForeign
  BY <1>2, ForeignOwns
<1>3. ASSUME NEW t \in Threads, NEW d \in Device, NEW c \in Command, Begin(t, d, c)
      PROVE  (TransportTyped /\ DescriptorsAreOwned)'
  <2>1. /\ pc[t] = "idle" /\ pc' = [pc EXCEPT ![t] = "open_new"]
        /\ dev' = [dev EXCEPT ![t] = d] /\ UNCHANGED <<names, fds, fd>>
        /\ steady' = [steady EXCEPT ![t] = IF FreeFds = {} THEN {} ELSE names[d]]
    BY <1>3 DEF Begin, Goto
  <2> QED BY <2>1, NoOpenNoClose DEF TransportTyped, Using, Locations
<1>4. ASSUME NEW t \in Threads, Refuse(t)
      PROVE  (TransportTyped /\ DescriptorsAreOwned)'
  <2>1. pc[t] = "idle" /\ pc' = [pc EXCEPT ![t] = "done"]
        /\ UNCHANGED <<names, fds, dev, fd, steady>>
    BY <1>4 DEF Refuse, Return
  <2> QED BY <2>1, NoOpenNoClose DEF TransportTyped, Using, Locations
<1>5. ASSUME NEW t \in Threads, OpenNew(t) \/ OpenLegacy(t)
      PROVE  (TransportTyped /\ DescriptorsAreOwned)'
  <2>1. CASE /\ pc[t] = "open_new" \/ pc[t] = "open_legacy"
             /\ pc' = [pc EXCEPT ![t] = "ioctl"]
             /\ Opens(t, "new") \/ Opens(t, "legacy")
    <3>1. pc[t] \in {"open_new", "open_legacy"}
      BY <2>1
    <3>2. pc' = [pc EXCEPT ![t] = "ioctl"]
      BY <2>1, Zenon
    <3>3. Opens(t, "new") \/ Opens(t, "legacy")
      BY <2>1, Zenon
    <3> QED BY <3>1, <3>2, <3>3, OpeningOwns, Zenon
  <2>3. CASE /\ pc[t] \in {"open_new", "open_legacy"}
             /\ \E place \in {"open_legacy", "done"} : pc' = [pc EXCEPT ![t] = place]
             /\ UNCHANGED <<names, fds, dev, fd, steady>>
    BY <2>3, NoOpenNoClose DEF TransportTyped, Using, Locations
  <2> QED BY <1>5, <2>1, <2>3 DEF OpenNew, OpenLegacy, OpenLegacyAs, Goto, Return
<1>6. ASSUME NEW t \in Threads, Ioctl(t)
      PROVE  (TransportTyped /\ DescriptorsAreOwned)'
  <2>1. /\ pc[t] = "ioctl" /\ pc' = [pc EXCEPT ![t] = "close"]
        /\ UNCHANGED <<names, fds, dev, fd, steady>>
    BY <1>6 DEF Ioctl, IoctlThen, Goto
  <2> QED BY <2>1, NoOpenNoClose DEF TransportTyped, Using, Locations
<1>7. ASSUME NEW t \in Threads, Leave(t)
      PROVE  (TransportTyped /\ DescriptorsAreOwned)'
  <2>1. /\ pc[t] = "done" /\ pc' = [pc EXCEPT ![t] = "idle"]
        /\ dev' = [dev EXCEPT ![t] = "sbrmi"] /\ fd' = [fd EXCEPT ![t] = 0]
        /\ steady' = [steady EXCEPT ![t] = {}] /\ UNCHANGED <<names, fds>>
    BY <1>7 DEF Leave, Goto
  <2> QED BY <2>1, NoOpenNoClose DEF TransportTyped, Using, Locations, Device
<1>8. CASE UNCHANGED vars
  BY <1>8 DEF vars, thread, TransportTyped, DescriptorsAreOwned, Using
<1> QED BY <1>1, <1>2, <1>3, <1>4, <1>5, <1>6, <1>7, <1>8, ClosingOwns DEF Next

LEMMA SearchStep ==
  ASSUME TransportTyped, SearchInv, [Next]_vars
  PROVE  SearchInv'
<1>1. CASE Rename
  <2>1. /\ UNCHANGED <<fds, pc, dev>>
        /\ steady' = [t \in Threads |-> steady[t] \cap names'[dev[t]]]
    BY <1>1 DEF Rename, thread
  <2>2. FreeFds' = FreeFds
    BY <2>1 DEF FreeFds
  <2> QED BY <2>1, <2>2 DEF SearchInv
<1>2. CASE OpenForeign
  <2>1. PICK f \in FreeFds :
          /\ fds' = [fds EXCEPT ![f] = Foreign]
          /\ steady' = IF FreeFds = {f} THEN [t \in Threads |-> {}] ELSE steady
    BY <1>2 DEF OpenForeign
  <2>2. UNCHANGED <<names, pc, dev>>
    BY <1>2 DEF OpenForeign, thread
  <2>3. FreeFds' = FreeFds \ {f}
    BY <2>1 DEF FreeFds, TransportTyped, Free, Foreign
  <2> QED BY <2>1, <2>2, <2>3 DEF SearchInv
<1>3. CASE CloseForeign
  <2>1. PICK f \in Fds : fds[f] = Foreign /\ fds' = [fds EXCEPT ![f] = Free]
    BY <1>3 DEF CloseForeign
  <2>2. UNCHANGED <<names, pc, dev, steady>>
    BY <1>3 DEF CloseForeign, thread
  <2>3. FreeFds' # {}
    BY <2>1 DEF FreeFds, TransportTyped
  <2> QED BY <2>2, <2>3 DEF SearchInv
<1>4. ASSUME NEW t \in Threads, NEW d \in Device, NEW c \in Command, Begin(t, d, c)
      PROVE  SearchInv'
  <2>1. /\ pc' = [pc EXCEPT ![t] = "open_new"]
        /\ dev' = [dev EXCEPT ![t] = d] /\ UNCHANGED <<names, fds>>
        /\ steady' = [steady EXCEPT ![t] = IF FreeFds = {} THEN {} ELSE names[d]]
    BY <1>4 DEF Begin, Goto
  <2>2. FreeFds' = FreeFds
    BY <2>1 DEF FreeFds
  <2> QED BY <2>1, <2>2 DEF SearchInv, TransportTyped
<1>5. ASSUME NEW t \in Threads, Refuse(t)
      PROVE  SearchInv'
  <2>1. /\ pc[t] = "idle" /\ pc' = [pc EXCEPT ![t] = "done"]
        /\ UNCHANGED <<names, fds, dev, steady>>
    BY <1>5 DEF Refuse, Return
  <2> QED BY <2>1 DEF SearchInv, TransportTyped, FreeFds
<1>6. ASSUME NEW t \in Threads, NEW name, Opens(t, name),
             pc' = [pc EXCEPT ![t] = "ioctl"]
      PROVE  SearchInv'
  <2>1. PICK f \in FreeFds :
          /\ fds' = [fds EXCEPT ![f] = dev[t]]
          /\ steady' = [q \in Threads |->
                         IF q = t \/ FreeFds = {f} THEN {} ELSE steady[q]]
    BY <1>6 DEF Opens
  <2>2. UNCHANGED <<names, dev>>
    BY <1>6 DEF Opens
  <2>3. FreeFds' = FreeFds \ {f}
    BY <2>1 DEF FreeFds, TransportTyped, Free, Device
  <2> QED BY <1>6, <2>1, <2>2, <2>3 DEF SearchInv, TransportTyped
<1>7. ASSUME NEW t \in Threads, OpenNew(t)
      PROVE  SearchInv'
  <2>1. CASE ~\E name : Opens(t, name) /\ pc' = [pc EXCEPT ![t] = "ioctl"]
    <3>1. /\ pc[t] = "open_new" /\ pc' = [pc EXCEPT ![t] = "open_legacy"]
          /\ "new" \notin names[dev[t]] \/ FreeFds = {}
          /\ UNCHANGED <<names, fds, dev, steady>>
      BY <1>7, <2>1 DEF OpenNew, Goto, FailsToOpen
    <3>2. "new" \notin steady[t]
      BY <3>1 DEF SearchInv
    <3> QED BY <3>1, <3>2 DEF SearchInv, TransportTyped, FreeFds
  <2> QED BY <1>6, <2>1
<1>8. ASSUME NEW t \in Threads, OpenLegacy(t)
      PROVE  SearchInv'
  <2>1. CASE ~\E name : Opens(t, name) /\ pc' = [pc EXCEPT ![t] = "ioctl"]
    <3>1. /\ pc[t] = "open_legacy" /\ pc' = [pc EXCEPT ![t] = "done"]
          /\ "legacy" \notin names[dev[t]] \/ FreeFds = {}
          /\ UNCHANGED <<names, fds, dev, steady>>
      BY <1>8, <2>1 DEF OpenLegacy, OpenLegacyAs, Goto, Return, FailsToOpen
    <3>2. steady[t] = {}
      BY <3>1 DEF SearchInv, TransportTyped, Name
    <3> QED BY <3>1, <3>2 DEF SearchInv, TransportTyped, FreeFds
  <2> QED BY <1>6, <2>1
<1>9. ASSUME NEW t \in Threads, Ioctl(t)
      PROVE  SearchInv'
  <2>1. /\ pc[t] = "ioctl" /\ pc' = [pc EXCEPT ![t] = "close"]
        /\ UNCHANGED <<names, fds, dev, steady>>
    BY <1>9 DEF Ioctl, IoctlThen, Goto
  <2> QED BY <2>1 DEF SearchInv, TransportTyped, FreeFds
<1>10. ASSUME NEW t \in Threads, Close(t)
       PROVE  SearchInv'
  <2>1. /\ pc[t] = "close" /\ pc' = [pc EXCEPT ![t] = "done"]
        /\ fds' = [fds EXCEPT ![fd[t]] = Free] /\ UNCHANGED <<names, dev, steady>>
    BY <1>10 DEF Close, Closed, Return
  <2>2. fd[t] \in Fds
    BY <2>1 DEF TransportTyped, Using
  <2>3. FreeFds' # {}
    BY <2>1, <2>2 DEF FreeFds, TransportTyped
  <2> QED BY <2>1, <2>3 DEF SearchInv, TransportTyped
<1>11. ASSUME NEW t \in Threads, Leave(t)
       PROVE  SearchInv'
  <2>1. /\ pc' = [pc EXCEPT ![t] = "idle"] /\ dev' = [dev EXCEPT ![t] = "sbrmi"]
        /\ steady' = [steady EXCEPT ![t] = {}] /\ UNCHANGED <<names, fds>>
    BY <1>11 DEF Leave, Goto
  <2> QED BY <2>1 DEF SearchInv, TransportTyped, FreeFds
<1>12. CASE UNCHANGED vars
  BY <1>12 DEF vars, thread, SearchInv, FreeFds
<1> QED BY <1>1, <1>2, <1>3, <1>4, <1>5, <1>7, <1>8, <1>9, <1>10, <1>11, <1>12 DEF Next

LEMMA TransportInvariant ==
  Spec => [](TransportTyped /\ DescriptorsAreOwned /\ SearchInv)
<1>1. Init => TransportTyped /\ DescriptorsAreOwned /\ SearchInv
  BY DEF Init, TransportTyped, DescriptorsAreOwned, SearchInv, Using, Locations,
         Device, Free
<1>2. TransportTyped /\ DescriptorsAreOwned /\ SearchInv /\ [Next]_vars
        => (TransportTyped /\ DescriptorsAreOwned /\ SearchInv)'
  BY OwnStep, SearchStep
<1> QED BY <1>1, <1>2, PTL DEF Spec

(* However the opens and closes of apml.c's threads and of the rest of the *)
(* process mix, a thread uses only the descriptor it opened, on its own    *)
(* device, and none is left open after a call.                             *)
THEOREM DescriptorsStayOwned == Spec => []DescriptorsAreOwned
BY TransportInvariant, PTL

(* A device file that is there under either name during the whole call is  *)
(* opened, for the one that was tried first and for the other.             *)
THEOREM FilesAreFound == Spec => []FoundIfThere
<1>1. SearchInv => FoundIfThere
  BY DEF SearchInv, FoundIfThere
<1> QED BY <1>1, TransportInvariant, PTL

-----------------------------------------------------------------------------
(* What a call tells of its failure, where no errno is taken for a status  *)
(* of the library: 6, 8 and 10 are numbers of statuses that other errnos   *)
(* become, 90 has a status without a text, 91 says that the firmware       *)
(* refused.                                                                *)
Telling == \A e \in Errnos : e < 2048 /\ e \notin {6, 8, 10, 90, 91}

(* Less than that: errnos are numbers below those of the statuses that     *)
(* stand for a refusal, and not the one that the driver announces it with. *)
Apart == \A e \in Errnos : e < 2048 /\ e # EPROTOTYPE

Refusable == {"read_mailbox", "write_mailbox", "cpuid"}

(* The error of a call that is closing its file, and what is told of it.   *)
Failed(t) ==
  \/ refused[t] = NoCode /\ err[t] \in {0} \cup Errnos
  \/ /\ refused[t] \in FwCodes /\ code[t] = refused[t]
     /\ err[t] = EPROTOTYPE /\ cmd[t] \in Refusable

Named(t) ==
  err[t] # 0 =>
    IF refused[t] # NoCode
    THEN ret[t] - refused[t] = IF cmd[t] = "cpuid" THEN OOB_CPUID_MSR_ERR_BASE
                                                   ELSE OOB_MAILBOX_ERR_BASE
    ELSE Message(ret[t]) = IF err[t] \in DOMAIN Mapped
                           THEN <<"library", Mapped[err[t]]>>
                           ELSE <<"linux", err[t]>>

HoldsAnAnswer(t) ==
  buf[t] = "no_answer" => cmd[t] = "read_mailbox" /\ refused[t] = 5

ToldInv ==
  /\ pc \in [Threads -> Locations]
  /\ DOMAIN cmd = Threads /\ DOMAIN dev = Threads /\ DOMAIN err = Threads
  /\ DOMAIN code = Threads /\ DOMAIN ret = Threads /\ DOMAIN refused = Threads
  /\ buf = [t \in Threads |-> buf[t]]
  /\ \A t \in Threads :
       /\ pc[t] \notin {"idle", "done"} => cmd[t] \in Commands(dev[t])
       /\ pc[t] \notin {"close", "done"} => err[t] = 0 /\ refused[t] = NoCode
       /\ pc[t] # "done" => buf[t] = "untouched"
       /\ pc[t] = "close" => Failed(t)
       /\ Telling /\ pc[t] = "done" => Named(t)
       /\ HoldsAnAnswer(t)

LEMMA Statuses ==
  /\ \A n \in Nat : n >= 2048 => ToStatus(n) = n
  /\ \A n \in Nat : n < 2048 => ToStatus(n) \in Nat /\ ToStatus(n) < 2048
  /\ \A n \in Nat : n < 2048 /\ n \notin {6, 8, 10, 90, 91} =>
       Message(ToStatus(n)) = IF n \in DOMAIN Mapped THEN <<"library", Mapped[n]>>
                                                     ELSE <<"linux", n>>
<1> DEFINE known == {-1, 0, 1, 2, 3, 4, 5, 9, 11, 12, 13, 21, 90, 121}
<1>0. /\ DOMAIN Mapped = known
      /\ \A n \in known : Mapped[n] \in 0 .. 14
      /\ \A n \in known \ {90} : Mapped[n] \in 0 .. 13 \ {7}
  <2>1. DOMAIN Mapped = known
    BY DEF Mapped
  <2>2. \A n \in known \ {90} : Mapped[n] \in 0 .. 13 \ {7}
    BY SMTT(30) DEF Mapped, OOB_SUCCESS
  <2>3. Mapped[90] = 14
    BY DEF Mapped
  <2> QED BY <2>1, <2>2, <2>3
<1>1. \A n \in Nat : n >= 2048 => ToStatus(n) = n
  BY <1>0 DEF ToStatus
<1>2. ASSUME NEW n \in Nat, n < 2048
      PROVE  ToStatus(n) \in Nat /\ ToStatus(n) < 2048
  <2>1. CASE n \in known
    <3>1. ToStatus(n) = Mapped[n] /\ Mapped[n] \in 0 .. 14
      BY <1>0, <2>1 DEF ToStatus
    <3> QED BY <3>1
  <2>2. CASE n \notin known
    <3>1. ToStatus(n) = n
      BY <1>0, <2>2 DEF ToStatus
    <3> QED BY <1>2, <3>1
  <2> QED BY <2>1, <2>2
<1>3. ASSUME NEW n \in Nat, n < 2048, n \notin {6, 8, 10, 90, 91}
      PROVE  Message(ToStatus(n)) = IF n \in DOMAIN Mapped THEN <<"library", Mapped[n]>>
                                                           ELSE <<"linux", n>>
  <2>1. CASE n \in DOMAIN Mapped
    <3>1. ToStatus(n) = Mapped[n] /\ Mapped[n] \in 0 .. 13 \ {7}
      BY <1>0, <1>3, <2>1 DEF ToStatus
    <3> QED BY <2>1, <3>1 DEF Message, OwnTexts
  <2>2. CASE n \notin DOMAIN Mapped
    <3>1. ToStatus(n) = n /\ n \notin 0 .. 13 \ {7}
      BY <1>0, <1>3, <2>2 DEF ToStatus
    <3>2. n \notin OwnTexts
      BY <1>3, <3>1 DEF OwnTexts, OOB_CPUID_MSR_ERR_BASE, OOB_MAILBOX_ERR_BASE
    <3> QED BY <2>2, <3>1, <3>2 DEF Message
  <2> QED BY <2>1, <2>2
<1> QED BY <1>1, <1>2, <1>3

LEMMA ClosingTells ==
  ASSUME Apart, ToldInv, NEW t \in Threads, Close(t)
  PROVE  ToldInv'
<1>1. /\ pc[t] = "close" /\ pc' = [pc EXCEPT ![t] = "done"]
      /\ ret' = [ret EXCEPT ![t] = Status(t)]
      /\ buf' = [buf EXCEPT ![t] = Stored(t, Status(t))]
      /\ UNCHANGED <<dev, cmd, err, code, refused>>
  BY DEF Close, Return
<1>2. Failed(t) /\ cmd[t] \in Commands(dev[t])
  BY <1>1 DEF ToldInv
<1>3. /\ ret'[t] = Status(t) /\ buf'[t] = Stored(t, Status(t))
      /\ \A q \in Threads \ {t} : ret'[q] = ret[q] /\ buf'[q] = buf[q]
  BY <1>1 DEF ToldInv
<1>4. (Telling => Named(t)') /\ HoldsAnAnswer(t)'
  <2>1. CASE refused[t] = NoCode /\ err[t] = 0
    <3>1. Status(t) = OOB_SUCCESS
      BY <2>1 DEF Status, EPROTOTYPE, ToStatus, Mapped, OOB_SUCCESS
    <3>2. Stored(t, Status(t)) # "no_answer"
      BY <3>1 DEF Stored, Data
    <3> QED BY <1>1, <1>3, <2>1, <3>2 DEF Named, HoldsAnAnswer
  <2>2. CASE refused[t] = NoCode /\ err[t] \in Errnos
    <3>1. err[t] \in Nat /\ err[t] < 2048 /\ err[t] # EPROTOTYPE
      <4>1. err[t] \in Nat
        BY <2>2, ErrnoAssumption
      <4>2. err[t] < 2048 /\ err[t] # EPROTOTYPE
        BY <2>2 DEF Apart
      <4> QED BY <4>1, <4>2
    <3>2. Status(t) = ToStatus(err[t])
      BY <3>1 DEF Status
    <3>3. Stored(t, Status(t)) # "no_answer"
      <4>1. Status(t) # OOB_MAILBOX_ADD_ERR_DATA
        BY <3>1, <3>2, Statuses DEF OOB_MAILBOX_ADD_ERR_DATA, OOB_MAILBOX_ERR_BASE
      <4> QED BY <4>1 DEF Stored, Data
    <3>4. Telling => Message(Status(t)) = IF err[t] \in DOMAIN Mapped
                                          THEN <<"library", Mapped[err[t]]>>
                                          ELSE <<"linux", err[t]>>
      <4>1. Telling => err[t] \notin {6, 8, 10, 90, 91}
        BY <2>2 DEF Telling
      <4> QED BY <3>1, <3>2, <4>1, Statuses
    <3> QED BY <1>1, <1>3, <2>2, <3>3, <3>4 DEF Named, HoldsAnAnswer
  <2>3. CASE refused[t] # NoCode
    <3>1. /\ err[t] = EPROTOTYPE /\ code[t] = refused[t] /\ refused[t] \in 0 .. 255
          /\ cmd[t] \in Refusable
      BY <1>2, <2>3, FwCodeAssumption DEF Failed
    <3>2. dev[t] = "sbrmi"
      BY <1>2, <3>1 DEF Commands, Refusable
    <3>3. Status(t) = (IF cmd[t] = "cpuid" THEN 2048 ELSE 2304) + refused[t]
      <4>1. Status(t) = ToStatus((IF cmd[t] = "cpuid" THEN 2048 ELSE 2304) + refused[t])
        BY <3>1, <3>2 DEF Status, OOB_CPUID_MSR_ERR_BASE, OOB_MAILBOX_ERR_BASE
      <4>2. (IF cmd[t] = "cpuid" THEN 2048 ELSE 2304) + refused[t] \in Nat
            /\ (IF cmd[t] = "cpuid" THEN 2048 ELSE 2304) + refused[t] >= 2048
        BY <3>1
      <4> QED BY <4>1, <4>2, Statuses
    <3>4. Stored(t, Status(t)) = "no_answer" => cmd[t] = "read_mailbox" /\ refused[t] = 5
      BY <3>1, <3>3 DEF Stored, Data, Refusable, OOB_SUCCESS,
                        OOB_MAILBOX_ADD_ERR_DATA, OOB_MAILBOX_ERR_BASE
    <3>5. Status(t) - refused[t] = IF cmd[t] = "cpuid" THEN 2048 ELSE 2304
      BY <3>1, <3>3
    <3>6. refused'[t] = refused[t] /\ cmd'[t] = cmd[t]
      BY <1>1
    <3>7. Named(t)'
      BY <1>3, <2>3, <3>5, <3>6 DEF Named, OOB_CPUID_MSR_ERR_BASE, OOB_MAILBOX_ERR_BASE
    <3>8. HoldsAnAnswer(t)'
      BY <1>3, <3>4, <3>6 DEF HoldsAnAnswer
    <3> QED BY <3>7, <3>8
  <2>4. refused[t] = NoCode => err[t] = 0 \/ err[t] \in Errnos
    BY <1>2, FwCodeAssumption DEF Failed, NoCode
  <2> QED BY <2>1, <2>2, <2>3, <2>4, Zenon
<1>5. \A q \in Threads \ {t} :
        pc'[q] = pc[q] /\ Failed(q)' = Failed(q) /\ Named(q)' = Named(q)
          /\ HoldsAnAnswer(q)' = HoldsAnAnswer(q)
  BY <1>1, <1>3 DEF ToldInv, Failed, Named, HoldsAnAnswer
<1> QED BY <1>1, <1>3, <1>4, <1>5 DEF ToldInv, Locations

LEMMA TellingStep ==
  ASSUME Apart, ToldInv, [Next]_vars
  PROVE  ToldInv'
<1>1. ASSUME UNCHANGED <<pc, dev, cmd, err, code, ret, buf, refused>>
      PROVE  ToldInv'
  BY <1>1 DEF ToldInv, Failed, Named, HoldsAnAnswer
<1>2. ASSUME NEW t \in Threads, NEW d \in Device, NEW c \in Command, Begin(t, d, c)
      PROVE  ToldInv'
  BY <1>2 DEF Begin, Goto, ToldInv, Locations, Failed, Named, HoldsAnAnswer
<1>3. ASSUME NEW t \in Threads, NEW status, Return(t, status, "untouched"),
             pc[t] \in {"idle", "open_legacy"},
             UNCHANGED <<dev, cmd, err, code, refused>>
      PROVE  ToldInv'
  BY <1>3 DEF Return, ToldInv, Locations, Failed, Named, HoldsAnAnswer
<1>4. ASSUME NEW t \in Threads, NEW place \in {"open_legacy", "ioctl"},
             pc[t] \in {"open_new", "open_legacy"}, pc' = [pc EXCEPT ![t] = place],
             UNCHANGED <<dev, cmd, err, code, ret, buf, refused>>
      PROVE  ToldInv'
  BY <1>4 DEF ToldInv, Locations, Failed, Named, HoldsAnAnswer
<1>5. ASSUME NEW t \in Threads, OpenNew(t) \/ OpenLegacy(t)
      PROVE  ToldInv'
  <2>1. CASE /\ pc[t] \in {"open_new", "open_legacy"}
             /\ \E place \in {"open_legacy", "ioctl"} : pc' = [pc EXCEPT ![t] = place]
             /\ UNCHANGED <<dev, cmd, err, code, ret, buf, refused>>
    BY <1>4, <2>1
  <2>2. CASE /\ pc[t] = "open_legacy" /\ Return(t, OOB_FILE_ERROR, "untouched")
             /\ UNCHANGED <<dev, cmd, err, code, refused>>
    BY <1>3, <2>2
  <2> QED BY <1>5, <2>1, <2>2 DEF OpenNew, OpenLegacy, OpenLegacyAs, Goto, Opens
<1>6. ASSUME NEW t \in Threads, Ioctl(t)
      PROVE  ToldInv'
  <2>1. /\ pc[t] = "ioctl" /\ pc' = [pc EXCEPT ![t] = "close"]
        /\ UNCHANGED <<dev, cmd, ret, buf>>
        /\ \/ /\ \E e \in {0} \cup Errnos : err' = [err EXCEPT ![t] = e]
              /\ UNCHANGED <<code, refused>>
           \/ \E k \in FwCodes :
                /\ cmd[t] \in Refusable
                /\ err' = [err EXCEPT ![t] = EPROTOTYPE]
                /\ code' = [code EXCEPT ![t] = k]
                /\ refused' = [refused EXCEPT ![t] = k]
    BY <1>6 DEF Ioctl, IoctlThen, Goto, Refusable
  <2>2. Failed(t)' /\ HoldsAnAnswer(t)'
    BY <2>1 DEF ToldInv, Failed, HoldsAnAnswer
  <2>3. \A q \in Threads \ {t} :
          /\ pc'[q] = pc[q] /\ err'[q] = err[q] /\ refused'[q] = refused[q]
          /\ code'[q] = code[q]
    BY <2>1 DEF ToldInv
  <2>4. DOMAIN err' = Threads /\ DOMAIN code' = Threads /\ DOMAIN refused' = Threads
    BY <2>1 DEF ToldInv
  <2> QED BY <2>1, <2>2, <2>3, <2>4 DEF ToldInv, Locations, Failed, Named, HoldsAnAnswer
<1>7. ASSUME NEW t \in Threads, Leave(t)
      PROVE  ToldInv'
  BY <1>7 DEF Leave, Goto, ToldInv, Locations, Failed, Named, HoldsAnAnswer
<1>8. CASE Rename \/ OpenForeign \/ CloseForeign \/ UNCHANGED vars
  BY <1>1, <1>8 DEF Rename, OpenForeign, CloseForeign, vars, thread
<1>9. ASSUME NEW t \in Threads, Refuse(t)
      PROVE  ToldInv'
  BY <1>3, <1>9 DEF Refuse
<1> QED BY <1>2, <1>5, <1>6, <1>7, <1>8, <1>9, ClosingTells DEF Next

LEMMA ToldInvariant ==
  ASSUME Apart
  PROVE  Spec => []ToldInv
<1>1. Init => ToldInv
  BY DEF Init, ToldInv, Locations, Failed, Named, HoldsAnAnswer
<1>2. ToldInv /\ [Next]_vars => ToldInv'
  BY TellingStep
<1> QED BY <1>1, <1>2, PTL DEF Spec

(* esmi_get_err_msg names the failure that happened, in every interleaving *)
(* and whatever the firmware refuses with, as long as the driver fails with*)
(* no errno that apml_err.c takes for a status.                            *)
THEOREM FailuresAreNamed ==
  ASSUME Telling
  PROVE  Spec => []FailureIsNamed
<1>1. ToldInv => FailureIsNamed
  BY DEF ToldInv, Named, FailureIsNamed
<1>2. Apart
  BY DEF Telling, Apart, EPROTOTYPE
<1> QED BY <1>1, <1>2, ToldInvariant, PTL

-----------------------------------------------------------------------------
(* The calls as accesses to a device (DeviceAccess).                       *)
LEMMA OnlyZeroIsSuccess ==
  ASSUME NEW n \in Nat
  PROVE  ToStatus(n) = OOB_SUCCESS <=> n = 0
<1>1. ASSUME n \in DOMAIN Mapped
      PROVE  Mapped[n] = OOB_SUCCESS <=> n = 0
  BY <1>1, SMTT(30) DEF Mapped, OOB_SUCCESS
<1>2. 0 \in DOMAIN Mapped
  BY DEF Mapped
<1> QED BY <1>1, <1>2 DEF ToStatus, OOB_SUCCESS

LEMMA StatusTells ==
  ASSUME Apart, NEW t \in Threads, Failed(t), dev[t] \in Device,
         cmd[t] \in Commands(dev[t])
  PROVE  /\ Status(t) = OOB_SUCCESS <=> OutcomeNow(t) = "done"
         /\ Stored(t, Status(t)) =
              IF OutcomeNow(t) = "done" /\ cmd[t] \in {"read_register", "read_mailbox"}
              THEN "answer"
              ELSE IF OutcomeNow(t) = "explained" THEN "no_answer" ELSE "untouched"
<1>1. CASE refused[t] = NoCode /\ err[t] \in {0} \cup Errnos
  <2>1. err[t] \in Nat /\ err[t] < 2048 /\ err[t] # EPROTOTYPE
    <3>1. err[t] \in Nat
      <4>1. CASE err[t] = 0
        BY <4>1
      <4>2. CASE err[t] \in Errnos
        BY <4>2, ErrnoAssumption
      <4> QED BY <1>1, <4>1, <4>2
    <3>2. err[t] < 2048 /\ err[t] # EPROTOTYPE
      BY <1>1 DEF Apart, EPROTOTYPE
    <3> QED BY <3>1, <3>2
  <2>2. Status(t) = ToStatus(err[t])
    BY <2>1 DEF Status
  <2>3. Status(t) = OOB_SUCCESS <=> err[t] = 0
    BY <2>1, <2>2, OnlyZeroIsSuccess
  <2>4. Status(t) # OOB_MAILBOX_ADD_ERR_DATA
    BY <2>1, <2>2, Statuses DEF OOB_MAILBOX_ADD_ERR_DATA, OOB_MAILBOX_ERR_BASE
  <2>5. OutcomeNow(t) = IF err[t] = 0 THEN "done" ELSE "failed"
    BY <2>1 DEF OutcomeNow
  <2> QED BY <2>3, <2>4, <2>5 DEF Stored, Data
<1>2. CASE /\ refused[t] \in FwCodes /\ code[t] = refused[t]
           /\ err[t] = EPROTOTYPE /\ cmd[t] \in Refusable
  <2>1. code[t] \in 0 .. 255 /\ err[t] # 0 /\ dev[t] = "sbrmi"
    <3>1. code[t] \in 0 .. 255
      BY <1>2, FwCodeAssumption
    <3>2. err[t] # 0
      BY <1>2 DEF EPROTOTYPE
    <3>3. dev[t] = "sbrmi"
      BY <1>2 DEF Commands, Refusable
    <3> QED BY <3>1, <3>2, <3>3
  <2> DEFINE n == (IF cmd[t] = "cpuid" THEN 2048 ELSE 2304) + code[t]
  <2>2. n \in Nat /\ n >= 2048
    BY <2>1
  <2>3. Status(t) = n
    <3>1. Status(t) = ToStatus(n)
      BY <1>2, <2>1 DEF Status, OOB_CPUID_MSR_ERR_BASE, OOB_MAILBOX_ERR_BASE
    <3> HIDE DEF n
    <3> QED BY <2>2, <3>1, Statuses
  <2>4. Status(t) # OOB_SUCCESS
    BY <2>2, <2>3 DEF OOB_SUCCESS
  <2>5. OutcomeNow(t) = IF cmd[t] = "read_mailbox" /\ code[t] = 5
                        THEN "explained" ELSE "failed"
    BY <1>2, <2>1 DEF OutcomeNow, OOB_MAILBOX_ADD_ERR_DATA, OOB_MAILBOX_ERR_BASE
  <2>6. cmd[t] = "read_mailbox" => (Status(t) = OOB_MAILBOX_ADD_ERR_DATA <=> code[t] = 5)
    BY <2>1, <2>3 DEF OOB_MAILBOX_ADD_ERR_DATA, OOB_MAILBOX_ERR_BASE
  <2> QED BY <2>4, <2>5, <2>6 DEF Stored, Data
<1> QED BY <1>1, <1>2 DEF Failed

(* An answer comes from the device that the call is for.                   *)
LEMMA AnswersAreOwn ==
  /\ DescriptorsAreOwned => AnswerNow =
       [t \in Threads |-> IF pc[t] = "close" THEN <<dev[t], OutcomeNow(t)>> ELSE << >>]
  /\ DescriptorsAreOwned' => AnswerNow' =
       [t \in Threads |-> IF pc'[t] = "close" THEN <<dev'[t], OutcomeNow(t)'>> ELSE << >>]
BY DEF DescriptorsAreOwned, Using, AnswerNow

AccessInv == TransportTyped /\ DescriptorsAreOwned /\ ToldInv

LEMMA AccessStarts == Init => Access!Init
BY DEF Init, Access!Init, RequestNow, AnswerNow, ToldNow, Access!NoRequest, Access!NoAnswer

LEMMA CallAsks ==
  ASSUME AccessInv, NEW t \in Threads, NEW d \in Device, NEW c \in Command, Begin(t, d, c)
  PROVE  Access!Ask(t)
<1>1. /\ c \in Commands(d) /\ pc[t] = "idle" /\ pc' = [pc EXCEPT ![t] = "open_new"]
      /\ dev' = [dev EXCEPT ![t] = d] /\ cmd' = [cmd EXCEPT ![t] = c]
      /\ UNCHANGED <<fds, fd, err, code, ret, buf>>
  BY DEF Begin, Goto
<1>2. RequestNow[t] = << >> /\ ToldNow[t] = "nothing"
  BY <1>1 DEF RequestNow, ToldNow
<1>3. RequestNow' = [RequestNow EXCEPT ![t] = <<d, c>>]
  BY <1>1 DEF AccessInv, TransportTyped, ToldInv, RequestNow, Locations
<1>4. <<d, c>> \in Requests /\ RequestNow'[t] = <<d, c>>
  BY <1>1, <1>3 DEF Requests, RequestNow
<1>5. AnswerNow' = AnswerNow /\ ToldNow' = ToldNow
  BY <1>1 DEF AccessInv, TransportTyped, AnswerNow, OutcomeNow, ToldNow
<1> QED BY <1>1, <1>2, <1>3, <1>4, <1>5 DEF Access!Ask, Access!NoRequest

(* Neither the opening of a file nor a device that comes or goes shows.    *)
LEMMA OpeningIsQuiet ==
  ASSUME AccessInv, AccessInv', NEW t \in Threads,
         pc[t] \in {"open_new", "open_legacy"},
         \E place \in {"open_legacy", "ioctl"} : pc' = [pc EXCEPT ![t] = place],
         UNCHANGED <<dev, cmd, err, code, ret, buf>>
  PROVE  UNCHANGED Access!vars
<1>1. \A q \in Threads :
        /\ pc[q] = "close" <=> pc'[q] = "close"
        /\ pc[q] = "done" <=> pc'[q] = "done"
        /\ pc[q] \in Locations \ {"idle", "done"} <=> pc'[q] \in Locations \ {"idle", "done"}
  BY DEF AccessInv, TransportTyped, Locations
<1>2. AnswerNow' = AnswerNow
  BY <1>1, AnswersAreOwn DEF AccessInv, OutcomeNow
<1> QED BY <1>1, <1>2 DEF RequestNow, ToldNow, Access!vars

LEMMA OthersAreQuiet ==
  ASSUME AccessInv, AccessInv', UNCHANGED thread
  PROVE  UNCHANGED Access!vars
<1>1. AnswerNow' = AnswerNow
  BY AnswersAreOwn DEF AccessInv, OutcomeNow, thread
<1> QED BY <1>1 DEF RequestNow, ToldNow, Access!vars, thread

LEMMA IoctlAnswers ==
  ASSUME AccessInv, AccessInv', NEW t \in Threads, Ioctl(t)
  PROVE  Access!Answer(t)
<1>1. /\ pc[t] = "ioctl" /\ pc' = [pc EXCEPT ![t] = "close"]
      /\ UNCHANGED <<fds, dev, cmd, fd, ret, buf>>
      /\ \A q \in Threads \ {t} : err'[q] = err[q] /\ code'[q] = code[q]
  BY DEF Ioctl, IoctlThen, Goto, AccessInv, ToldInv
<1>2. /\ dev[t] \in Device /\ cmd[t] \in Commands(dev[t])
      /\ pc'[t] = "close" /\ \A q \in Threads \ {t} : pc'[q] = pc[q]
  BY <1>1 DEF AccessInv, TransportTyped, ToldInv
<1>3. /\ RequestNow[t] = <<dev[t], cmd[t]>> /\ AnswerNow[t] = << >>
      /\ RequestNow' = RequestNow /\ ToldNow' = ToldNow
  BY <1>1, <1>2 DEF RequestNow, AnswerNow, ToldNow, Locations
<1>4. PICK o \in {"done", "failed", "explained"} :
        /\ OutcomeNow(t)' = o
        /\ o = "explained" => cmd[t] = "read_mailbox"
  BY <1>1 DEF OutcomeNow
<1>5. AnswerNow' = [AnswerNow EXCEPT ![t] = <<dev[t], o>>]
  <2>1. \A q \in Threads \ {t} : OutcomeNow(q)' = OutcomeNow(q)
    BY <1>1 DEF OutcomeNow
  <2> QED BY <1>1, <1>2, <1>4, <2>1, AnswersAreOwn DEF AccessInv
<1>6. o = "explained" => RequestNow[t] \in Device \X {"read_mailbox"}
  BY <1>2, <1>3, <1>4
<1>7. RequestNow[t] # << >> /\ RequestNow[t][1] = dev[t]
  BY <1>3
<1> QED BY <1>1, <1>3, <1>4, <1>5, <1>6, <1>7
        DEF Access!Answer, Access!NoRequest, Access!NoAnswer

LEMMA CloseTells ==
  ASSUME Apart, AccessInv, AccessInv', NEW t \in Threads, Close(t)
  PROVE  Access!Tell(t)
<1>1. /\ pc[t] = "close" /\ pc' = [pc EXCEPT ![t] = "done"]
      /\ ret' = [ret EXCEPT ![t] = Status(t)]
      /\ buf' = [buf EXCEPT ![t] = Stored(t, Status(t))]
      /\ UNCHANGED <<dev, cmd, err, code>>
  BY DEF Close, Return
<1>2. /\ dev[t] \in Device /\ cmd[t] \in Commands(dev[t]) /\ Failed(t)
  BY <1>1 DEF AccessInv, TransportTyped, ToldInv
<1>3. /\ pc'[t] = "done" /\ \A q \in Threads \ {t} : pc'[q] = pc[q] /\ ret'[q] = ret[q]
      /\ ret'[t] = Status(t)
  BY <1>1 DEF AccessInv, TransportTyped, ToldInv
<1>4. /\ RequestNow[t] = <<dev[t], cmd[t]>>
      /\ RequestNow' = [RequestNow EXCEPT ![t] = << >>]
  BY <1>1, <1>3 DEF RequestNow, Locations
<1>5. AnswerNow[t] = <<dev[t], OutcomeNow(t)>>
  BY <1>1, AnswersAreOwn DEF AccessInv
<1>6. AnswerNow' = [AnswerNow EXCEPT ![t] = << >>]
  <2>1. \A q \in Threads \ {t} : OutcomeNow(q)' = OutcomeNow(q)
    BY <1>1 DEF OutcomeNow
  <2> QED BY <1>1, <1>3, <2>1, AnswersAreOwn DEF AccessInv
<1>7. Access!Outcome(t) = OutcomeNow(t)
  BY <1>5 DEF Access!Outcome, Access!NoAnswer
<1>8. ToldNow' = [ToldNow EXCEPT ![t] =
                    IF OutcomeNow(t) = "done" THEN "success" ELSE "failure"]
  <2>1. ret'[t] = OOB_SUCCESS <=> OutcomeNow(t) = "done"
    BY <1>2, <1>3, StatusTells
  <2> HIDE DEF OutcomeNow
  <2> QED BY <1>1, <1>3, <2>1 DEF ToldNow
<1>9. Stored(t, Status(t)) =
        IF OutcomeNow(t) = "done" /\ RequestNow[t] \in Device \X {"read_register", "read_mailbox"}
        THEN "answer"
        ELSE IF OutcomeNow(t) = "explained" THEN "no_answer" ELSE "untouched"
  BY <1>2, <1>4, StatusTells
<1>10. buf' = [buf EXCEPT ![t] =
                 CASE OutcomeNow(t) = "done"
                        /\ RequestNow[t] \in Device \X {"read_register", "read_mailbox"} -> "answer"
                   [] OutcomeNow(t) = "explained" -> "no_answer"
                   [] OTHER -> "untouched"]
  BY <1>1, <1>9
<1>11. RequestNow[t] # << >>
  BY <1>4
<1> HIDE DEF OutcomeNow
<1> QED
  BY <1>4, <1>6, <1>7, <1>8, <1>10, <1>11
     DEF Access!Tell, Access!NoRequest, Access!NoAnswer

LEMMA NotFoundTells ==
  ASSUME AccessInv, NEW t \in Threads, pc[t] = "open_legacy",
         AccessInv', Return(t, OOB_FILE_ERROR, "untouched"),
         UNCHANGED <<dev, cmd, err, code>>
  PROVE  Access!Tell(t)
<1>1. /\ pc' = [pc EXCEPT ![t] = "done"] /\ ret'[t] = OOB_FILE_ERROR
      /\ \A q \in Threads \ {t} : pc'[q] = pc[q] /\ ret'[q] = ret[q]
      /\ pc'[t] = "done" /\ buf' = [buf EXCEPT ![t] = "untouched"]
  BY DEF Return, AccessInv, TransportTyped, ToldInv
<1>2. /\ RequestNow[t] = <<dev[t], cmd[t]>>
      /\ RequestNow' = [RequestNow EXCEPT ![t] = << >>]
  BY <1>1 DEF RequestNow, Locations
<1>3. AnswerNow[t] = << >> /\ AnswerNow' = [AnswerNow EXCEPT ![t] = << >>]
  BY <1>1, AnswersAreOwn DEF AccessInv, OutcomeNow
<1>4. ToldNow' = [ToldNow EXCEPT ![t] = "failure"]
  <2>1. ret'[t] # OOB_SUCCESS
    BY <1>1 DEF OOB_FILE_ERROR, OOB_SUCCESS
  <2> QED BY <1>1, <2>1 DEF ToldNow
<1>5. Access!Outcome(t) = "failed"
  BY <1>3 DEF Access!Outcome, Access!NoAnswer
<1>6. RequestNow[t] # << >>
  BY <1>2
<1> QED BY <1>1, <1>2, <1>3, <1>4, <1>5, <1>6
        DEF Access!Tell, Access!NoRequest, Access!NoAnswer

LEMMA RefusalRejects ==
  ASSUME AccessInv, AccessInv', NEW t \in Threads, Refuse(t)
  PROVE  Access!Reject(t)
<1>1. PICK status \in {OOB_ARG_PTR_NULL, OOB_FILE_ERROR} : Return(t, status, "untouched")
  BY DEF Refuse
<1>2. /\ pc[t] = "idle" /\ pc'[t] = "done" /\ ret'[t] = status
      /\ \A q \in Threads \ {t} : pc'[q] = pc[q] /\ ret'[q] = ret[q]
      /\ UNCHANGED <<dev, cmd, err, code>>
  BY <1>1 DEF Refuse, Return, AccessInv, TransportTyped, ToldInv
<1>3. buf' = buf
  <2>1. buf[t] = "untouched" /\ buf = [q \in Threads |-> buf[q]]
    BY <1>2 DEF AccessInv, ToldInv
  <2>2. buf' = [buf EXCEPT ![t] = "untouched"]
    BY <1>1 DEF Return
  <2> QED BY <2>1, <2>2
<1>4. RequestNow[t] = << >> /\ RequestNow' = RequestNow
  BY <1>2 DEF RequestNow
<1>5. AnswerNow' = AnswerNow
  BY <1>2, AnswersAreOwn DEF AccessInv, OutcomeNow
<1>6. ToldNow[t] = "nothing" /\ ToldNow' = [ToldNow EXCEPT ![t] = "failure"]
  <2>1. ret'[t] # OOB_SUCCESS
    BY <1>2 DEF OOB_ARG_PTR_NULL, OOB_FILE_ERROR, OOB_SUCCESS
  <2> QED BY <1>2, <2>1 DEF ToldNow
<1> QED BY <1>3, <1>4, <1>5, <1>6 DEF Access!Reject, Access!NoRequest

LEMMA CallerLeaves ==
  ASSUME AccessInv, AccessInv', NEW t \in Threads, Leave(t)
  PROVE  Access!Leave(t)
<1>1. /\ pc[t] = "done" /\ pc'[t] = "idle"
      /\ buf' = [buf EXCEPT ![t] = "untouched"]
      /\ \A q \in Threads \ {t} :
           /\ pc'[q] = pc[q] /\ ret'[q] = ret[q] /\ err'[q] = err[q]
           /\ code'[q] = code[q] /\ dev'[q] = dev[q] /\ cmd'[q] = cmd[q]
  BY DEF Leave, Goto, AccessInv, TransportTyped, ToldInv
<1>2. RequestNow' = RequestNow
  BY <1>1 DEF RequestNow
<1>3. AnswerNow' = AnswerNow
  BY <1>1, AnswersAreOwn DEF AccessInv, OutcomeNow
<1>4. ToldNow[t] # "nothing" /\ ToldNow' = [ToldNow EXCEPT ![t] = "nothing"]
  BY <1>1 DEF ToldNow
<1> QED BY <1>1, <1>2, <1>3, <1>4 DEF Access!Leave

LEMMA AccessStep ==
  ASSUME Apart, AccessInv, AccessInv', [Next]_vars
  PROVE  [Access!Next]_(Access!vars)
<1>1. ASSUME NEW t \in Threads, NEW d \in Device, NEW c \in Command, Begin(t, d, c)
      PROVE  Access!Next
  BY <1>1, CallAsks DEF Access!Next
<1>2. ASSUME NEW t \in Threads, OpenNew(t) \/ OpenLegacy(t)
      PROVE  Access!Next \/ UNCHANGED Access!vars
  <2>1. CASE /\ pc[t] \in {"open_new", "open_legacy"}
             /\ \E place \in {"open_legacy", "ioctl"} : pc' = [pc EXCEPT ![t] = place]
             /\ UNCHANGED <<dev, cmd, err, code, ret, buf>>
    BY <2>1, OpeningIsQuiet
  <2>2. CASE /\ pc[t] = "open_legacy" /\ Return(t, OOB_FILE_ERROR, "untouched")
             /\ UNCHANGED <<dev, cmd, err, code>>
    BY <2>2, NotFoundTells DEF Access!Next
  <2> QED BY <1>2, <2>1, <2>2 DEF OpenNew, OpenLegacy, OpenLegacyAs, Goto, Opens
<1>3. ASSUME NEW t \in Threads, Ioctl(t) \/ Close(t) \/ Refuse(t) \/ Leave(t)
      PROVE  Access!Next
  BY <1>3, IoctlAnswers, CloseTells, RefusalRejects, CallerLeaves DEF Access!Next
<1>4. CASE Rename \/ OpenForeign \/ CloseForeign \/ UNCHANGED vars
  BY <1>4, OthersAreQuiet DEF Rename, OpenForeign, CloseForeign, vars
<1> QED BY <1>1, <1>2, <1>3, <1>4 DEF Next

(* The calls of apml.c implement accesses to devices, for any number of    *)
(* threads and descriptors, any errno that is no status of a refusal and   *)
(* any firmware code: the device a call is for and no other is asked once  *)
(* at most, success is told if and only if it did what was asked, and the  *)
(* buffer changes only with what it returned.                              *)
THEOREM AccessRefined ==
  ASSUME Apart
  PROVE  Spec => ImplementsAccess
<1>1. Spec => []AccessInv
  BY TransportInvariant, ToldInvariant, PTL DEF AccessInv
<1>2. AccessInv /\ AccessInv' /\ [Next]_vars => [Access!Next]_(Access!vars)
  BY AccessStep
<1> QED BY <1>1, <1>2, AccessStarts, PTL DEF Spec, ImplementsAccess, Access!Spec
=============================================================================

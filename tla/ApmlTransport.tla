---------------------------- MODULE ApmlTransport ----------------------------
(***************************************************************************)
(* How a register access, a mailbox command or a CPUID command reaches a   *)
(* device (apml.c): the device file is opened under its new name or, if    *)
(* that fails, under its old one; one ioctl; the file is closed; what the  *)
(* ioctl left in errno and in the message becomes a status (apml_err.c),   *)
(* and the answer goes to the caller's buffer.  The threads of a process   *)
(* share its table of file descriptors.                                    *)
(***************************************************************************)
EXTENDS Integers

CONSTANTS
  Threads,
  Fds,          (* the file descriptors of the process                     *)
  Errnos,       (* what an ioctl may fail with, EPROTOTYPE apart           *)
  FwCodes       (* what the firmware refuses a command with                *)

ASSUME FdAssumption == Fds \subseteq Nat /\ Fds # {}
ASSUME ErrnoAssumption == Errnos \subseteq Nat \ {0}
ASSUME FwCodeAssumption == FwCodes \subseteq 0 .. 255

(* "cpuid" stands for both commands of that class: CPUID and MCA MSR.      *)
Device == {"sbrmi", "sbtsi"}
Name == {"new", "legacy"}
Command == {"read_register", "write_register", "read_mailbox", "write_mailbox",
            "cpuid"}
Commands(d) ==
  IF d = "sbrmi" THEN Command ELSE {"read_register", "write_register"}

EPROTOTYPE == 91

(* Statuses (oob_status_t). *)
OOB_SUCCESS == 0
OOB_FILE_ERROR == 4
OOB_ARG_PTR_NULL == 8
OOB_CPUID_MSR_ERR_BASE == 2048
OOB_MAILBOX_ERR_BASE == 2304
OOB_MAILBOX_ADD_ERR_DATA == OOB_MAILBOX_ERR_BASE + 5

(* errno_to_oob_status: what each error number becomes, all others being   *)
(* passed on as they are.                                                  *)
Mapped ==
  [e \in {-1, 0, 1, 2, 3, 4, 5, 9, 11, 12, 13, 21, 90, 121} |->
     CASE e = 0 -> OOB_SUCCESS
       [] e = 3 -> 1             (* ESRCH: OOB_NOT_FOUND                   *)
       [] e = 13 -> 2            (* EACCES: OOB_PERMISSION                 *)
       [] e \in {1, 2} -> 3      (* EPERM, ENOENT: OOB_NOT_SUPPORTED       *)
       [] e \in {9, 21, -1} -> 4 (* EBADF, EISDIR, EOF: OOB_FILE_ERROR     *)
       [] e = 4 -> 5             (* EINTR: OOB_INTERRUPTED                 *)
       [] e \in {121, 5} -> 6    (* EREMOTEIO, EIO: OOB_UNEXPECTED_SIZE    *)
       [] e = 12 -> 9            (* ENOMEM: OOB_NO_MEMORY                  *)
       [] e = 11 -> 11           (* EAGAIN: OOB_TRY_AGAIN                  *)
       [] e = 90 -> 14]          (* EMSGSIZE: OOB_INVALID_MSGSIZE          *)

ToStatus(err) == IF err \in DOMAIN Mapped THEN Mapped[err] ELSE err

(* What esmi_get_err_msg says of a status: a text of the library's own, or *)
(* strerror's for the number.                                              *)
OwnTexts ==
  (0 .. 13 \ {7})
    \cup OOB_CPUID_MSR_ERR_BASE .. OOB_CPUID_MSR_ERR_BASE + 255
    \cup OOB_MAILBOX_ERR_BASE .. OOB_MAILBOX_ERR_BASE + 255
Message(status) ==
  IF status \in OwnTexts THEN <<"library", status>> ELSE <<"linux", status>>

VARIABLES
  names,       (* the names under which each device's file is there        *)
  fds,         (* what each descriptor has open: a device, Free or Foreign *)
  pc, dev, cmd, fd,  (* each thread's next step and locals                 *)
  err, code,   (* errno of the ioctl; the firmware's code in the message   *)
  ret, buf,    (* the status, and what the call left in the buffer         *)
  steady,      (* history: names there ever since the call began; none     *)
               (* once all descriptors were taken or the file was open     *)
  refused      (* history: the firmware refused the command with this      *)

thread == <<pc, dev, cmd, fd, err, code, ret, buf>>
vars == <<names, fds, thread, steady, refused>>

Free == "free"
Foreign == "foreign"
NoCode == -1
FreeFds == {f \in Fds : fds[f] = Free}

Init ==
  /\ names \in [Device -> SUBSET Name]
  /\ fds = [f \in Fds |-> Free]
  /\ pc = [t \in Threads |-> "idle"]
  /\ dev = [t \in Threads |-> "sbrmi"]
  /\ cmd = [t \in Threads |-> "read_register"]
  /\ fd = [t \in Threads |-> 0]
  /\ err = [t \in Threads |-> 0]
  /\ code = [t \in Threads |-> 0]
  /\ ret = [t \in Threads |-> OOB_SUCCESS]
  /\ buf = [t \in Threads |-> "untouched"]
  /\ steady = [t \in Threads |-> {}]
  /\ refused = [t \in Threads |-> NoCode]

-----------------------------------------------------------------------------
(* Drivers come and go, and the rest of the process opens files of its own. *)
Rename ==
  /\ \E d \in Device, n \in SUBSET Name : names' = [names EXCEPT ![d] = n]
  /\ steady' = [t \in Threads |-> steady[t] \cap names'[dev[t]]]
  /\ UNCHANGED <<fds, thread, refused>>

OpenForeign ==
  /\ \E f \in FreeFds :
       /\ fds' = [fds EXCEPT ![f] = Foreign]
       /\ steady' = IF FreeFds = {f} THEN [t \in Threads |-> {}] ELSE steady
  /\ UNCHANGED <<names, thread, refused>>

CloseForeign ==
  /\ \E f \in Fds : fds[f] = Foreign /\ fds' = [fds EXCEPT ![f] = Free]
  /\ UNCHANGED <<names, thread, steady, refused>>

-----------------------------------------------------------------------------
Goto(t, from, to) ==
  /\ pc[t] = from
  /\ pc' = [pc EXCEPT ![t] = to]

Return(t, status, stored) ==
  /\ pc' = [pc EXCEPT ![t] = "done"]
  /\ ret' = [ret EXCEPT ![t] = status]
  /\ buf' = [buf EXCEPT ![t] = stored]

(* A call with no buffer to read to, or for a socket that no board has, is *)
(* refused.                                                                *)
Refuse(t) ==
  /\ pc[t] = "idle"
  /\ \E status \in {OOB_ARG_PTR_NULL, OOB_FILE_ERROR} : Return(t, status, "untouched")
  /\ UNCHANGED <<names, fds, dev, cmd, fd, err, code, steady, refused>>

Begin(t, d, c) ==
  /\ c \in Commands(d)
  /\ Goto(t, "idle", "open_new")
  /\ dev' = [dev EXCEPT ![t] = d]
  /\ cmd' = [cmd EXCEPT ![t] = c]
  /\ steady' = [steady EXCEPT ![t] = IF FreeFds = {} THEN {} ELSE names[d]]
  /\ UNCHANGED <<names, fds, fd, err, code, ret, buf, refused>>

(* The lowest free descriptor is taken. *)
Opens(t, name) ==
  /\ name \in names[dev[t]]
  /\ \E f \in FreeFds :
       /\ \A g \in FreeFds : f <= g
       /\ fds' = [fds EXCEPT ![f] = dev[t]]
       /\ fd' = [fd EXCEPT ![t] = f]
       /\ steady' = [q \in Threads |->
                      IF q = t \/ FreeFds = {f} THEN {} ELSE steady[q]]
  /\ UNCHANGED <<names, dev, cmd, err, code, ret, buf, refused>>

FailsToOpen(t, name) == name \notin names[dev[t]] \/ FreeFds = {}

OpenNew(t) ==
  \/ Goto(t, "open_new", "ioctl") /\ Opens(t, "new")
  \/ /\ Goto(t, "open_new", "open_legacy")
     /\ FailsToOpen(t, "new")
     /\ UNCHANGED <<names, fds, dev, cmd, fd, err, code, ret, buf, steady, refused>>

OpenLegacyAs(t, name) ==
  \/ Goto(t, "open_legacy", "ioctl") /\ Opens(t, name)
  \/ /\ pc[t] = "open_legacy"
     /\ FailsToOpen(t, name)
     /\ Return(t, OOB_FILE_ERROR, "untouched")
     /\ UNCHANGED <<names, fds, dev, cmd, fd, err, code, steady, refused>>

(* Mutant: the new name is tried twice. *)
OpenNewAgain(t) == OpenLegacyAs(t, "new")

OpenLegacy(t) == OpenLegacyAs(t, "legacy")

-----------------------------------------------------------------------------
(* The driver does what it is asked, fails, or passes on that the firmware *)
(* refused the command.  A descriptor that is not open fails with EBADF.   *)
IoctlThen(t, table) ==
  /\ Goto(t, "ioctl", "close")
  /\ \/ /\ err' \in {[err EXCEPT ![t] = e] : e \in {0} \cup Errnos}
        /\ UNCHANGED <<code, refused>>
     \/ \E k \in FwCodes :
          /\ cmd[t] \in {"read_mailbox", "write_mailbox", "cpuid"}
          /\ err' = [err EXCEPT ![t] = EPROTOTYPE]
          /\ code' = [code EXCEPT ![t] = k]
          /\ refused' = [refused EXCEPT ![t] = k]
  /\ fds' = IF err'[t] = 0 THEN fds ELSE table
  /\ UNCHANGED <<names, dev, cmd, fd, ret, buf, steady>>

Closed(t) == [fds EXCEPT ![fd[t]] = Free]

(* Mutant: the path of a failure closes the file, and so does what follows. *)
IoctlClosing(t) == IoctlThen(t, Closed(t))

Ioctl(t) == IoctlThen(t, fds)

(* Mutant: every refusal is taken for one of a mailbox command. *)
StatusOfMailbox(t) ==
  IF err[t] = EPROTOTYPE THEN OOB_MAILBOX_ERR_BASE + code[t] ELSE ToStatus(err[t])

Status(t) ==
  ToStatus(CASE err[t] = EPROTOTYPE /\ dev[t] = "sbrmi" ->
                  (IF cmd[t] = "cpuid" THEN OOB_CPUID_MSR_ERR_BASE
                                       ELSE OOB_MAILBOX_ERR_BASE) + code[t]
             [] OTHER -> err[t])

(* What a message that came back with this status holds. *)
Data(status) == IF status = OOB_SUCCESS THEN "answer" ELSE "no_answer"

(* Mutant: the buffer is written whatever the status. *)
StoredAlways(t, status) ==
  IF cmd[t] \in {"read_register", "read_mailbox"} THEN Data(status) ELSE "untouched"

Stored(t, status) ==
  IF \/ cmd[t] = "read_register" /\ status = OOB_SUCCESS
     \/ cmd[t] = "read_mailbox" /\ status \in {OOB_SUCCESS, OOB_MAILBOX_ADD_ERR_DATA}
  THEN Data(status)
  ELSE "untouched"

Close(t) ==
  /\ pc[t] = "close"
  /\ fds' = Closed(t)
  /\ Return(t, Status(t), Stored(t, Status(t)))
  /\ UNCHANGED <<names, dev, cmd, fd, err, code, steady, refused>>

(* The caller is done with the result, and the locals are gone. *)
Leave(t) ==
  /\ Goto(t, "done", "idle")
  /\ err' = [err EXCEPT ![t] = 0]
  /\ code' = [code EXCEPT ![t] = 0]
  /\ ret' = [ret EXCEPT ![t] = OOB_SUCCESS]
  /\ buf' = [buf EXCEPT ![t] = "untouched"]
  /\ steady' = [steady EXCEPT ![t] = {}]
  /\ refused' = [refused EXCEPT ![t] = NoCode]
  /\ dev' = [dev EXCEPT ![t] = "sbrmi"]
  /\ cmd' = [cmd EXCEPT ![t] = "read_register"]
  /\ fd' = [fd EXCEPT ![t] = 0]
  /\ UNCHANGED <<names, fds>>

Next ==
  \/ Rename \/ OpenForeign \/ CloseForeign
  \/ \E t \in Threads :
       \/ \E d \in Device, c \in Command : Begin(t, d, c)
       \/ Refuse(t) \/ OpenNew(t) \/ OpenLegacy(t) \/ Ioctl(t) \/ Close(t) \/ Leave(t)

Spec == Init /\ [][Next]_vars

-----------------------------------------------------------------------------
Locations == {"idle", "open_new", "open_legacy", "ioctl", "close", "done"}

TypeOK ==
  /\ names \in [Device -> SUBSET Name]
  /\ fds \in [Fds -> Device \cup {Free, Foreign}]
  /\ pc \in [Threads -> Locations]
  /\ dev \in [Threads -> Device]
  /\ \A t \in Threads : pc[t] \in Locations \ {"idle", "done"} => cmd[t] \in Commands(dev[t])
  /\ err \in [Threads -> {0, EPROTOTYPE} \cup Errnos]
  /\ code \in [Threads -> {0} \cup FwCodes]
  /\ ret \in [Threads -> Nat]
  /\ buf \in [Threads -> {"untouched", "answer", "no_answer"}]
  /\ steady \in [Threads -> SUBSET Name]
  /\ refused \in [Threads -> {NoCode} \cup FwCodes]

Using(t) == pc[t] \in {"ioctl", "close"}

(* A thread between open and close has its own device open under its       *)
(* descriptor, which is no other thread's, however opens and closes of the *)
(* threads and of the rest of the process mix; and no descriptor stays     *)
(* behind after a call, whichever way it failed.                           *)
DescriptorsAreOwned ==
  /\ \A t \in Threads : Using(t) => fds[fd[t]] = dev[t]
  /\ \A t, q \in Threads : Using(t) /\ Using(q) /\ fd[t] = fd[q] => t = q
  /\ \A f \in Fds : fds[f] \in Device => \E t \in Threads : Using(t) /\ fd[t] = f

(* A device that has its file under one of the two names during the whole  *)
(* call is found, whichever name it is and whatever happens to the other,  *)
(* unless the process ran out of descriptors.                              *)
FoundIfThere ==
  \A t \in Threads : pc[t] = "done" => steady[t] = {}

(* What a failed call tells its caller, as esmi_get_err_msg spells it out, *)
(* is about the error that happened: the firmware's code in the class of   *)
(* the command it refused, the library's text where errno has a status of  *)
(* its own, and the text of errno where it has none.                       *)
FailureIsNamed ==
  \A t \in Threads : pc[t] = "done" /\ err[t] # 0 =>
    IF refused[t] # NoCode
    THEN ret[t] - refused[t] = IF cmd[t] = "cpuid" THEN OOB_CPUID_MSR_ERR_BASE
                                                   ELSE OOB_MAILBOX_ERR_BASE
    ELSE Message(ret[t]) = IF err[t] \in DOMAIN Mapped
                           THEN <<"library", Mapped[err[t]]>>
                           ELSE <<"linux", err[t]>>

-----------------------------------------------------------------------------
(* What the calls look like to their callers.                              *)
Requests == UNION {{d} \X Commands(d) : d \in Device}

RequestNow == [t \in Threads |->
  IF pc[t] \in Locations \ {"idle", "done"} THEN <<dev[t], cmd[t]>> ELSE << >>]

OutcomeNow(t) ==
  CASE err[t] = 0 -> "done"
    [] /\ err[t] = EPROTOTYPE /\ cmd[t] = "read_mailbox"
       /\ OOB_MAILBOX_ERR_BASE + code[t] = OOB_MAILBOX_ADD_ERR_DATA -> "explained"
    [] OTHER -> "failed"

(* The device that answered is the one the descriptor stands for.          *)
AnswerNow == [t \in Threads |->
  IF pc[t] = "close" THEN <<fds[fd[t]], OutcomeNow(t)>> ELSE << >>]

ToldNow == [t \in Threads |->
  CASE pc[t] # "done" -> "nothing"
    [] pc[t] = "done" /\ ret[t] = OOB_SUCCESS -> "success"
    [] OTHER -> "failure"]

Access == INSTANCE DeviceAccess WITH
  Reading   <- Device \X {"read_register", "read_mailbox"},
  Explained <- Device \X {"read_mailbox"},
  asked     <- RequestNow,
  answer    <- AnswerNow,
  told      <- ToldNow,
  buffer    <- buf

(* The calls implement an access to a device: the device that a call is    *)
(* for, and no other, is asked once at most; the caller is told of success *)
(* if and only if that device did what was asked; and its buffer changes   *)
(* only with what a read returned or with the data that the firmware adds  *)
(* to a refusal.                                                           *)
ImplementsAccess == Access!Spec
=============================================================================

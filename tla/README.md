# Formal models of the E-SMI out-of-band library

The library (`src/src/esmi_oob`, header files in `src/include/esmi_oob`) runs on a BMC
and manages AMD EPYC and MI300 sockets from the outside.  Each socket has two devices:
SB-RMI (mailbox of the SMU, CPUID and MSR messages, some registers) and SB-TSI
(temperature sensor, thresholds, configuration).  The kernel offers each as a character
device, and everything the library does is made of single ioctls on them: open, ioctl,
close, for every register byte and every message.

Two facts shape these models.

* The driver serialises single ioctls.  Nothing serialises the *sequences* of ioctls most
  interesting calls consist of.  The library has no lock, tools and daemons run side by
  side on the BMC, and the socket - its counters, its sensor, its firmware, the erratum -
  moves on between any two ioctls.
* Any ioctl may fail, and a call returns at the first failure, in the middle of what it
  was doing.

So one action of a module is one ioctl (or one mailbox command, one access to a shared
variable), and between two of them everybody else may act.  Where a reader looks for
"handler = action" in these models: a call is a path of actions, and its early returns are
the `Fail` actions.

Paths below are relative to `src/`, file names without a path are in `src/src/esmi_oob`.

## 1. The parts of the system

| part | code | state it keeps | operations | modelled in |
|---|---|---|---|---|
| RAPL energy counters | `esmi_mailbox.c` 792-1029 | the SMU's 64-bit counters (two 32-bit words each); the global `esu_multiplier` | `read_rapl_core_energy_counters`, `read_rapl_pckg_energy_counters` | `RaplEnergy`, against `CounterSnapshot` |
| Device recovery | `apml_recovery.c` | a request bit in `SBTSI_CONFIGURATION` and one in `SBRMI_CONTROL` | `apml_recover_dev` | `ApmlRecovery` |
| SB-TSI settings | `esmi_tsi.c`, `tsi_mi300.c` | four registers whose bits belong to nine settings | `sbtsi_set_configwr`, `sbtsi_set_alert_config`, ... | `TsiRegisters`, against `SettingsStore` |
| SB-TSI thresholds and offset | the same | an integer byte and 1/8-degree steps in a second byte, per threshold | set and get of the high and low threshold, the HBM limits, the CPU offset | `TsiThreshold` |
| SB-TSI temperature | `esmi_tsi.c` | the device's latch between two bytes, and its READORDER bit | `sbtsi_get_cputemp` | `TsiTemperature`, with `TsiRegisters` |
| Values in several commands | `esmi_mailbox.c`, `rmi_mailbox_mi300.c` | fuses, real-time clock, energy accumulator and its time stamp in the firmware | `read_ppin_fuse`, `get_psn`, `read_rtc`, `get_energy_accum_with_timestamp` | `MailboxWords` |
| PCIe configuration | `esmi_mailbox.c` | the address the firmware remembers from the last access | `read_bmc_ras_pcie_config_access`, `write_bmc_pcie_config` | `PcieConfig` |
| Data fabric P-state | `esmi_mailbox.c` | PROCHOT, the setting, the caller's `prochot_asserted` | `write_apb_disable`, `write_apb_enable` | `ApbBoost` |
| Transport | `apml.c`, `apml_err.c` | the process' table of file descriptors; `errno` | every access; the error status and its message | `ApmlTransport`, against `DeviceAccess` |
| CPUID and MSR | `esmi_cpuid_msr.c`, `esmi_rmi.c` | the number of threads (none cached) | `esmi_oob_cpuid` and its single-register forms, `esmi_oob_read_msr`, core and thread counts | `SocketThreads` |
| Per-thread SB-RMI registers | `esmi_rmi.c` | the caller's buffer | `read_sbrmi_multithreadenablestatus`, `read_sbrmi_alert_status`, `read_sbrmi_thread_cs` | `SocketThreads` |
| One-command mailbox calls | `esmi_mailbox.c`, `rmi_mailbox_mi300.c` | reports on DIMMs, LCLK ranges and two switches, in the firmware | about ninety: a test of the arguments, one command, one answer taken apart | `MailboxCalls` |
| Link bandwidth | `esmi_mailbox.c` 617-675 | the global `plat_info` | `read_current_io_bandwidth`, `read_current_xgmi_bandwidth` | `LinkBandwidth` |
| MI300 statistics | `rmi_mailbox_mi300.c` | what is collected and what is frozen, in the firmware | `get_statistics`, `clear_statistics` | `Statistics` |
| Command-line tool | `tools/apml_tool.c`, `tools/mi300_tool.c` | getopt's `optind`, the second parser's static flag, the global `plat_info`, the variables of a command | two parsers, about 140 commands | `ToolOptions`, `ToolScripts`, `ToolOperations`, `ToolCommandLine` |
| HBM temperature, single-register readers | `tsi_mi300.c`, `esmi_tsi.c` | none | reads | not modelled |
| Headers, build | `include/` | none | | not modelled |

How they interact:

    apml_tool: ToolCommandLine (the words) + ToolOperations (ToolScripts: the calls)
    and other tools and daemons, any number of processes and threads
        |  calls
    RaplEnergy   MailboxWords  PcieConfig  ApbBoost   SocketThreads   TsiRegisters  TsiThreshold
    MailboxCalls LinkBandwidth Statistics                 |               |      |
        |                                                 |               |      |
        +-- mailbox commands                 CPUID, MSR, registers    register bytes
                     |                                    |               |   TsiTemperature
                     |                                    |               |   (READORDER is a setting)
                     +------------- ApmlTransport --------+---------------+
                                    |                                     |
                                 SB-RMI  <---- ApmlRecovery ---->      SB-TSI
                                               (shares CONFIGURATION with sbtsi_set_configwr)

`ApmlTransport` is what carries every access of the other modules: it shows (as
`DeviceAccess`, which it implements) that one access
is one ioctl on the right device that either answers or fails with a status, and that a
failed access leaves the caller's buffer alone (but for error data the firmware adds to a
refusal).  The other modules start from that: an access is one atomic step or a `Fail`.

What is hard here, and what makes each part correct:

* *Tearing.*  A value wider than one access is read while it moves.  The result must be a
  value of one moment (`NoTornRead`, `ImplementsSnapshot`, `WholeUnlessCarried`,
  `TempWasMeasured`, `GetIsNotTorn`).
* *Lost updates.*  A byte that several settings share is read and written back without a
  lock.  Changes nobody overlapped must survive, other bits must never move
  (`UncontendedUpdatesSurvive`, `ReservedBitsKept`, `LowBitsKept`, `ThresholdIsLastSet`), and
  one that was overlapped must stay within its byte (`ImplementsSettings`).
* *Two steps for one effect.*  A check and then a change; an address and then data
  (`LandsUnlessOvertaken`, `HiddenUntouched`, `ChangedOrTold`, `AssertedWasSeen`).
* *Failure half way.*  What the caller's variables hold must agree with the status
  (`BufferFollowsStatus`, `NoHalfValue`, `AnswersTheAsk`, `ImplementsAccess`), and what
  a tool prints must have been read (`ShownWasRead`).
* *A handshake with hardware that may never answer* (`ClearedMeansRecovered`,
  `NoSpuriousRequest`, `CallsReturn`).
* *Shared variables of the process*: `esu_multiplier`, `plat_info`, the descriptor table,
  `optind` (`ScaledByOwnUnit`, `LinkIsOfItsSocket`, `DescriptorsAreOwned`, `OnceInOrder`).
* *Something frozen that is read later* (`StatisticIsOfItsCall`).
* *Edges of numbers*: signed offsets, 1/8-degree steps, fields packed into a word, counts
  of threads past 255 (`ThresholdIsLastSet`, `HiddenUntouched`, `WordTellsTheCall`,
  `ReadsBack`, `CountIsWhole`).
* *Two lists kept by hand in different places*: what the tool's validation demands and what
  its commands then read (`ArgumentsAreThere`, `NoWordIsDropped`, `EndsOrComplains`).

`PROJECT.json` lists these hazards at their lines, each with the properties that cover it.
Three things of earlier surveys are not hazards of their own: that `SBRMI_CONTROL` is written
back as read (`apml_recovery.c:119`) is the hazard of the shared register again, on bits
nobody else sets; a threshold offset between -2^-25 and 0 (`esmi_tsi.c:384`) is below what a
caller can mean; the four-bit sub-function (`esmi_cpuid_msr.c:351`) is a documented limit of
the message, named in `AnswersTheAsk`.

## 2. The modules and the code

Every definition that stands for code is in the "map" of `PROJECT.json` with its lines.
Each module says in its header what it abstracts.  Variables named in a comment as
*history* are not in the code: they remember what a property has to talk about (the values
a counter had during a call, who overtook whom) and no guard of a library step reads them.
`RaplEnergy!Carry` reads one, to state its timing assumption.  Definitions called *mutant*
in a comment are not part of any specification: each is a definition with a plausible slip,
and the property named for it in `PROJECT.json` fails when it takes its place.

**`RaplEnergy`** (with the promise it implements in **`CounterSnapshot`**).  `hi` and `lo`
are the hardware's words, `hi_counter`, `lo_counter` and `new_hi_counter` the call's locals,
`esu_multiplier` the global float (as the exponent it was computed from).  `ReadHi`,
`ReadLo`, `ReadNewHi`, `RereadLo` and `ReadUnits` are the mailbox commands, in the order of
the code; `CheckMultiplier` is the test of the global outside any lock, and `Convert` the
store in the caller's buffer.  `Count` and `Carry` are the hardware's.  Core and package
readers are one path: they differ in the command number only.  A word has `W` values
instead of 2^32, and a counter wraps.  `Carry` holds the only assumption about time: at
most one carry of the low word between the first and the last command of a call.  (At the
unit of 1/65536 J, a socket of 500 W carries every two minutes; five commands take
milliseconds.)  Without it the code cannot be right: it re-reads once.

**`ApmlRecovery`**.  `ProbePeer`, `ReadRegister`, `RequestRecovery`, `Poll`, `VerifyTarget`
are the ioctls of `apml_recover_sbrmi` and `apml_recover_sbtsi`, one path with the device as
a parameter.  The request of a client to recover SBRMI is a bit of a register of SBTSI and
the other way round.  The loop and its `retry` are as in the code, with the last round
leaving the loop whatever it found.  `SetRead` and `SetWrite` are `sbtsi_set_configwr`, which
writes the same register.  `Hang` and `Recover` are the hardware: it may serve a request at
any time or never.

**`TsiRegisters`**.  A byte is the set of its bits that are 1.  A record per setting says
which mask the code keeps, how wide the value is, where it is shifted, and whether a value
that is already there is written again; `Read` is the range check and the first ioctl,
`Write` the second.  The mask is data here as in the code: nothing makes it the complement
of the setting's own bits, and a wrong one is a violation.  The one call that finds its value
there (`set_sbtsi_hbm_alertconfig`) succeeds without a write, and `intended` counts it.

**`SettingsStore`** is what the callers of these functions think they have: settings, and no
registers.  A call sets its own in one step (`Complete`), and can do no more to the settings
whose byte it shares than put them back, all together, to one moment of the call.  The latter
is the weakest promise that code without a lock keeps, and says how far a lost update goes:
two calls on one byte may revert each other, but never mix old and new bits into a value that
nobody set, reach a setting of another byte, or change anything when they fail.

**`TsiThreshold`**.  Temperatures are integers in sixteenths of a degree, so that the
truncation to eighths and the conversion of negative offsets show.  `WriteInt`, `ReadDec`,
`WriteDec` are a set; `ReadInt`, `GetDec` a get; `SetFail` is the failure after the first
byte was written.  Kinds differ in what they accept and in the sign: threshold of the CPU,
limit of the HBM, offset.

**`TsiTemperature`** extends `TsiRegisters`: a reader of the temperature asks for READORDER
(`ReadConfig`), then reads the byte that latches the other (`ReadFirst`) and, after the
code's `usleep`, the latched one (`ReadSecond`).  Clients of `TsiRegisters` may change
READORDER in between (`RegisterStep`).  The latch is environment: the repository does not
say whether reading the latched byte opens it, so both happen.

**`MailboxWords`**.  A call is a sequence of commands, each answering one word of one
value; `Commands` lists them, `Results` puts them together.  `buffer` is the caller's
variable, empty as long as nothing was stored: it shows that `read_ppin_fuse`, `get_psn` and
`read_rtc` store the low word at once, and which of them clear it when the second command
fails.

**`MailboxCalls`**.  A word is the set of its bits; a call is described by the fields it packs
its arguments into (`Report`, `Request`, `Limits`, `Ras`, `Dimm`, `Mi300`), its test
(`AcceptsCall`) and the fields of the answer (`Unpacking`).  Writers and readers of one
thing have a table each, as the code has a function each, and only the firmware's memory
relates them.  `Bit31Alone` are the three readers whose word is bit 31 and nothing else.  A
refused call sends nothing; one that fails may have reached the firmware, and may leave the
word about its failure (`OOB_MAILBOX_ADD_ERR_DATA`) with the calls of `HandsOn`.
`CallArgumentsAssumption` says what C says of the arguments: as many as the call has
parameters, each with no more bits than its parameter or bit field.  The tables of both source
files are put together by `Joined` of **`TableLookup`**, which the tool's modules use too.

**`LinkBandwidth`**.  `StoreFamily` and `StoreModel` are the two stores into `plat_info` by
`esmi_get_processor_info`, `TestFamily` and `TestModel` the two reads when the link ID is
tested.  Any thread may come in between.  `disturbed` remembers whose `plat_info` another
call replaced by something else.

**`Statistics`**.  `Freeze` and `ReadStatistic` are the two commands of `get_statistics`,
`Clear` is `clear_statistics`; the firmware collects all the time (`Collect`).

**`PcieConfig`**.  `Access` is the command that carries the packed address, which the
firmware remembers in `target`; `Write` carries only data.  The packing (`Word`) is by
arithmetic on the fields' widths, and the firmware takes it apart (`Fields`) on its own.
What the firmware does with a target is not in the repository: it is modelled from
`write_bmc_pcie_config`, which relies on it.  A command that fails may have taken effect.

**`ApbBoost`**.  `CheckProchot` and `WriteBoost` are the two commands, `Toggle` is PROCHOT moving at
any time.  `CallersClear` tells whether callers initialise `prochot_asserted`: the tool does.

**`ApmlTransport`**.  `OpenNew`, `OpenLegacy`, `Ioctl` and `Close` are system calls of a
thread; `fds` is the table they share with the rest of the process (`OpenForeign`,
`CloseForeign`), `names` the device files, which come and go with the driver (`Rename`).
`Status` is the path from errno and the firmware's code in the message to `oob_status_t`,
`Message` what `esmi_get_err_msg` makes of it.  Data is abstracted to whether the buffer
holds an answer.

**`DeviceAccess`** is the same without files, descriptors and errno: a call asks, its device
answers at most once, the caller is told.  It is what every other module takes an access to be:
one step at the device, or a failure that leaves the caller's buffer alone.

**`SocketThreads`**.  One call at a time (calls share nothing), but the host may restart
between two of its accesses (`Restart`) with another number of threads.  `ReadRevision`,
`ReadNumber`, `ReadLow`, `ReadHigh` find the number of threads; `Counted` and `Refuses`
validate a thread, with the 32-bit wrap of `max - 1` at 0; `Ask` is one message, answered
for the thread, function and (four-bit) sub-function that were sent; `ReadTable` fills one
register per eight threads.  Which call asks for what, in which order, is `Results` and
`OwnAsk`.

**The tool** is four modules.  **`ToolOptions`** holds the words: the options of either
parser's table, which kinds of words (`Kinds`) each check lets through, what the validation
demands of an option (`Wrongly`, one operator per block of `parseesb_args`) and what its case
in the dispatch then converts (`MainReads`, `MiReads`).  Demand and use are two tables because
the code has them in two places.  **`ToolScripts`** holds the commands, each a sequence of
library calls with the variables it fills, the ones printed afterwards and what happens when it
fails; a command whose arguments decide between several has several.  **`ToolOperations`** runs
one command against a library whose calls may fail, and follows which variables hold the answer
last asked for.  A failure is one of three actions: the command stops or passes over what it
could not read (`CallFails`); the library hides it (`CallFailsSilently`,
`read_sbrmi_thread_cs`); or it comes with a word about it that the command prints
(`CallFailsWithData`, the RAS DF validity check).  **`ToolCommandLine`** composes them: `main`, both parsers, getopt with its
abbreviations (`GetOpt`) and its one `optind`, and the static flag of the second parser, from
the first word to the end of the line.  Which name abbreviates which is a table
(`MainLonger`, `MiLonger`); `ToolLongerAssumption` says that it is exactly what comparing the
names character by character gives, and TLC evaluates it.

## 3. The runs

Instances are in the `MC...` modules and the `.cfg` files.  No configuration replaces a
definition of a module.  Deadlock is checked in every run; where the tool comes to its end,
`Ended` says so.

Components that share no state are checked in one run: a variable `focus` (`view` in
`MCApmlTransport`) says which one a behaviour is about, and the others stay in one of their
initial states.  Their invariants hold of that state too, so each run says of each component
what a run of its own would.

### Runs that pass

| run | module | instance | properties |
|---|---|---|---|
| `rapl` | `MCRaplEnergy` | 2 threads, one counter, W = 2, one energy unit | `TypeOK`, `NoTornRead`, `ScaledByOwnUnit`, `BufferFollowsStatus`, `ImplementsSnapshot` |
| `recovery` | `MCApmlRecovery` | 2 clients, 1 setter, `MAX_RETRY` = 1 | `TypeOK`, `ClearedMeansRecovered`, `NoSpuriousRequest`, `CallsReturn` |
| `tsi` | `MCTsiTemperature` | settings: 2 clients; temperature: 2 readers and a client; thresholds: 2 setters, 1 getter, three kinds | `UncontendedUpdatesSurvive`, `ReservedBitsKept`, `TempWasMeasured`, `WithinADegree`, `ThresholdIsLastSet`, `LowBitsKept`, `GetIsNotTorn`, `ImplementsSettings` |
| `mailbox` | `MCMailboxPairs` | 2 clients of PCIe or of boost, 1 reader of values in words, 2 threads on 3 sockets, 2 callers of statistics, or sequences of one-command calls | `TypeOK`, `LandsUnlessOvertaken`, `HiddenUntouched`, `ChangedOrTold`, `WholeUnlessCarried`, `NoHalfValue`, `LinkIsOfItsSocket`, `StatisticIsOfItsCall`, `WordTellsTheCall`, `ReadsBack` |
| `transport` | `MCApmlTransport` | 2 threads, 2 descriptors; or 5 platforms, 7 thread counts | `DescriptorsAreOwned`, `FoundIfThere`, `FailureIsNamed`, `ThreadExists`, `AnswersTheAsk`, `BufferFits`, `CountIsWhole`, `ImplementsAccess` |
| `tool` | `MCTool` | every option of both parsers, up to two on a line, up to 2 failing library calls | `ArgumentsAreThere`, `NoWordIsDropped`, `ShownWasRead`, `OnceInOrder`, `EndsOrComplains` |

What they show and why the bounds are enough:

* `rapl`.  The two words a call puts together belong to one moment, whatever the counter
  does between commands; threads that race for `esu_multiplier` cannot make a call use zero;
  a failed call leaves the buffer alone; the whole is an atomic read.  With words of two
  values every second count carries and every fourth wraps, so that each gap between
  commands meets a carry.  A third thread would race for the same store of the same value;
  the theorems cover any number.
* `recovery`.  A request bit found clear stands for a recovery made after the client's own
  request, unless a `sbtsi_set_configwr` overwrote it; nobody's recovery starts a second one,
  unless a setter wrote back a request bit it had read; every call returns, also when both
  devices hang, each needed for the recovery of the other, or the hardware never serves a
  request.  The instance lets any two of the three actors be inside a call at once, and both
  devices hang at once while the setter is idle; the second client recovers SBRMI only, the
  device whose request bit the setter shares.  With `MAX_RETRY` = 1 the loop has a round that
  is its last and one that is not.  The two safety theorems drop all of these bounds.
* `tsi`, settings.  One register per behaviour, and the values 0 to 3 bits wide that
  are in and out of each range, with all reserved bits 1 at power-on so that losing one
  shows.  The refinement of `SettingsStore` is checked of the same calls.  Temperature: between 7 and 8 eighths, which moves over a whole degree, where
  tearing is worst, while one client flips READORDER.  Thresholds: the temperatures are the
  ends of all ranges, values just outside, and negative fractions; the reserved bits are the
  pattern 10101.
* `mailbox`, PCIe and boost.  Two clients overtake each other; the addresses have every field
  at its lowest or highest value and include both refused devices and the same device on
  another bus; the P-states are both ends of the range and one past it.  Words: one reader
  suffices, for calls do not share anything and the firmware moves the values between any two
  commands; with W = 2 both words carry.  Links: an MI300 socket, one of the same family and
  one of another; a link ID of either encoding, of both and of none; two threads, so that one
  replaces the other's `plat_info`.  Statistics: two callers, who freeze over each other,
  and a counter that moves and is cleared.  One-command calls: every call, every field at both
  ends of its width, limits on both sides; and all sequences of writers, readers and failures
  of the calls that share a kind of report or a switch.
* `transport`.  Two threads with two descriptors, which the rest of the process takes and
  gives back: enough for a descriptor to be reused between a thread's last use and its
  close, and for the table to be full.  The files of SB-RMI come and go; those of SB-TSI, whose
  accesses take the same path, stay under one of the two names.  That the calls implement
  `DeviceAccess` is checked of all of it.  One errno with a status (EIO), one without
  (ETIMEDOUT), firmware codes with and without additional data.  Threads of a socket: all
  revisions the code tells apart and one it does not; counts and threads on both sides of 128
  and 256; sub-functions at the end of four bits and past it.
* `tool`.  Each option with every number of arguments from none to one too many, and each
  argument in turn replaced by a word of every kind, alone and before another option of the same
  or of the other parser; each command on every kind of socket, with every pair of its library
  calls failing.  A third option meets the same parser in a state that two reach already.

### Runs that end in a counterexample

Each checks one property that the repository states, and shows how the code breaks it.

* `rapl_mixed_units` (`ScaledByOwnUnit`): `esu_multiplier` is filled by the socket that is
  read first (`esmi_mailbox.c:1018`) and then scales every socket's counter.  On a board
  whose sockets report different units the second socket's energy is wrong.
* `recovery_served` (`SuccessMeansServed`): when the retries run out while the request is
  pending, the call reads the revision and returns `OOB_SUCCESS`
  (`apml_recovery.c:92`); `apml_recovery.h:60` says success means recovery.
* `boost_stale` (`AssertedWasSeen`): `prochot_asserted` is set to true and never to false
  (`esmi_mailbox.c:744`), although `esmi_mailbox.h:1473` says "false indicates not-asserted".
  A caller that uses one variable for two calls is told of a PROCHOT that was not there.
* `messages` (`FailureIsNamed`): EMSGSIZE becomes status 14 (`apml_err.c:160`), for which
  `esmi_get_err_msg` has no case (`apml_err.c:127`): `strerror(14)` says "Bad address".
* `tool_numbers` (`NumbersArrive`): `apml_tool 0 --setpowerlimit xyz` asks for 0 Watts.  The
  options getopt returns as a character are on the list of those whose argument is checked
  (`tools/apml_tool.c:3719`), but every test of the word is for options it returns as 0
  (`tools/apml_tool.c:3800`).
* `tool_named` (`NamedIsPerformed`): `--setxgmipstate`, which only the second parser knows,
  is an abbreviation of the first one's `--setxgmipstaterange`, and that is performed.

Other things the models show that no text of the repository contradicts, so no run claims
them: a PCIe write goes to another process' address when that process' access comes in
between, and returns success; the RTC and the MI300 energy accumulator are a carry off when
the high word moves during the call; a failed `read_ppin_fuse` leaves the low word;
`read_sbrmi_thread_cs` reports success after a failed read (`esmi_rmi.c:377`); a CPUID
sub-function past 15 wraps (`esmi_cpuid_msr.c:351`); a host restart between the two bytes
of the thread count can make it 0, which lets every thread through (`esmi_cpuid_msr.c:252`);
a setting changed by two processes at once keeps the later writer's view of the byte;
another thread's link call replaces `plat_info` before it is tested; after a complaint the
tool's second parser may send the first through the same words without end
(`ToolCommandLine!LineEnds` is what `EndsOrComplains` leaves out); two commands print a
variable whose read failed (`Careless`); `setdimmthermalsensor` takes a word with a dash, an
option too, for its temperature, for only its third argument is looked at
(`tools/apml_tool.c:3952-3966`, whose message speaks of the second and the third).  The properties name each of these as their exception,
so that the rest is still checked.

Smaller remarks on the source, from the tables of `MailboxCalls`: `write_xgmi_link_width_range`
and `write_pwr_efficiency_mode` do not test the ranges their headers state
(`validate_pwr_efficiency_mode` has no caller); `write_lclk_dpm_level_range` accepts levels to
3 where a comment says 0 and 1; several readers pass a narrower pointer than the mailbox
answers with, through a cast; DIMM power and sensor values are shifted into the sign bit of
an `int`.

## 4. Fairness

Two properties need any.  `CallsReturn`: `ApmlRecovery!Fairness` is weak fairness of each client over
its own next step: a thread inside the library is scheduled again, and the ioctl it waits
for returns - with an answer if the device answers, with a failure if the device hangs
(`FailHung`; the driver times out).  Nothing is owed by the hardware (`Recover`, `Hang`), by
setters, by the failures that may but need not happen, or by callers (`Begin`).  The other
library loops are over fixed tables; their calls end after a bounded number of own steps.

`EndsOrComplains`: `MCTool!MCSpec` has weak fairness of the whole next step.  The tool is one
sequential process: that it goes on as long as it can is all that is assumed.

## 5. Bounds and abstractions, by name

| bound | where | instead of |
|---|---|---|
| `W` | `RaplEnergy`, `MailboxWords` | 2^32 values of a word; a parameter of the theorems |
| one carry between the first and the last command of a call | `RaplEnergy!Carry` | time; an assumption of the theorems too |
| `MAX_RETRY` | `ApmlRecovery` | 20; a parameter of the theorems |
| `Bounds` | `MCApmlRecovery` | who is busy and who hangs at once; not in the theorems |
| `Samples`, `focus` | `MCTsiTemperature` | all bytes; one register at a time |
| `OnFocus`, `MCRequests` | `MCTsiTemperature` | clients of other registers; all temperatures |
| `Lowest`, `Highest` | `TsiTemperature` | the range of the sensor |
| `Temps`, sixteenths of a degree | `TsiThreshold` | binary32 |
| `MCAddresses`, `Data` | `MCMailboxPairs` | 32-bit addresses and data |
| `Edges`, `Ends2` | `MCMailboxPairs` | all values of a field; its ends and its highest bit alone |
| `FewAsks`, `FewCalls`, `OnlyWatchedMove` | `MCMailboxPairs` | asks that differ only in what is not looked at; calls that share nothing; values that nobody reads |
| `MaxCount` | `Statistics` | a 32-bit statistic; a parameter of the theorem |
| `MaxFailures`, `Lines` | `MCTool` | any number of failures, any line |
| `Errnos`, `FwCodes`, `Fds` | `ApmlTransport` | all of them |
| `MCCounts`, `MCAsks`, `MCPlatforms` | `MCApmlTransport` | counts to 65535, 32-bit arguments |

Symmetry is used where the actors are interchangeable and no liveness is checked (`Same`):
clients, data, threads and callers of `mailbox`; readers and setters of `tsi`; threads of
`transport`.

Left out of every module: checks for null pointers, logging, and which of several sockets a
call is for where sockets share nothing.  Floats are exact.

## 6. What is proved

The modules `*_proofs` hold theorems that TLAPS checks, for every value of the constants
that the named assumptions of the module allow (`WordAssumption`, `UnitAssumption`,
`RetryAssumption`, ...: sets of callers of any size, words of any size, any temperatures,
any addresses and data).  Type correctness comes first in each; the rest by one inductive
invariant per question.

| theorem | property | argument |
|---|---|---|
| `RaplEnergy_proofs!TypeCorrect` | `TypeOK` | directly; the wrap of a word stays a word |
| `ReadsAreNeverTorn` | `NoTornRead` | `ReadInv`, below |
| `BuffersFollowStatus` | `BufferFollowsStatus` | from `ReadInv`: only `Convert` stores |
| `SharedMultiplierIsOwn` | `ScaledByOwnUnit` | under `Uniform`, one unit on the board |
| `Refinement` | `ImplementsSnapshot` | step simulation of `CounterSnapshot` |
| `ApmlRecovery_proofs!TypeCorrect` | `TypeOK` | with `RetryInv`: the counter is not negative inside the loop |
| `ClearedBitMeansRecovered` | `ClearedMeansRecovered` | `PollInv`, `NotYetCleared`, `ClearInv` |
| `RequestsAreOwned` | `NoSpuriousRequest` | `OwnerInv` |
| `UpdatesSurvive` | `UncontendedUpdatesSurvive` | `MaskIsComplement`, `PendingInv` |
| `ReservedBits` | `ReservedBitsKept` | the same |
| `SettingsRefined` | `ImplementsSettings` | step simulation of `SettingsStore`; `OwnApart`, `FieldOfShift`, `WritePutsBack` |
| `ThresholdTypes` | types; no run property | with `Accepted` |
| `ReservedBitsSurvive` | `LowBitsKept` | `LowInv`: no setter holds other low bits |
| `LastSetIsKept` | `ThresholdIsLastSet` | `SetInv`, `RoundTrip` |
| `GetsAreNotTorn` | `GetIsNotTorn` | `GetInv` |
| `MailboxWords_proofs!TypeCorrect` | `WordsTypeOK` | with `Place`: as many answers as commands sent |
| `ReadsAreWhole` | `WholeUnlessCarried` | `WholeInv`, `JoinedWasHeld` |
| `HalfValuesAreCleared` | `NoHalfValue` | `HalfInv` |
| `TemperatureIsWhole` | `TempWasMeasured` | `TempInv` |
| `OtherReadersCostLess` | `WithinADegree` | the same, with `Bytes` |
| `PcieTypes` | `PcieConfig!TypeOK` | `PcieInv`, `FieldsOfWord` |
| `WritesLandUnlessOvertaken` | `LandsUnlessOvertaken` | the same |
| `HiddenStaysUntouched` | `HiddenUntouched` | the same |
| `LinksAreTheirOwn` | `LinkIsOfItsSocket` | `LinkInv` |
| `StatisticsAreOfTheirCall` | `StatisticIsOfItsCall` | `StatInv` |
| `BoostChangesOrTells` | `ChangedOrTold` | `BoostInv`, where callers clear their variable |
| `AssertedIsNoOldNews` | `AssertedWasSeen` (checked by `boost_stale`, without the hypothesis) | the same |
| `ThreadsAreThere` | `ThreadExists` | `PlaceInv`, `CountInv` |
| `CountsAreWhole` | `CountIsWhole` | the same, with `Halves` |
| `TablesFit` | `BufferFits` | `PlaceInv`, `RoomInv` |
| `AnswersAreToTheAsk` | `AnswersTheAsk` | `PlaceInv`, `AnswerInv`, `OneLess` |
| `DescriptorsStayOwned` | `DescriptorsAreOwned` | itself, with `TransportTyped` |
| `FilesAreFound` | `FoundIfThere` | the same, with `SearchInv` |
| `FailuresAreNamed` | `FailureIsNamed`, for errnos that are `Telling` | `ToldInv`, `Statuses` |
| `AccessRefined` | `ImplementsAccess`, for errnos that are `Apart` | step simulation of `DeviceAccess`; `AnswersAreOwn`, `StatusTells` |
| `WordsTellTheCalls` | `WordTellsTheCall` | `BitsTell`, `WordRecovers` |
| `ReadersGetWhatWasSet` | `ReadsBack` | `CallsInv`, `ReaderAndWriter` |
| `ArgumentsFound` | `ArgumentsAreThere` | `LineInv`: every command `Fits` |
| `WordsAreNotDropped` | `NoWordIsDropped` | `LineInv`: `CoverInv` |
| `CommandsOnceInOrder` | `OnceInOrder` | `LineInv`: `OrderInv` |
| `ToolCommandLine_proofs!TypeCorrect` | `TypeOK` | `LineInv`, `OpInv`, `EveryOptionHasAScript` |
| `ShownIsRead` | `ShownWasRead` | `OpInv`: `StandingInv`, `ScriptsGood` |

Why the properties are not inductive as they stand, and what is added:

* *RAPL.*  That the final pair was in the counter depends on what each word read so far says
  of the hardware now.  `HighWord`: between the first and the last command the high word
  is the one read, or its successor if there was a carry since.  `LowWord`: without
  a carry, the pair read so far was a value of the counter.  `SecondHighWord`: where the code
  re-reads the low word there was a carry, so there is no second one, and the high word is
  still the one just read.  `SuccDiffers` makes a carry visible in the high word, which needs
  W to be at least 2.  `WholeValue` is the property.  `CurrentInWindow` ties the history to
  the hardware.
* *The shared multiplier.*  With one unit on the board the global is empty or that unit
  (`MultiplierInv`); a call past its check finds it filled, because nobody empties it
  (`ScaleInv`).  `Uniform` is a hypothesis of the theorem, and `rapl_mixed_units` shows that it
  cannot be dropped.
* *Refinement.*  Both words are one value of `CounterSnapshot`; `Count` and `Carry` advance it;
  `Begin`, `Convert` and `Fail` are its `Begin`, `Complete` and `Abort`; all other steps stutter.
  `Complete` needs `WholeValue`.
* *Recovery.*  While a client polls, its request bit is set, or the hardware has served it,
  or the client is excused by a setter (`PollInv`): neither another client's request nor the
  recovery of the other device can clear it.  `OwnerInv` says who set the bit.
* *Settings.*  For each setting the mask that the code keeps is the complement of the bits
  that the value can reach after its shift (`MaskIsComplement`: nine cases of constants from
  the code); a byte in a client's hands has the register's reserved bits however old it is
  (`PendingInv`).
* *Settings refined.*  A read that goes on to a write is `Begin`, the write `Complete`, a failure
  in between `Abort`; refusals, calls that write nothing and steps of other actors stutter.
  `OwnApart`: no two settings of a register own a bit in common (81 pairs of constants, by
  register).  `FieldOfShift`: what the shift puts in, the field gives back, which needs the
  range check.  `WritePutsBack` joins them: of the written byte the call's own field is what it
  wanted, and every neighbour's is the one of the byte it read.  `PendingInv`
  supplies that a value on its way lies within its setting's bits.  There is no hypothesis
  about overlaps.
* *Thresholds.*  `RoundTrip` is the arithmetic: for every accepted temperature of all three kinds
  the two bytes read back as the temperature rounded down to 1/8 degree, also where it is
  negative.  `SetInv`: a setter that was alone since its first access is the only one at work and
  owns the integer byte.  `GetInv`: what a getter between its reads may still count on.
* *Values in words.*  A low word was the low word of the value at some moment of the call
  (`LowWasHeld`); if the high word did not move, all values during the call share it, so the
  pair is one of them (`JoinedWasHeld`).
* *PCIe.*  The five fields of an address do not overlap (`FieldsOfWord`), so that the firmware
  finds the address the client packed; the target is never a refused device (`TargetOK`), and a
  client about to write still holds it unless it was overtaken (`Holds`).

* *Temperature.*  While a reader is between its two reads and READORDER holds still, the byte it
  has is of a temperature of its call, and the latch is empty or of its call too (`CallInv`):
  that is enough for a degree.  Undisturbed, the latch is still the reader's own, and the bytes
  belong together.
* *Links.*  `LinkInv`: what a thread has stored of its processor is what `plat_info` holds,
  member by member, or the thread is `disturbed`.
* *Statistics.*  `FrozenIsOfItsTime`: from its freeze on, what is frozen is of the caller's own
  time, also when another caller froze or cleared since.
* *Boost.*  `TellsTruth`: during a call the caller's variable is false and nothing was set; it
  was seen asserted if it is so now.  `CallersClear` is a hypothesis of both theorems, and
  `boost_stale` shows that it cannot be dropped.
* *Threads of a socket.*  `PlaceInv` says which call can be at which step on which socket;
  `CountInv`, that the low byte in hand is the low byte of the count; `RoomInv`, that a table
  that was started is as long as the buffer of its caller; `AnswerInv`, that each result of a
  call is still to be asked for or is right, whatever was overwritten since.  The theorems hold
  for all revisions, models, asks and counts below 2^16 (`CountAssumption` says this by an
  inequality, for the provers do not reason about so long a literal interval).
* *Transport* (in `SocketThreads_proofs`, whose messages it carries).  `DescriptorsAreOwned` is inductive once the threads between open and close are
  known to hold one of the process' descriptors (`TransportTyped`): a free one is no such
  thread's.  `SearchInv`: of the names a file had all along, a call that goes on to the legacy
  name has ruled out the new one, and a call that opened or gave up has none left.  `ToldInv`
  follows errno and the firmware's code to the status and its text (`ClosingTells`).  Its
  hypothesis `Telling` leaves out what the statuses and errno share: 6, 8 and 10 as errno
  would be passed on and read as the texts of library statuses, 91 stands for the firmware's
  refusal, and 90 is what the run `messages` shows to be told wrong.
* *Transport refined.*  `Begin` is `Ask`, `Ioctl` is `Answer`, `Close` and the failure to find a
  file are `Tell`, a refused argument is `Reject`; opening a file stutters, and so do the rest
  of the process and the drivers.  `AnswersAreOwn`, from `DescriptorsAreOwned`: the device behind
  the descriptor is the one the call is for.  `StatusTells` follows what the driver said to the
  status and the buffer: only errno 0 becomes `OOB_SUCCESS`, and only firmware code 5 for a
  mailbox read becomes the one failure with data.  The hypothesis `Apart` is weaker than
  `Telling`: errnos are below 2048, where the statuses of refusals begin, and none is 91.
* *One-command calls* (in `MailboxWords_proofs`).  Two arguments that differ differ in a bit
  (`BitsTell`: halving a number below 2^31 once per bit leaves 0).  A word made of fields that
  do not meet and that every value fits gives each value back (`TakenOut`), and the fields of
  each call are such (`PackedFields`, call by call), so different arguments give different words
  (`WordsDiffer`).  For `ReadsBack` the reader's fields must be the writer's (`ReaderAndWriter`,
  pair by pair), and the firmware's slot must be the one of the last writer: `KeptInv`
  says that every slot holds the word of an accepted call of its own kind with the arguments
  wished for.  This is for all values of the arguments, where the run has the ends of each field.
* *The command line.*  The validation and the dispatch are compared option by option
  (`MainFound`, `MiFound`): if an option's arguments are not refused, then the words its case
  reads are there, so that `Perform` leaves optind within the line and every command `Fits`.  For
  the other two properties one has to know what the second parser's walk does to optind, for it
  starts over at the second word: before the first complaint it passes only words that belong
  to a command (`CoverInv`), and when it returns to the first parser either the whole line is
  used up or getopt finds the end of the options there again (`OrderInv`, with `AtEnd`): it
  cannot send the first parser back over its own options without having complained.
* *The commands.*  `Careful` is a condition on the script alone: whatever a step prints is filled by a
  step before it that is for at least the same sockets, and from that step on no failure goes
  unnoticed in the variable (a step that fails either ends the command or is not one that may
  go on, `Firm`; the validity check that fails with a word about it is the one call that does
  both, and prints that word).  `ScriptsGood` finds it of every script but those of the two
  `Careless` commands; `StandingInv` carries it along a run: what a step filled and nothing
  since may have spoilt is current.

Only model-checked: `CallsReturn` and `EndsOrComplains`, which are liveness.  Every invariant
and every action property of a passing run is stated by a theorem.  Nothing is proved about binary32, and nothing about the hardware
beyond what the environment actions say.

## 7. How to run it

    tlc -config MCRapl.cfg MCRaplEnergy          # and the other pairs of section 3
    tlapm RaplEnergy_proofs.tla                  # and the other *_proofs modules

The longest runs, `recovery`, `tool`, `tsi`, `transport` and `mailbox`, take two to four minutes
on two cores; the others take about a minute or less.  The proofs take a few minutes together.

## 8. What is not modelled, and why

* *HBM temperature* (`tsi_mi300.c:279`): two bytes without an order bit; nothing in the
  repository says whether the device latches them, so either answer would be an invention.
  Single-register readers are one access and a decoding.
* `validate_sbtsi_module`, `validate_sbrmi_module`: they only look whether a device file is
  there.  `esmi_oob_extend_thread` is never called.
* *The message registers* (`esmi_rmi.c`): loops that read eight registers of a mailbox that the
  driver owns; what they see of a message under way is the driver's business.
* *Of the tool*: help texts, units and layout.  The second tool, `apml_cpuid_tool.c`, makes the calls of
  `SocketThreads` one after another.
* *Conversions to floating point and names of values* in the one-command calls.
* *The driver, the firmware and the devices* are environment, modelled from how the library
  uses them.
* *Headers and build files*: declarations.  The models use their values under their names.

## 9. Plan

Done in this order: RAPL counters (the one wide value with a protocol of its own) with its
abstract specification; recovery; settings; thresholds; temperature; words and pairs of
commands; transport; threads; statistics; link calls; one-command calls; the tool; and the
proofs of all of them.  Left, most important first:

1. *The tool's set-and-verify helpers* composed with `TsiRegisters` and `ApmlTransport`, so that
   two tools run against one device.
2. *HBM temperature*, when the device's behaviour is documented.

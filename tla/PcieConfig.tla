----------------------------- MODULE PcieConfig -----------------------------
(***************************************************************************)
(* Writing a register of the extended PCI configuration space takes two    *)
(* mailbox commands (write_bmc_pcie_config of esmi_mailbox.c): an access   *)
(* that reads the register and leaves its address with the firmware, and   *)
(* a write that carries only data and goes to the address left there.      *)
(* Nothing keeps another process' access out of between the two.           *)
(*                                                                         *)
(* An address travels as one packed word.  The devices 0x18 and 0x19 of    *)
(* bus 0 in segment 0 are refused before anything is sent.                 *)
(***************************************************************************)
EXTENDS Integers

CONSTANTS
  Clients,
  Addresses,   (* the addresses in use                                     *)
  Data

(* The fields of struct pci_address: 3, 5, 8, 12 and 4 bits. *)
Func == 8
Device == 32
Bus == 256
Offset == 4096
Segment == 16

Field(m) == 0 .. m - 1
Address == [func : Field(Func), device : Field(Device), bus : Field(Bus),
            offset : Field(Offset), segment : Field(Segment)]

ASSUME AddressAssumption == Addresses \subseteq Address

VARIABLES
  config,      (* the configuration space                                  *)
  target,      (* the word of the last access                              *)
  pc, op, addr, data,  (* each client's state, and what it asked for       *)
  ret,
  overtaken,   (* history: clients that lost the target to another access  *)
  intended,    (* history: the configuration space, had every write gone   *)
               (* to the address its call was given                        *)
  strayed      (* history: addresses a write of an overtaken client        *)
               (* reached or should have reached                           *)

vars == <<config, target, pc, op, addr, data, ret, overtaken, intended, strayed>>

NoTarget == -1

(* A field of m values, with the fields above it; and back.                *)
Put(field, m, above) == field + m * above
Lowest(w, m) == w % m
Above(w, m) == w \div m

(* Mutant: the offset is shifted into the bus. *)
WordOverlapping(a) ==
  Put(a.func, Func, Put(a.device, Device,
    Put(a.bus, Bus \div 2, Put(a.offset, Offset, a.segment))))

(* func | device << 3 | bus << 8 | offset << 16 | segment << 28.           *)
Word(a) ==
  Put(a.func, Func, Put(a.device, Device,
    Put(a.bus, Bus, Put(a.offset, Offset, a.segment))))

(* How the firmware takes the word apart. *)
Fields(w) ==
  LET from_device == Above(w, Func)
      from_bus == Above(from_device, Device)
      from_offset == Above(from_bus, Bus)
  IN [func |-> Lowest(w, Func), device |-> Lowest(from_device, Device),
      bus |-> Lowest(from_bus, Bus), offset |-> Lowest(from_offset, Offset),
      segment |-> Above(from_offset, Offset)]

(* Mutant: only the first of the two devices is refused. *)
RefusesOne(a) == a.segment = 0 /\ a.bus = 0 /\ a.device = 24

Refuses(a) == a.segment = 0 /\ a.bus = 0 /\ a.device \in {24, 25}

Init ==
  /\ config \in [Addresses -> Data]
  /\ target = NoTarget
  /\ pc = [c \in Clients |-> "idle"]
  /\ op \in [Clients -> {"read", "write"}]
  /\ addr \in [Clients -> Addresses]
  /\ data \in [Clients -> Data]
  /\ ret = [c \in Clients |-> "none"]
  /\ overtaken = {}
  /\ intended = config
  /\ strayed = {}

-----------------------------------------------------------------------------
(* read_bmc_ras_pcie_config_access and write_bmc_pcie_config.              *)
Begin(c, name, a, d) ==
  /\ pc[c] = "idle"
  /\ op' = [op EXCEPT ![c] = name]
  /\ addr' = [addr EXCEPT ![c] = a]
  /\ data' = [data EXCEPT ![c] = d]
  /\ \/ /\ Refuses(a)
        /\ ret' = [ret EXCEPT ![c] = "not_supported"]
        /\ UNCHANGED pc
     \/ /\ ~Refuses(a)
        /\ pc' = [pc EXCEPT ![c] = "access"]
        /\ ret' = [ret EXCEPT ![c] = "none"]
  /\ UNCHANGED <<config, target, overtaken, intended, strayed>>

(* The access leaves its word as the target, under whoever is about to     *)
(* write.                                                                  *)
Overtake(c) ==
  {d \in Clients \ {c} : pc[d] = "write" /\ addr[d] # addr[c]}

AccessThen(c, next) ==
  /\ pc[c] = "access"
  /\ target' = Word(addr[c])
  /\ overtaken' = (overtaken \ {c}) \cup Overtake(c)
  /\ pc' = [pc EXCEPT ![c] = next]

Access(c) ==
  /\ \/ AccessThen(c, "write") /\ op[c] = "write" /\ UNCHANGED ret
     \/ /\ AccessThen(c, "idle")
        /\ op[c] = "read"
        /\ ret' = [ret EXCEPT ![c] = "success"]
  /\ UNCHANGED <<config, op, addr, data, intended, strayed>>

(* A command that fails may have done its work or not.                     *)
AccessFailsThen(c, next) ==
  /\ pc[c] = "access"
  /\ pc' = [pc EXCEPT ![c] = next]
  /\ ret' = [ret EXCEPT ![c] = "error"]
  /\ \/ UNCHANGED <<target, overtaken>>
     \/ /\ target' = Word(addr[c])
        /\ overtaken' = (overtaken \ {c}) \cup Overtake(c)
  /\ UNCHANGED <<config, op, addr, data, intended, strayed>>

(* Mutant: the status of the access is not looked at. *)
AccessFailsUnseen(c) == AccessFailsThen(c, IF op[c] = "write" THEN "write" ELSE "idle")

AccessFails(c) == AccessFailsThen(c, "idle")

(* Data reaches the target, whoever set it.                                *)
Store(c) ==
  /\ config' = [config EXCEPT ![Fields(target)] = data[c]]
  /\ intended' = [intended EXCEPT ![addr[c]] = data[c]]
  /\ strayed' = IF c \in overtaken THEN strayed \cup {addr[c], Fields(target)}
                                   ELSE strayed

Write(c) ==
  /\ pc[c] = "write"
  /\ Store(c)
  /\ pc' = [pc EXCEPT ![c] = "idle"]
  /\ ret' = [ret EXCEPT ![c] = "success"]
  /\ overtaken' = overtaken \ {c}
  /\ UNCHANGED <<target, op, addr, data>>

WriteFails(c) ==
  /\ pc[c] = "write"
  /\ Store(c) \/ UNCHANGED <<config, intended, strayed>>
  /\ pc' = [pc EXCEPT ![c] = "idle"]
  /\ ret' = [ret EXCEPT ![c] = "error"]
  /\ overtaken' = overtaken \ {c}
  /\ UNCHANGED <<target, op, addr, data>>

Next ==
  \E c \in Clients :
    \/ \E name \in {"read", "write"}, a \in Addresses, d \in Data :
         Begin(c, name, a, d)
    \/ Access(c)
    \/ AccessFails(c)
    \/ Write(c)
    \/ WriteFails(c)

Spec == Init /\ [][Next]_vars

-----------------------------------------------------------------------------
TypeOK ==
  /\ config \in [Addresses -> Data]
  /\ target = NoTarget \/ Fields(target) \in Addresses
  /\ pc \in [Clients -> {"idle", "access", "write"}]
  /\ op \in [Clients -> {"read", "write"}]
  /\ addr \in [Clients -> Addresses]
  /\ data \in [Clients -> Data]
  /\ ret \in [Clients -> {"none", "success", "error", "not_supported"}]
  /\ overtaken \subseteq Clients
  /\ intended \in [Addresses -> Data]
  /\ strayed \subseteq Addresses

(* Segment 0, bus 0, devices 0x18 and 0x19: inaccessible, as the header    *)
(* says.                                                                   *)
Inaccessible == {a \in Addresses : a.segment = 0 /\ a.bus = 0 /\ a.device \in {24, 25}}

(* The registers of the inaccessible devices never change, however calls   *)
(* interleave and whichever commands fail.                                 *)
HiddenUntouched ==
  [][\A a \in Inaccessible : config'[a] = config[a]]_vars

(* Outside of what overtaken writes reached or missed, the configuration   *)
(* space is what it would be had every write gone to its own address.      *)
LandsUnlessOvertaken ==
  \A a \in Addresses \ strayed : config[a] = intended[a]
=============================================================================

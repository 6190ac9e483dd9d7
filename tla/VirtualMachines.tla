--------------------------- MODULE VirtualMachines ---------------------------
(***************************************************************************)
(* Virtual machines, crates/omniagent-virt/src: the manager and the states *)
(* of machines (manager.rs, vm.rs), a virtual processor and the handler of *)
(* its exits with the emulated ports (vcpu.rs, vmexit.rs), and a virtio    *)
(* device (virtio.rs).  The three share no state.                          *)
(*                                                                         *)
(* Totals are unsigned and wrap at Width in a release build, as those of   *)
(* the code do at 2^32 and 2^64.  Numbers that the code takes bits of are  *)
(* sets of bit positions.                                                  *)
(***************************************************************************)
EXTENDS Integers, FiniteSetsExt, Functions, TLC

CONSTANTS
  MachineNames,  \* "" is the name that validate refuses
  Vcpus,         \* numbers of processors that callers ask for
  Memory,        \* amounts of memory that callers ask for
  MaxVcpus, MaxMemory,   \* the quota
  Width,
  Ports,         \* ports of the guest, as sets of bits
  MaxMachines, MaxExits, MaxPackets   \* bounds

ConstantsOK ==
  /\ Vcpus \cup Memory \subseteq 0 .. Width - 1
  /\ {MaxVcpus, MaxMemory} \subseteq 0 .. Width - 1
  /\ {MaxMachines, MaxExits, MaxPackets} \subseteq Nat
  /\ Ports \subseteq SUBSET (0 .. 15)

VARIABLES
  (* VmManager *)
  vms,           \* id -> machine
  next_vm_id, total_vcpus, total_memory_mb,
  wrapped,       \* a total has wrapped (for the properties)
  (* VmExitHandler and the processor it serves *)
  port_handlers, exit_count, exit_counts_by_reason, vcpu, handled,
  (* A VirtioNetDevice or VirtioBlockDevice *)
  device

managervars == <<vms, next_vm_id, total_vcpus, total_memory_mb, wrapped>>
exitvars == <<port_handlers, exit_count, exit_counts_by_reason, vcpu, handled>>
devicevars == <<device>>
vars == <<managervars, exitvars, devicevars>>

-----------------------------------------------------------------------------
(* Machines                                                                *)

AllowedTransitions(state) ==
  LET always == {"Destroyed", "Failed"}
  IN  CASE state = "Created"    -> {"Configured"} \cup always
        [] state = "Configured" -> {"Running"} \cup always
        [] state = "Running"    -> {"Paused", "Saving"} \cup always
        [] state = "Paused"     -> {"Running"} \cup always
        [] state = "Saving"     -> {"Paused"} \cup always
        [] state = "Restoring"  -> {"Running"} \cup always
        [] state = "Destroyed"  -> {}
        [] state = "Failed"     -> {"Destroyed"}

VmState == {"Created", "Configured", "Running", "Paused", "Saving", "Restoring",
            "Destroyed", "Failed"}

Config(name, vcpu_count, memory_mb) ==
  [name |-> name, vcpu_count |-> vcpu_count, memory_mb |-> memory_mb]

Valid(config) == config.vcpu_count # 0 /\ config.memory_mb # 0 /\ config.name # ""

(* The sum of a total and a request, as a release build computes it        *)
Plus(total, n) == (total + n) % Width
Minus(total, n) == (total - n) % Width

WithinQuota(config) ==
  /\ Plus(total_vcpus, config.vcpu_count) <= MaxVcpus
  /\ Plus(total_memory_mb, config.memory_mb) <= MaxMemory

CreateVm(config) ==
  /\ Valid(config)
  /\ \A id \in DOMAIN vms : vms[id].config.name # config.name
  /\ WithinQuota(config)
  /\ vms' = (next_vm_id :> [config |-> config, state |-> "Created"]) @@ vms
  /\ next_vm_id' = next_vm_id + 1
  /\ total_vcpus' = Plus(total_vcpus, config.vcpu_count)
  /\ total_memory_mb' = Plus(total_memory_mb, config.memory_mb)
  /\ wrapped' = (\/ wrapped \/ total_vcpus + config.vcpu_count >= Width
                 \/ total_memory_mb + config.memory_mb >= Width)
  /\ UNCHANGED <<exitvars, devicevars>>

Transition(id, state) ==
  /\ id \in DOMAIN vms
  /\ state \in AllowedTransitions(vms[id].state)
  /\ vms' = [vms EXCEPT ![id].state = state]
  /\ UNCHANGED <<next_vm_id, total_vcpus, total_memory_mb, wrapped, exitvars, devicevars>>

ConfigureVm(id) == Transition(id, "Configured")
StartVm(id) == Transition(id, "Running")
PauseVm(id) == Transition(id, "Paused")
ResumeVm(id) == Transition(id, "Running")

DestroyVm(id) ==
  /\ id \in DOMAIN vms
  /\ "Destroyed" \in AllowedTransitions(vms[id].state)
  /\ vms' = [i \in DOMAIN vms \ {id} |-> vms[i]]
  /\ total_vcpus' = Minus(total_vcpus, vms[id].config.vcpu_count)
  /\ total_memory_mb' = Minus(total_memory_mb, vms[id].config.memory_mb)
  /\ UNCHANGED <<next_vm_id, wrapped, exitvars, devicevars>>

ManagerNext ==
  \/ \E n \in MachineNames, c \in Vcpus, m \in Memory :
       next_vm_id <= MaxMachines /\ CreateVm(Config(n, c, m))
  \/ \E id \in DOMAIN vms :
       ConfigureVm(id) \/ StartVm(id) \/ PauseVm(id) \/ ResumeVm(id) \/ DestroyVm(id)

-----------------------------------------------------------------------------
(* Exits                                                                   *)

(* The reasons whose handling differs; Hlt stops the processor *)
VmExitReason ==
  {"IoAccess", "Hlt", "Cpuid", "TripleFault", "EptMisconfig", "EptViolation",
   "ExternalInterrupt", "Unknown"}

(* The bit of a write lies among those of the port *)
IoExit(port, is_write) == port \cup (IF is_write THEN {3} ELSE {}) \cup {16}

ParseIoOperation(qualification) ==
  [port |-> qualification \cap 0 .. 15, is_write |-> 3 \in qualification,
   size |-> qualification \cap 16 .. 18, value |-> qualification \cap 32 .. 63]

(* A handler that is not there is as good as one that succeeds *)
HandleIo(op, fails) == IF op.port \in port_handlers /\ fails THEN "Error" ELSE "AdvanceRip"

Action(reason, qualification, fails) ==
  CASE reason = "IoAccess" -> HandleIo(ParseIoOperation(qualification), fails)
    [] reason = "Hlt" -> "Halt"
    [] reason \in {"TripleFault", "EptMisconfig"} -> "Shutdown"
    [] reason \in {"ExternalInterrupt", "EptViolation"} -> "Continue"
    [] reason \in {"Cpuid", "Unknown"} -> "AdvanceRip"

Sum(f) == FoldFunctionOnSet(+, 0, f, DOMAIN f)

(* The exit is counted before it is handled, so that one whose handler     *)
(* fails counts too                                                        *)
HandleExit(reason, qualification, fails) ==
  /\ exit_count' = exit_count + 1
  /\ exit_counts_by_reason' = [exit_counts_by_reason EXCEPT ![reason] = @ + 1]
  /\ vcpu' = [vcpu EXCEPT !.exit_count = @ + 1]
  /\ handled' = [reason |-> reason, op |-> ParseIoOperation(qualification),
                 action |-> Action(reason, qualification, fails)]
  /\ UNCHANGED <<port_handlers, managervars, devicevars>>

RegisterPort(port) ==
  /\ port_handlers' = port_handlers \cup {port}
  /\ UNCHANGED <<exit_count, exit_counts_by_reason, vcpu, handled, managervars, devicevars>>

(* get_reg and set_reg by number; any other number is ignored *)
Registers == 0 .. 15
GetReg(registers, i) == IF i \in Registers THEN registers[i] ELSE 0
SetReg(registers, i, v) == IF i \in Registers THEN [registers EXCEPT ![i] = v] ELSE registers

SaveRegisters(i, v) ==
  /\ vcpu' = [vcpu EXCEPT !.registers = SetReg(vcpu.registers, i, v)]
  /\ UNCHANGED <<port_handlers, exit_count, exit_counts_by_reason, handled, managervars, devicevars>>

ExitNext ==
  \/ \E r \in VmExitReason \ {"IoAccess"} : exit_count < MaxExits /\ HandleExit(r, {}, FALSE)
  \/ \E p \in Ports, w \in BOOLEAN, fails \in BOOLEAN :
       exit_count < MaxExits /\ HandleExit("IoAccess", IoExit(p, w), fails)
  \/ \E p \in Ports : RegisterPort(p)
  \/ \E i \in {0, 15, 16}, v \in {0, 1} : SaveRegisters(i, v)

-----------------------------------------------------------------------------
(* Virtio devices: a network device has a queue to receive and one to      *)
(* send, a block device has one                                            *)

DRIVER_OK == 4
QUEUES(type) == IF type = "Net" THEN {0, 1} ELSE {0}

NewDevice(type) ==
  [type |-> type, status |-> 0, features |-> type,
   ready |-> [q \in QUEUES(type) |-> FALSE], packets |-> [q \in {0, 1} |-> 0]]

Activate ==
  device' = [device EXCEPT !.status = DRIVER_OK, !.ready = [q \in DOMAIN @ |-> TRUE]]

(* A block device ignores it, a network device counts what is one of its   *)
(* queues                                                                  *)
HandleQueueNotify(q) ==
  device' = IF device.type = "Net" /\ q \in {0, 1}
              THEN [device EXCEPT !.packets[q] = @ + 1] ELSE device

(* The configuration space, by what is at an offset *)
HandleConfigRead(offset, size) ==
  CASE device.type = "Block" /\ offset \in 0 .. 7 /\ size <= 8 -> "capacity"
    [] device.type = "Block" /\ offset \in 8 .. 11 /\ size <= 4 -> "block size"
    [] device.type = "Net" /\ offset \in 0 .. 5 /\ size <= 6 -> "address"
    [] device.type = "Net" /\ offset = 6 /\ size <= 2 -> "link up"
    [] OTHER -> "DeviceError"

SetStatus(status) == device' = [device EXCEPT !.status = status]
SetFeatures(features) == device' = [device EXCEPT !.features = features]

(* reset keeps the features that were agreed on *)
Reset == device' = [NewDevice(device.type) EXCEPT !.features = device.features]

DeviceNext ==
  /\ \/ Activate
     \/ \E q \in 0 .. 2 : HandleQueueNotify(q)
     \/ \E s \in {0, 1, DRIVER_OK} : SetStatus(s)
     \/ SetFeatures("agreed")
     \/ Reset
  /\ \A q \in {0, 1} : device'.packets[q] <= MaxPackets
  /\ UNCHANGED <<managervars, exitvars>>

Init ==
  /\ vms = <<>> /\ next_vm_id = 1 /\ total_vcpus = 0 /\ total_memory_mb = 0
  /\ wrapped = FALSE
  /\ port_handlers = {} /\ exit_count = 0
  /\ exit_counts_by_reason = [r \in VmExitReason |-> 0]
  /\ vcpu = [state |-> "Idle", registers |-> [i \in Registers |-> 0], exit_count |-> 0]
  /\ handled = [reason |-> "None"]
  /\ device \in {NewDevice("Net"), NewDevice("Block")}

-----------------------------------------------------------------------------

(* The types of the variables. *)
TypeOK ==
  /\ DOMAIN vms \subseteq 1 .. next_vm_id - 1
  /\ \A id \in DOMAIN vms : vms[id].state \in VmState \ {"Destroyed"}
  /\ {total_vcpus, total_memory_mb} \subseteq 0 .. Width - 1
  /\ port_handlers \subseteq Ports
  /\ exit_count \in Nat /\ vcpu.exit_count \in Nat
  /\ wrapped \in BOOLEAN
  /\ device.type \in {"Net", "Block"} /\ device.status \in 0 .. DRIVER_OK
  /\ \A q, r \in DOMAIN device.ready : device.ready[q] = device.ready[r]
  /\ device.type = "Block" => device.packets = [q \in {0, 1} |-> 0]

(* The totals are those of the machines there are, up to a wrap; until a   *)
(* total has wrapped all machines together are within the quota; and no    *)
(* two of them have the same name.                                         *)
QuotaKept ==
  LET vcpus == Sum([id \in DOMAIN vms |-> vms[id].config.vcpu_count])
      memory == Sum([id \in DOMAIN vms |-> vms[id].config.memory_mb])
  IN  /\ total_vcpus = vcpus % Width /\ total_memory_mb = memory % Width
      /\ ~wrapped => vcpus <= MaxVcpus /\ memory <= MaxMemory
      /\ \A i, j \in DOMAIN vms : i # j => vms[i].config.name # vms[j].config.name

(* Every exit is counted once, in all three places; an access to a port    *)
(* without bit 3 is decoded as what it was if it reads, one to a port with *)
(* it if it writes, and no write carries a value.                          *)
ExitsCounted ==
  /\ exit_count = Sum(exit_counts_by_reason) /\ exit_count = vcpu.exit_count
  /\ \A p \in Ports, w \in BOOLEAN :
       LET op == ParseIoOperation(IoExit(p, w))
       IN  /\ (op.port = p /\ op.is_write = w) <=> (3 \in p <=> w)
           /\ op.value = {}

=============================================================================

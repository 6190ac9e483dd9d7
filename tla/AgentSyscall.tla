----------------------------- MODULE AgentSyscall -----------------------------
(***************************************************************************)
(* The agent system calls, kernel/src/syscall/dispatch.rs, with the binary *)
(* interface they use, kernel/src/syscall/abi.rs.                          *)
(*                                                                         *)
(* dispatch.rs has a pool of agents and a communication manager of its     *)
(* own, each behind a lock that a handler holds to its end, so that every  *)
(* handler is one step on the two: a table of agents that spawn fills and  *)
(* kill empties (AgentPool), and a bounded queue per handle (AgentComm).   *)
(* init replaces the two under one lock after the other; calls of other    *)
(* processors come between.  No system call takes a message out of a       *)
(* mailbox or removes a subscription.                                      *)
(*                                                                         *)
(* On top of the calls is the runtime library of agents,                   *)
(* crates/libagent/src/lib.rs: configurations and their translation to the *)
(* kernel's specifications, the calls of AgentRuntime, and the translation *)
(* of what the kernel returns.  Other processes use the calls directly.    *)
(*                                                                         *)
(* A name is a sequence of bytes, of which only NUL is special; a          *)
(* parameter of a configuration is the length of its key=value entry.      *)
(***************************************************************************)
EXTENDS Integers, FiniteSets, SequencesExt

CONSTANTS
  MaxAgents,         \* slots of the pool
  MaxMailboxes,      \* handle h has the mailbox of index h - 1
  MailboxCapacity,
  MaxSubscriptions,
  Types, Names,      \* what the specifications of agents say
  MAX_NAME_LEN,
  ParamSize,         \* the bytes of init_param
  Configs,           \* the configurations that the library's callers use
  MaxHandle,         \* bound: handles ever allocated by a pool
  MaxMsgId,          \* bound: message ids ever allocated by a manager
  MaxInits           \* bound: initialisations

ConstantsOK ==
  /\ MaxAgents \in Nat \ {0} /\ MaxMailboxes \in Nat \ {0}
  /\ MailboxCapacity \in Nat \ {0} /\ MaxSubscriptions \in Nat
  /\ MaxHandle \in Nat /\ MaxMsgId \in Nat /\ MaxInits \in Nat \ {0}

VARIABLES
  pool,        \* the live agents by handle and the next handle, None before init
  comm,        \* mailboxes, subscriptions, next message id, None before init
  inits,       \* initialisations begun, and whether one is between its two locks
  ret,         \* what the last system call returned in rax
  accepted,    \* history: the messages a send returned an id for, since init
  killed,      \* history: handles killed since init began
  (* The library *)
  last,        \* its last call: what it was about and its outcome
  held         \* history: what each handle that spawn returned was spawned from

kernelvars == <<pool, comm, inits, ret, accepted, killed>>
libvars == <<kernelvars, last, held>>

None == [none |-> TRUE]
Null == [null |-> TRUE]

-----------------------------------------------------------------------------
(* The binary interface *)

Handles == 1 .. MaxHandle
INVALID == 0
Boxes == 1 .. MaxMailboxes

E_OK == 0
E_INVAL == -22
E_PERM == -1
E_NOENT == -2
E_NOMEM == -12
E_BUSY == -16
E_NOTSUP == -95
E_AGAIN == -11
E_SRCH == -3
E_ACCES == -13
E_FAULT == -14
E_TIMEOUT == -110
E_QUOTA == -200
E_CAP == -201

(* The specification of an agent, and how long the caller says it is *)
AgentSpecs ==
  [version : 1 .. 2, complete : BOOLEAN, agent_type : Types, name : Names,
   capabilities : SUBSET (0 .. 127)]

(* What is known of an agent; the pool never moves it out of Creating *)
AgentInfos == [agent_type : Types, name : Names, state : {"Creating"}]

MsgEntries == [msg_id : 1 .. MaxMsgId, src : 0 .. MaxHandle, dst : Boxes]

-----------------------------------------------------------------------------

Init ==
  /\ pool = None /\ comm = None
  /\ inits = [begun |-> 0, half |-> FALSE]
  /\ ret = E_OK
  /\ accepted = {} /\ killed = {}

(* init: a new pool, then a new manager *)
InitPool ==
  /\ inits.begun < MaxInits /\ ~inits.half
  /\ pool' = [agents |-> <<>>, next |-> 1]
  /\ inits' = [begun |-> inits.begun + 1, half |-> TRUE]
  /\ accepted' = {} /\ killed' = {}
  /\ UNCHANGED <<comm, ret>>

InitComm ==
  /\ inits.half
  /\ comm' = [mailboxes |-> [h \in Boxes |-> <<>>], subscriptions |-> {}, next |-> 1]
  /\ inits' = [inits EXCEPT !.half = FALSE]
  /\ UNCHANGED <<pool, ret, accepted, killed>>

Live == IF pool = None THEN {} ELSE DOMAIN pool.agents

Returns(code) == ret' = code

(* spawn: the pointer, the length and the version, then a free slot *)
SpawnError(spec) ==
  IF spec = Null THEN E_FAULT
  ELSE IF ~spec.complete \/ spec.version # 1 THEN E_INVAL
  ELSE IF pool = None \/ Cardinality(Live) = MaxAgents THEN E_AGAIN
  ELSE E_OK

AgentSpawn(spec) ==
  /\ IF SpawnError(spec) # E_OK
     THEN Returns(SpawnError(spec)) /\ UNCHANGED pool
     ELSE LET h == pool.next
              info == [agent_type |-> spec.agent_type, name |-> spec.name, state |-> "Creating"]
          IN /\ h <= MaxHandle
             /\ pool' = [agents |-> [g \in Live \cup {h} |-> IF g = h THEN info ELSE pool.agents[g]],
                         next |-> h + 1]
             /\ Returns(h)
  /\ UNCHANGED <<comm, inits, accepted, killed>>

(* kill with signal 0 or 1 removes an agent; query *)
KillError(h, signal) ==
  IF pool = None THEN E_AGAIN
  ELSE IF h = INVALID THEN E_INVAL
  ELSE IF h \notin Live THEN E_SRCH
  ELSE IF signal \notin {0, 1} THEN E_INVAL
  ELSE E_OK

AgentKill(h, signal) ==
  /\ Returns(KillError(h, signal))
  /\ IF KillError(h, signal) = E_OK
     THEN /\ pool' = [pool EXCEPT !.agents = [g \in Live \ {h} |-> pool.agents[g]]]
          /\ killed' = killed \cup {h}
     ELSE UNCHANGED <<pool, killed>>
  /\ UNCHANGED <<comm, inits, accepted>>

AgentQuery(h) ==
  /\ Returns(KillError(h, 0))
  /\ UNCHANGED <<pool, comm, inits, accepted, killed>>

(* msg: neither handle is looked up in the pool.  A refusal of a full      *)
(* mailbox spends the id.                                                  *)
MsgError(dst) ==
  IF comm = None THEN E_AGAIN
  ELSE IF dst = INVALID THEN E_INVAL
  ELSE IF dst \notin Boxes THEN E_SRCH
  ELSE IF Len(comm.mailboxes[dst]) >= MailboxCapacity THEN E_BUSY
  ELSE E_OK

AgentMsg(src, dst) ==
  /\ CASE MsgError(dst) = E_OK ->
            LET entry == [msg_id |-> comm.next, src |-> src, dst |-> dst]
            IN /\ comm.next <= MaxMsgId
               /\ comm' = [comm EXCEPT !.next = @ + 1, !.mailboxes[dst] = Append(@, entry)]
               /\ Returns(comm.next)
               /\ accepted' = IF inits.half THEN accepted ELSE accepted \cup {entry}
       [] MsgError(dst) = E_BUSY ->
            /\ comm.next <= MaxMsgId
            /\ comm' = [comm EXCEPT !.next = @ + 1]
            /\ Returns(E_BUSY) /\ UNCHANGED accepted
       [] OTHER -> Returns(MsgError(dst)) /\ UNCHANGED <<comm, accepted>>
  /\ UNCHANGED <<pool, inits, killed>>

(* subscribe: the topic is the target's handle, byte by byte *)
AgentSubscribe(subscriber, target) ==
  LET sub == <<subscriber, target>>
  IN /\ IF comm = None THEN Returns(E_AGAIN) /\ UNCHANGED comm
        ELSE IF subscriber = INVALID THEN Returns(E_INVAL) /\ UNCHANGED comm
        ELSE IF sub \in comm.subscriptions THEN Returns(E_OK) /\ UNCHANGED comm
        ELSE IF Cardinality(comm.subscriptions) = MaxSubscriptions
        THEN Returns(E_AGAIN) /\ UNCHANGED comm
        ELSE Returns(E_OK) /\ comm' = [comm EXCEPT !.subscriptions = @ \cup {sub}]
     /\ UNCHANGED <<pool, inits, accepted, killed>>

(* The calls that are not implemented look at one pointer at most *)
PointerError(null) == IF null THEN E_FAULT ELSE E_NOTSUP

RegisterError(null, len) == IF ~null /\ len = 0 THEN E_INVAL ELSE E_NOTSUP
MigrateError(null) == PointerError(null)
MemoryShareError(null) == PointerError(null)
CapGrantError == E_NOTSUP
CapRevokeError == E_NOTSUP
BindPortError == E_NOTSUP
ExportError(null) == PointerError(null)
ImportError(null) == PointerError(null)
SetQuotaError(null) == PointerError(null)
GetQuotaError(null) == PointerError(null)
SnapshotError(null) == PointerError(null)
RestoreError(null) == PointerError(null)

Unimplemented ==
  /\ \E null \in BOOLEAN, len \in 0 .. 1 :
       ret' \in {RegisterError(null, len), MigrateError(null), MemoryShareError(null),
                 CapGrantError, CapRevokeError, BindPortError, ExportError(null),
                 ImportError(null), SetQuotaError(null), GetQuotaError(null),
                 SnapshotError(null), RestoreError(null)}
  /\ UNCHANGED <<pool, comm, inits, accepted, killed>>

(* A message header may be missing, too *)
NullHeader ==
  Returns(E_FAULT) /\ UNCHANGED <<pool, comm, inits, accepted, killed>>

(* The entry for the calls with handles and pointers; every other number   *)
(* is the business of PosixSyscall or E_NOTSUP.                            *)
Dispatch(number, arg1, arg2) ==
  CASE number = "SYS_AGENT_SPAWN" -> AgentSpawn(arg1)
    [] number = "SYS_AGENT_KILL" -> AgentKill(arg1, arg2)
    [] number = "SYS_AGENT_QUERY" -> AgentQuery(arg1)
    [] number = "SYS_AGENT_MSG" -> AgentMsg(arg1, arg2)
    [] number = "SYS_AGENT_SUBSCRIBE" -> AgentSubscribe(arg1, arg2)
    [] OTHER -> /\ ret' = CASE number = "SYS_AGENT_CAP_GRANT" -> CapGrantError
                            [] number = "SYS_AGENT_SET_QUOTA" -> SetQuotaError(FALSE)
                            [] number = "SYS_AGENT_GET_QUOTA" -> GetQuotaError(FALSE)
                /\ UNCHANGED <<pool, comm, inits, accepted, killed>>

-----------------------------------------------------------------------------
(* Bit maps.  CapBitmap has 2 words of 64 bits, EventMask 4. *)

SetBit(bits, i, words) == IF i \div 64 < words THEN bits \cup {i} ELSE bits
ClearBit(bits, i, words) == IF i \div 64 < words THEN bits \ {i} ELSE bits
IsSet(bits, i, words) == i \div 64 < words /\ i \in bits
ContainsMask(mask, other) == other \subseteq mask

AgentTypes ==
  {"Generic", "AIInference", "DataProcessing", "Network", "System", "Sandbox", "Virtualization"}

CapabilityNames ==
  <<"spawn_agent", "spawn_system_agent", "network", "device_access", "ipc", "shared_memory",
    "filesystem", "admin", "virtualization", "enclave", "spawn_enclaved">>

(* The index of a capability, none for an unknown name *)
CapabilityToIndex(name) == {i - 1 : i \in {j \in DOMAIN CapabilityNames : CapabilityNames[j] = name}}

(* Signals by number; the kernel knows the first two *)
Signals == [Kill |-> 0, Terminate |-> 1, Freeze |-> 3, Thaw |-> 4]

-----------------------------------------------------------------------------
(* Configurations *)

NUL == 0

(* AgentConfig::new and its setters *)
AgentConfig(name, agent_type, capabilities, params) ==
  [name |-> name, agent_type |-> agent_type, capabilities |-> capabilities, params |-> params]

(* The bytes of init_param that the parameters fill, in the order in which *)
(* the hash map yields them; what does not fit is cut                      *)
ParamBytes(order) ==
  FoldLeft(LAMBDA offset, len : IF offset = ParamSize THEN offset
                                ELSE offset + (IF len <= ParamSize - offset THEN len ELSE ParamSize - offset),
           0, order)

NameOk(config) == config.name # <<>> /\ Len(config.name) <= MAX_NAME_LEN

DefaultSpec ==
  [version |-> 1, complete |-> TRUE, agent_type |-> "Generic", name |-> <<>>, capabilities |-> {}]

Build(config) ==
  [DefaultSpec EXCEPT !.agent_type = config.agent_type, !.name = config.name,
   !.capabilities = FoldLeft(LAMBDA bits, cap : UNION {SetBit(bits, i, 2) : i \in CapabilityToIndex(cap)}
                                                \cup bits,
                             {}, config.capabilities)]

(* AgentInfoView: the name ends at the first NUL *)
UntilNul(name) ==
  LET stops == {i \in DOMAIN name : name[i] = NUL}
  IN IF stops = {} THEN name
     ELSE SubSeq(name, 1, (CHOOSE i \in stops : \A j \in stops : i <= j) - 1)

FromKernel(info) == [agent_type |-> info.agent_type, name |-> UntilNul(info.name)]

-----------------------------------------------------------------------------
(* Outcomes *)

RuntimeErrors ==
  {"InvalidHandle", "AgentNotFound", "PermissionDenied", "InvalidConfig", "QuotaExceeded",
   "NotSupported", "InternalError", "Timeout"}

(* Mutated form of FromErrorCode: a busy mailbox counts as a missing agent. *)
FromErrorCodeBusy(code) ==
  CASE code \in {E_NOENT, E_SRCH, E_BUSY} -> "AgentNotFound"
    [] code \in {E_INVAL, E_FAULT} -> "InvalidConfig"
    [] code \in {E_PERM, E_ACCES, E_CAP} -> "PermissionDenied"
    [] code \in {E_NOMEM, E_QUOTA} -> "QuotaExceeded"
    [] code = E_NOTSUP -> "NotSupported"
    [] code = E_TIMEOUT -> "Timeout"
    [] OTHER -> "InternalError"

FromErrorCode(code) ==
  CASE code \in {E_INVAL, E_FAULT} -> "InvalidConfig"
    [] code \in {E_PERM, E_ACCES, E_CAP} -> "PermissionDenied"
    [] code \in {E_NOENT, E_SRCH} -> "AgentNotFound"
    [] code \in {E_NOMEM, E_QUOTA} -> "QuotaExceeded"
    [] code = E_NOTSUP -> "NotSupported"
    [] code = E_TIMEOUT -> "Timeout"
    [] OTHER -> "InternalError"

(* Ok of a number from 0 on, an error for a negative one *)
FromSyscallResult(code) == IF code >= 0 THEN "Ok" ELSE FromErrorCode(code)

Reports(call, handle, outcome) ==
  last' = [call |-> call, handle |-> handle, outcome |-> outcome]

(* A call that answers without the kernel *)
Answers(call, handle, outcome) ==
  Reports(call, handle, outcome) /\ UNCHANGED <<kernelvars, held>>

(* A call that reports what the kernel returned *)
Relays(call, handle) ==
  Reports(call, handle, FromSyscallResult(ret'))

-----------------------------------------------------------------------------
(* The module syscall: one register call per system call *)

raw_syscall(number, arg1, arg2) == Dispatch(number, arg1, arg2)

agent_spawn(spec) == raw_syscall("SYS_AGENT_SPAWN", spec, 0)
agent_kill(handle, signal) == raw_syscall("SYS_AGENT_KILL", handle, signal)
agent_query(handle) == raw_syscall("SYS_AGENT_QUERY", handle, 0)
agent_msg(src, dst) == raw_syscall("SYS_AGENT_MSG", src, dst)
agent_subscribe(subscriber, target) == raw_syscall("SYS_AGENT_SUBSCRIBE", subscriber, target)
agent_cap_grant(handle, cap) == raw_syscall("SYS_AGENT_CAP_GRANT", handle, cap)
agent_set_quota(handle) == raw_syscall("SYS_AGENT_SET_QUOTA", handle, 0)
agent_get_quota(handle) == raw_syscall("SYS_AGENT_GET_QUOTA", handle, 0)

-----------------------------------------------------------------------------
(* AgentRuntime *)

LibInit ==
  /\ Init
  /\ last = [call |-> "none", handle |-> INVALID, outcome |-> "Ok"]
  /\ held = <<>>

Spawn(config) ==
  IF NameOk(config)
  THEN /\ agent_spawn(Build(config))
       /\ Reports("spawn", IF ret' >= 0 THEN ret' ELSE INVALID, FromSyscallResult(ret'))
       /\ held' = IF ret' < 0 THEN held
                  ELSE [h \in DOMAIN held \cup {ret'} |-> IF h = ret' THEN config ELSE held[h]]
  ELSE Answers("spawn", INVALID, "InvalidConfig")

Kill(h, signal) ==
  IF h = INVALID THEN Answers("kill", h, "InvalidHandle")
  ELSE agent_kill(h, Signals[signal]) /\ Relays("kill", h) /\ UNCHANGED held

Query(h) ==
  IF h = INVALID THEN Answers("query", h, "InvalidHandle")
  ELSE agent_query(h) /\ Relays("query", h) /\ UNCHANGED held

List == Answers("list", INVALID, "Ok")

Send(src, dst) ==
  IF src = INVALID \/ dst = INVALID THEN Answers("send", dst, "InvalidHandle")
  ELSE agent_msg(src, dst) /\ Relays("send", dst) /\ UNCHANGED held

Receive(h) == Answers("receive", h, "NotSupported")

(* The events of the kernel itself: the target is always handle 0 *)
Subscribe(h) ==
  IF h = INVALID THEN Answers("subscribe", h, "InvalidHandle")
  ELSE agent_subscribe(h, INVALID) /\ Relays("subscribe", h) /\ UNCHANGED held

(* The kernel implements none of these *)
RegisterCapability(h, cap) ==
  IF h = INVALID THEN Answers("register_capability", h, "InvalidHandle")
  ELSE IF CapabilityToIndex(cap) = {} THEN Answers("register_capability", h, "InvalidConfig")
  ELSE /\ agent_cap_grant(h, CapabilityToIndex(cap))
       /\ Relays("register_capability", h) /\ UNCHANGED held

SetQuota(h) ==
  IF h = INVALID THEN Answers("set_quota", h, "InvalidHandle")
  ELSE agent_set_quota(h) /\ Relays("set_quota", h) /\ UNCHANGED held

GetQuota(h) ==
  IF h = INVALID THEN Answers("get_quota", h, "InvalidHandle")
  ELSE agent_get_quota(h) /\ Relays("get_quota", h) /\ UNCHANGED held

(* Other processes and the kernel *)
Others ==
  /\ \/ InitComm
     \/ \E spec \in {Null, [version |-> 2, complete |-> TRUE], [version |-> 1, complete |-> FALSE]} :
          AgentSpawn(spec)
     \/ \E h \in Handles : AgentKill(h, 1)
     \/ Unimplemented
     \/ NullHeader
  /\ UNCHANGED <<last, held>>

(* Handles of an earlier pool mean nothing any more *)
Restart == InitPool /\ held' = <<>> /\ UNCHANGED last

LibNext ==
  \/ Restart
  \/ Others
  \/ \E config \in Configs : Spawn(config)
  \/ \E h \in 0 .. MaxHandle, signal \in DOMAIN Signals : Kill(h, signal)
  \/ \E h \in 0 .. MaxHandle : Query(h)
  \/ List
  \/ \E src \in 0 .. 1, dst \in 0 .. MaxHandle : Send(src, dst)
  \/ \E h \in 0 .. 1 : Receive(h)
  \/ \E h \in 0 .. 1 : Subscribe(h)
  \/ \E h \in 0 .. 1, cap \in {"ipc", "?"} : RegisterCapability(h, cap)
  \/ \E h \in 0 .. 1 : SetQuota(h)
  \/ \E h \in 0 .. 1 : GetQuota(h)

-----------------------------------------------------------------------------

KernelTypeOK ==
  /\ pool = None \/ /\ Live \subseteq Handles /\ pool.next \in 1 .. MaxHandle + 1
                    /\ pool.agents \in [Live -> AgentInfos]
  /\ comm = None \/ /\ comm.mailboxes \in [Boxes -> Seq(MsgEntries)]
                    /\ comm.subscriptions \subseteq (0 .. MaxHandle) \X (0 .. MaxHandle)
                    /\ comm.next \in 1 .. MaxMsgId + 1
  /\ accepted \subseteq MsgEntries
  /\ killed \subseteq Handles

Kept == IF comm = None THEN {}
        ELSE UNION {{comm.mailboxes[h][i] : i \in DOMAIN comm.mailboxes[h]} : h \in Boxes}

(* A message that was accepted stays in the mailbox of the agent it names  *)
(* (no system call takes it out), in the order of the ids; the bounds and  *)
(* refusals lose none.  What is sent between the two halves of init is not *)
(* counted: it may be lost.                                                *)
AcceptedStays ==
  /\ accepted \subseteq Kept
  /\ comm # None =>
       \A h \in Boxes : LET box == comm.mailboxes[h]
                        IN /\ Len(box) <= MailboxCapacity
                           /\ \A i, j \in DOMAIN box : i < j => box[i].msg_id < box[j].msg_id
                           /\ \A i \in DOMAIN box : box[i].dst = h

(* Handles of the pool are fresh: none comes back after a kill.            *)
NeverReused == Live \cap killed = {}

LibTypeOK ==
  /\ KernelTypeOK
  /\ last \in [call : STRING, handle : 0 .. MaxHandle, outcome : RuntimeErrors \cup {"Ok"}]
  /\ DOMAIN held \subseteq Handles
  /\ \A config \in Configs :
       ParamBytes(config.params) <= ParamSize /\ config.agent_type \in AgentTypes

(* A handle that the library returned names an agent of the kernel's pool, *)
(* with the type, the capabilities' indexes and the name (up to a NUL) of  *)
(* the configuration, until someone kills it.                              *)
HeldAreLive ==
  \A h \in DOMAIN held \ killed :
    /\ h \in Live
    /\ FromKernel(pool.agents[h]) = [agent_type |-> held[h].agent_type, name |-> UntilNul(held[h].name)]

(* "Agent not found" means that it is gone, or never was there: from the   *)
(* calls that ask the pool always, from send unless the handle is beyond   *)
(* the mailboxes, which handles reach however few agents live, because     *)
(* they are never reused.                                                  *)
NotFoundIsGone ==
  [][(last' # last /\ last'.outcome = "AgentNotFound") =>
        \/ last'.handle \notin Live
        \/ last'.call = "send" /\ last'.handle > MaxMailboxes]_libvars

=============================================================================

------------------------------ MODULE MCAgents -------------------------------
(***************************************************************************)
(* The agents and their messages on small instances: the pool and the      *)
(* mailboxes, with callers behind the global lock and without it, one      *)
(* agent's control block, the IPC channels, the agents' system calls with  *)
(* the library on top of them, and the kernel's records of rights.  They   *)
(* share no state, so that in a behaviour only one of them moves: `part',  *)
(* chosen at the start, says which one and how.                            *)
(***************************************************************************)
EXTENDS AgentPool, AgentComm, AgentControlBlock, IpcChannel, Rights

CONSTANTS t1, t2, t3

VARIABLES
  part,
  pool, comm, inits, ret, accepted, killed_handles, last, held

poolvars == vars
kernelvars == <<pool, comm, inits, ret, accepted, killed_handles, last, held>>
mcvars == <<part, poolvars, commvars, agentvars, ipcvars, kernelvars, rightsvars>>

PoolThreads == {t1, t2, t3}

(* Agent 3 has no mailbox; the patterns are a* and ab *)
CommThreads == {t1, t2}
CommTopics == {<<"a", "*">>, <<"a", "b">>}

(* Names with and without a NUL, empty and too long; parameters that fill  *)
(* their space                                                             *)
AgentConfig(name, agent_type, capabilities, params) ==
  [name |-> name, agent_type |-> agent_type, capabilities |-> capabilities, params |-> params]

Runtime == INSTANCE AgentSyscall WITH
  MaxAgents <- 1, MaxMailboxes <- 1, MailboxCapacity <- 1, MaxSubscriptions <- 1,
  Types <- {"Network", "Generic"}, Names <- {<<1>>, <<1, 0, 1>>},
  MaxHandle <- 2, MaxMsgId <- 2, MaxInits <- 2, MAX_NAME_LEN <- 3, ParamSize <- 5,
  Configs <- {AgentConfig(<<>>, "Generic", <<>>, <<>>),
              AgentConfig(<<1, 1, 1, 1>>, "Generic", <<>>, <<>>),
              AgentConfig(<<1>>, "Network", <<"ipc", "?">>, <<3, 4>>),
              AgentConfig(<<1, 0, 1>>, "Generic", <<"admin">>, <<>>)},
  killed <- killed_handles

ASSUME Runtime!ConstantsOK

Parts ==
  {"pool", "comm", "control block", "channel", "system calls", "rights", "masks"}

MCInit ==
  /\ part \in Parts
  /\ Init
  /\ part # "pool" => outer_lock
  /\ CommInit
  /\ part # "comm" => comm_lock
  /\ AgentInit
  /\ IpcInit
  /\ Runtime!LibInit
  /\ RightsInit

(* The fields of the control block that calls have touched *)
Touched(field) ==
  CASE field = "state" ->
         state # "Creating" \/ \E t \in PoolThreads : acb_call[t].op = "set_state"
    [] field = "memory" ->
         reported # {0} \/ \E t \in PoolThreads : acb_call[t].op = "to_info"
    [] field \in Counters -> running[field] # 0
    [] field \in StoredFields -> stored[field] # 0

(* Bounds: two threads without the lock, one behind it, where the thread   *)
(* does not matter; one subscription where messages interleave, and behind *)
(* the lock two, the first of agent 1; the state, the use, a counter or a   *)
(* time of the control block; tokens beside an empty bitmap; one kind of mask   *)
MCNext ==
  /\ UNCHANGED part
  /\ \/ /\ part = "pool" /\ Next
        /\ outer_lock \/ pc'[t3] = "idle"
        /\ UNCHANGED <<commvars, agentvars, ipcvars, kernelvars, rightsvars>>
     \/ /\ part = "comm" /\ comm_lock /\ CommNext
        /\ comm_call'[t2] = Resting
        /\ subscriptions'[1] # None => subscriptions'[1].subscriber = 1
        /\ UNCHANGED <<poolvars, agentvars, ipcvars, kernelvars, rightsvars>>
     \/ /\ part = "comm" /\ ~comm_lock /\ CommNext
        /\ msg_counter' < MaxMsgId + 1
        /\ subscriptions'[2] = None
        /\ UNCHANGED <<poolvars, agentvars, ipcvars, kernelvars, rightsvars>>
     \/ /\ part = "control block" /\ AgentNext
        /\ Cardinality({f \in {"state", "memory"} \cup Counters \cup StoredFields :
                         Touched(f)'}) <= 1
        /\ UNCHANGED <<poolvars, commvars, ipcvars, kernelvars, rightsvars>>
     \/ /\ part = "channel" /\ IpcNext
        /\ UNCHANGED <<poolvars, commvars, agentvars, kernelvars, rightsvars>>
     \/ /\ part = "system calls" /\ Runtime!LibNext
        /\ UNCHANGED <<poolvars, commvars, agentvars, ipcvars, rightsvars>>
     \/ /\ part = "rights" /\ TokenNext /\ bitmap = {}
        /\ UNCHANGED <<poolvars, commvars, agentvars, ipcvars, kernelvars, bitmapvars, maskvars>>
     \/ /\ part = "rights" /\ BitmapNext /\ address_tokens = <<>>
        /\ UNCHANGED <<poolvars, commvars, agentvars, ipcvars, kernelvars, tokenrights, maskvars>>
     \/ /\ part = "masks" /\ MaskNext
        /\ Cardinality({kind \in DOMAIN marked : marked'[kind] # {}}) <= 1
        /\ UNCHANGED <<poolvars, commvars, agentvars, ipcvars, kernelvars, tokenrights, bitmapvars>>

MCSpec == MCInit /\ [][MCNext]_mcvars

-----------------------------------------------------------------------------

(* The types of the parts' variables, and the inductive invariants of the  *)
(* pool, the control block, the mailboxes, the IPC channels and the rights. *)
TypesOK ==
  CASE part = "pool"                     -> IInv
    [] part = "comm"                     -> IdsInv
    [] part = "control block"            -> AgentInv
    [] part = "channel"                  -> IpcInv
    [] part = "system calls"             -> Runtime!LibTypeOK
    [] part \in {"rights", "masks"}      -> RightsInv

(* No handle comes back after a kill, and what the library was told holds  *)
(* in the kernel: a handle it holds is an agent made from its configuration *)
(* until someone kills it, and a message that a send returned an id for is *)
(* in the mailbox it was sent to.  It says that an agent was not found     *)
(* only when it is gone, or for a send to a handle beyond the mailboxes.   *)
LibraryAgrees ==
  /\ [](part = "system calls" =>
          Runtime!NeverReused /\ Runtime!HeldAreLive /\ Runtime!AcceptedStays)
  /\ Runtime!NotFoundIsGone

=============================================================================

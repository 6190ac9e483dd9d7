------------------------------ MODULE MCCluster ------------------------------
(***************************************************************************)
(* What machines share and what connects them, on small instances: three   *)
(* nodes that replicate a counter, a set or a register, the members of a   *)
(* cluster, the sockets and the network stack, and the soft bus.  They     *)
(* share no state, so that in a behaviour only one of them moves: `kind',  *)
(* chosen at the start, says which.  The sockets are used by threads that  *)
(* keep to their own or that do not, the soft bus with the global lock or  *)
(* without.                                                                *)
(***************************************************************************)
EXTENDS Cluster, Network, SoftBus

VARIABLE kind

networkvars == <<tablevars, managervars, tcp>>
mcvars == <<kind, vars, networkvars, busvars>>

(* The constants of Cluster for the registers: a value is a node and the   *)
(* number of its write                                                     *)
Values == (1 .. 3) \X (1 .. 2)
EmptyValue == <<0, 0>>

Item == <<1, 1>>

OnCounter == INSTANCE Cluster WITH
  Elements <- {Item}, Kinds <- {"counter"}, Timestamps <- {0},
  MaxUpdates <- 2, MaxMessages <- 2, MaxQueue <- 1,
  Local <- 1, Timeouts <- {1, 2}, MaxTime <- 4

OnSet == INSTANCE Cluster WITH
  Elements <- {Item}, Kinds <- {"set"}, Timestamps <- {0},
  MaxUpdates <- 2, MaxMessages <- 2, MaxQueue <- 1,
  Local <- 1, Timeouts <- {1, 2}, MaxTime <- 4

(* The table has two slots for threads that use only sockets they made,    *)
(* and one for any threads                                                 *)
Shared == INSTANCE Network WITH MAX_SOCKETS <- 1, MaxFds <- 3

ASSUME
  /\ OnCounter!ConstantsOK /\ OnSet!ConstantsOK

ReplicaKinds == {"counter", "set", "register"}
NetworkKinds == {"own sockets", "shared sockets", "stack", "tcp"}
BusKinds == {"discovery", "connections", "transport", "transport unlocked"}

MCInit ==
  /\ kind \in ReplicaKinds \cup {"members"} \cup NetworkKinds \cup BusKinds
  /\ Init
  /\ kind # "members" => heartbeat_timeout_ms = 1
  /\ NetInit
  /\ careful = (kind # "shared sockets")
  /\ BusInit
  /\ outer_lock = (kind # "transport unlocked")

(* Bound: two nodes write, every write a value of its own; the third only  *)
(* receives and sends                                                      *)
OwnValues ==
  \A n \in Node : \A u \in seen'[n] \ seen[n] : u.node # 3 /\ u.op[2] = <<u.node, u.number>>

ReplicasNext ==
  \/ kind = "counter" /\ OnCounter!ReplicaNext
  \/ kind = "set" /\ OnSet!ReplicaNext
  \/ kind = "register" /\ ReplicaNext /\ OwnValues

(* Bound: two members, one of them the local node *)
MembershipNext ==
  /\ kind = "members"
  /\ MemberNext
  /\ DOMAIN nodes' \subseteq {1, 2}

NetworkNext ==
  \/ kind = "own sockets" /\ TableNext /\ UNCHANGED <<managervars, tcp>>
  \/ kind = "shared sockets" /\ Shared!TableNext /\ UNCHANGED <<managervars, tcp>>
  \/ kind = "stack" /\ ManagerNext /\ UNCHANGED <<tablevars, tcp>>
  \/ kind = "tcp" /\ TcpNext /\ UNCHANGED <<tablevars, managervars>>

SoftBusNext ==
  /\ \/ kind = "discovery" /\ DiscoveryNext
     \/ kind = "connections" /\ ConnectionNext
     \/ kind \in {"transport", "transport unlocked"} /\ TransportNext
  /\ UNCHANGED outer_lock

MCNext ==
  /\ UNCHANGED kind
  /\ \/ ReplicasNext /\ UNCHANGED <<membervars, networkvars, busvars>>
     \/ MembershipNext /\ UNCHANGED <<replicavars, networkvars, busvars>>
     \/ NetworkNext /\ UNCHANGED <<vars, busvars>>
     \/ SoftBusNext /\ UNCHANGED <<vars, networkvars>>

MCSpec == MCInit /\ [][MCNext]_mcvars

-----------------------------------------------------------------------------

(* The types of the variables, and the invariants of the replicas, of the  *)
(* members, of the socket table and of the soft bus that the proofs need.  *)
TypesOK ==
  CASE kind \in ReplicaKinds \cup {"members"} -> TypeOK /\ IInv /\ MembersInv
    [] kind \in NetworkKinds -> NetTypeOK /\ TableInv
    [] kind \in BusKinds     -> BusInv

(* In the stack each port has one UDP socket, what was sent is counted     *)
(* once and names stay resolved, and addresses are classed by the blocks   *)
(* they are in; no connection is established without a SYN or closed       *)
(* without a FIN.  The counters of the soft bus differ by the messages in  *)
(* its queue or on their way; with the global lock the queue is in the     *)
(* order of the ids; the best connection to a device is the fastest that   *)
(* is connected, and devices that were seen have time stamps of their own. *)
(* And in a cluster the members found silent are those that were, but for  *)
(* the heartbeats that stored no time or an earlier one.                   *)
NetworkExact ==
  /\ kind = "stack" => ManagerExact
  /\ kind = "tcp" => HandshakeDone /\ AddressesExact
  /\ kind = "members" => MembersExact
  /\ kind \in BusKinds => BusExact

=============================================================================

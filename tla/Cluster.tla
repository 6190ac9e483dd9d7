------------------------------- MODULE Cluster -------------------------------
(***************************************************************************)
(* The replicated data types of omniagent-distributed (vector clocks,      *)
(* counters, sets and last-writer-wins registers), and nodes that replicate*)
(* them by sending each other snapshots over their message buses.  The     *)
(* crate has the data types and the bus and leaves it to its callers to    *)
(* put them together; here they do it in the plain way: a node counts each *)
(* update of its own in its vector clock, sends clock and replica, and     *)
(* merges what it receives.  The transport between the buses is outside    *)
(* the code: it may lose, delay, repeat and reorder messages.              *)
(*                                                                         *)
(* Besides these, what one node knows of the members of the cluster: their *)
(* states and when they were last heard of.  It meets the replicas nowhere *)
(* in the code.                                                            *)
(*                                                                         *)
(* A node that a clock or counter has no entry for counts as 0 there.      *)
(* Node ids are compared as numbers, as the code compares their bytes.     *)
(***************************************************************************)
EXTENDS Naturals, FiniteSetsExt, Sequences, SequencesExt

CONSTANTS
  Node,        \* ids of the nodes
  Elements,    \* what sets and registers hold
  NoValue,     \* the value of an empty register
  Kinds,       \* the data types that are updated: "counter", "set", "register"
  Timestamps,  \* what writers of the register pass as the time
  MaxUpdates,  \* bound: updates of all nodes together
  MaxMessages, \* bound: messages of all nodes together
  MaxQueue,    \* bound: messages that wait in one local queue
  Local,       \* local_node, whose list of members it is
  Timeouts,    \* heartbeat timeouts
  MaxTime      \* bound of the clock

VARIABLES
  replica,         \* node -> [clock, counter, set, register]
  outgoing,        \* node -> sequence of messages to be sent
  local_queue,     \* node -> sequence of messages received
  message_counter, \* node -> number of messages
  transit,         \* messages handed to the transport
  seen,            \* history: node -> updates its replica includes
  nodes,           \* member -> [state, last_heartbeat]
  heartbeat_timeout_ms,
  now,             \* the time that callers pass
  heard,           \* history: member -> the latest time it was heard of
  setback,         \* history: members whose stored heartbeat is not that time
  given_up         \* history: members found silent, whose state nobody set since

replicavars == <<replica, outgoing, local_queue, message_counter, transit, seen>>
membervars == <<nodes, heartbeat_timeout_ms, now, heard, setback, given_up>>
vars == <<replicavars, membervars>>

ConstantsOK ==
  /\ Node \subseteq Nat
  /\ NoValue \notin Elements
  /\ Kinds \subseteq {"counter", "set", "register"}
  /\ Timestamps \subseteq Nat
  /\ Local \in Node
  /\ Timeouts \subseteq Nat
  /\ MaxTime \in Nat

ASSUME ClusterAssumption == ConstantsOK

-----------------------------------------------------------------------------
(* Clocks and counters *)

Counts == [Node -> Nat]
NoCounts == [n \in Node |-> 0]

Larger(a, b) == IF a >= b THEN a ELSE b

Incremented(c, n) == [c EXCEPT ![n] = @ + 1]

(* Mutants of MergedCounts: the sum, or the remote value                   *)
MergedCountsSum(c, d) == [n \in Node |-> c[n] + d[n]]
MergedCountsLast(c, d) == [n \in Node |-> IF d[n] > 0 THEN d[n] ELSE c[n]]

MergedCounts(c, d) == [n \in Node |-> Larger(c[n], d[n])]

(* The sum of the counts, each of them as a set of that size               *)
CounterValue(c) == Cardinality(UNION {{n} \X (1 .. c[n]) : n \in Node})

(* The causal order of two clocks *)
Compare(c, d) ==
  LET has_less == \E n \in Node : c[n] < d[n]
      has_greater == \E n \in Node : c[n] > d[n]
  IN  CASE ~has_less /\ ~has_greater -> "Equal"
        [] has_less /\ ~has_greater -> "Before"
        [] ~has_less /\ has_greater -> "After"
        [] OTHER -> "Concurrent"

-----------------------------------------------------------------------------
(* Sets with tombstones *)

CrdtSets == [items : SUBSET Elements, tombstones : SUBSET Elements]
EmptySet == [items |-> {}, tombstones |-> {}]

Added(s, x) == IF x \in s.tombstones THEN s ELSE [s EXCEPT !.items = @ \cup {x}]

Removed(s, x) ==
  [items |-> s.items \ {x}, tombstones |-> s.tombstones \cup {x}]

MergedSets(s, t) ==
  LET tombstones == s.tombstones \cup t.tombstones
  IN  [items |-> (s.items \cup t.items) \ tombstones, tombstones |-> tombstones]

-----------------------------------------------------------------------------
(* Registers *)

Registers ==
  [value : Elements \cup {NoValue}, timestamp : Nat, node : Node]

EmptyRegister(n) == [value |-> NoValue, timestamp |-> 0, node |-> n]

(* The stamp wins over the register's own *)
Wins(timestamp, n, r) ==
  \/ timestamp > r.timestamp
  \/ timestamp = r.timestamp /\ n > r.node

Written(r, value, timestamp, n) ==
  IF Wins(timestamp, n, r)
  THEN [value |-> value, timestamp |-> timestamp, node |-> n]
  ELSE r

MergedRegisters(r, q) == IF Wins(q.timestamp, q.node, r) THEN q ELSE r

-----------------------------------------------------------------------------
(* Replicas                                                                *)

NewReplica(n) ==
  [clock |-> NoCounts, counter |-> NoCounts, set |-> EmptySet,
   register |-> EmptyRegister(n)]

ReplicaInit ==
  /\ replica = [n \in Node |-> NewReplica(n)]
  /\ outgoing = [n \in Node |-> <<>>]
  /\ local_queue = [n \in Node |-> <<>>]
  /\ message_counter = [n \in Node |-> 0]
  /\ transit = {}
  /\ seen = [n \in Node |-> {}]

(* An update of the node's own replica; its number in the node's clock     *)
(* tells it from all others                                                *)
Update(n, op, new) ==
  /\ Cardinality(UNION {seen[m] : m \in Node}) < MaxUpdates
  /\ LET clock == Incremented(replica[n].clock, n)
     IN  /\ replica' = [replica EXCEPT ![n] = [new EXCEPT !.clock = clock]]
         /\ seen' = [seen EXCEPT ![n] = @ \cup {[node |-> n, number |-> clock[n], op |-> op]}]
  /\ UNCHANGED <<outgoing, local_queue, message_counter, transit>>

Increment(n) ==
  /\ "counter" \in Kinds
  /\ Update(n, <<"increment">>,
            [replica[n] EXCEPT !.counter = Incremented(@, n)])

AddItem(n, x) ==
  /\ "set" \in Kinds
  /\ Update(n, <<"add", x>>, [replica[n] EXCEPT !.set = Added(@, x)])

RemoveItem(n, x) ==
  /\ "set" \in Kinds
  /\ Update(n, <<"remove", x>>, [replica[n] EXCEPT !.set = Removed(@, x)])

Write(n, x, timestamp) ==
  /\ "register" \in Kinds
  /\ Update(n, <<"write", x, timestamp>>,
            [replica[n] EXCEPT !.register = Written(@, x, timestamp, n)])

-----------------------------------------------------------------------------
(* The message bus *)

Message(n, id, dst) ==
  [id |-> id, src |-> n, dst |-> dst, payload |-> replica[n], updates |-> seen[n]]

(* Mutant: the number before it is counted up *)
LastId(n) == message_counter[n]
NextId(n) == message_counter[n] + 1

(* send to one node or broadcast to all: the bus numbers the message       *)
Send(n, dst) ==
  /\ MapThenSumSet(LAMBDA m : message_counter[m], Node) < MaxMessages
  /\ message_counter' = [message_counter EXCEPT ![n] = NextId(n)]
  /\ outgoing' = [outgoing EXCEPT
       ![n] = Append(@, Message(n, NextId(n), dst))]
  /\ UNCHANGED <<replica, local_queue, transit, seen>>

(* drain_outgoing, called by the transport *)
DrainOutgoing(n) ==
  /\ outgoing[n] # <<>>
  /\ transit' = transit \cup ToSet(outgoing[n])
  /\ outgoing' = [outgoing EXCEPT ![n] = <<>>]
  /\ UNCHANGED <<replica, local_queue, message_counter, seen>>

(* The transport delivers messages in any order, any number of times       *)
HandleIncoming(n) ==
  \E m \in transit :
    /\ m.src # n
    /\ n \in m.dst
    /\ Len(local_queue[n]) < MaxQueue
    /\ local_queue' = [local_queue EXCEPT ![n] = Append(@, m)]
    /\ UNCHANGED <<replica, outgoing, message_counter, transit, seen>>

Merged(r, s) ==
  [clock |-> MergedCounts(r.clock, s.clock),
   counter |-> MergedCounts(r.counter, s.counter),
   set |-> MergedSets(r.set, s.set),
   register |-> MergedRegisters(r.register, s.register)]

(* receive, and the node merges what it received *)
Receive(n) ==
  /\ local_queue[n] # <<>>
  /\ LET m == Head(local_queue[n])
     IN  /\ replica' = [replica EXCEPT ![n] = Merged(@, m.payload)]
         /\ seen' = [seen EXCEPT ![n] = @ \cup m.updates]
  /\ local_queue' = [local_queue EXCEPT ![n] = Tail(@)]
  /\ UNCHANGED <<outgoing, message_counter, transit>>

ReplicaNext ==
  \E n \in Node :
    \/ Increment(n)
    \/ \E x \in Elements : AddItem(n, x) \/ RemoveItem(n, x)
    \/ \E x \in Elements, t \in Timestamps : Write(n, x, t)
    \/ \E dst \in {{m} : m \in Node \ {n}} \cup {Node} : Send(n, dst)
    \/ DrainOutgoing(n)
    \/ HandleIncoming(n)
    \/ Receive(n)

-----------------------------------------------------------------------------
(* Members *)

NodeStates == {"Disconnected", "Connecting", "Connected", "Syncing", "Draining", "Offline"}
IsActive(state) == state \in {"Connected", "Syncing"}

(* NodeInfo::new is not connected and was never heard of, new_connected is *)
(* both                                                                    *)
NewMembers ==
  {[state |-> "Disconnected", last_heartbeat |-> 0],
   [state |-> "Connected", last_heartbeat |-> now]}

MemberInit ==
  /\ nodes = <<>>
  /\ heartbeat_timeout_ms \in Timeouts
  /\ now = 1
  /\ heard = <<>>
  /\ setback = {}
  /\ given_up = {}

(* add_node refuses a node that is a member; it was heard of just now *)
AddNode(n) ==
  /\ n \notin DOMAIN nodes
  /\ \E info \in NewMembers :
       /\ nodes' = [m \in DOMAIN nodes \cup {n} |-> IF m = n THEN info ELSE nodes[m]]
       /\ setback' = IF info.last_heartbeat = now THEN setback ELSE setback \cup {n}
  /\ heard' = [m \in DOMAIN nodes \cup {n} |-> IF m = n THEN now ELSE heard[m]]
  /\ UNCHANGED <<heartbeat_timeout_ms, now, given_up>>

RemoveNode(n) ==
  /\ n \in DOMAIN nodes
  /\ nodes' = [m \in DOMAIN nodes \ {n} |-> nodes[m]]
  /\ heard' = [m \in DOMAIN nodes \ {n} |-> heard[m]]
  /\ setback' = setback \ {n}
  /\ given_up' = given_up \ {n}
  /\ UNCHANGED <<heartbeat_timeout_ms, now>>

(* A heartbeat of the given time is stored, and the member is heard of at  *)
(* the other time                                                          *)
Stored(n, last_heartbeat, time) ==
  /\ n \in DOMAIN nodes
  /\ nodes' = [nodes EXCEPT ![n].last_heartbeat = last_heartbeat]
  /\ heard' = [heard EXCEPT ![n] = Larger(@, time)]
  /\ setback' = IF last_heartbeat = heard'[n] THEN setback \ {n} ELSE setback \cup {n}
  /\ UNCHANGED <<heartbeat_timeout_ms, now, given_up>>

(* update_heartbeat leaves the time to its caller and stores 0 *)
UpdateHeartbeat(n) == Stored(n, 0, now)

(* The heartbeat may be late, or from a node whose clock is ahead *)
UpdateHeartbeatWithTime(n, time) == Stored(n, time, time)

(* get_node_mut and set_state *)
SetState(n, state) ==
  /\ n \in DOMAIN nodes
  /\ nodes' = [nodes EXCEPT ![n].state = state]
  /\ given_up' = given_up \ {n}
  /\ UNCHANGED <<heartbeat_timeout_ms, now, heard, setback>>

(* saturating_sub *)
Since(time) == IF now > time THEN now - time ELSE 0

(* What check_timeouts returns *)
TimedOut ==
  {n \in DOMAIN nodes \ {Local} :
     /\ nodes[n].state # "Offline"
     /\ Since(nodes[n].last_heartbeat) > heartbeat_timeout_ms}

CheckTimeouts ==
  /\ nodes' = [n \in DOMAIN nodes |->
       IF n \in TimedOut THEN [nodes[n] EXCEPT !.state = "Offline"] ELSE nodes[n]]
  /\ given_up' = given_up \cup TimedOut
  /\ UNCHANGED <<heartbeat_timeout_ms, now, heard, setback>>

SetHeartbeatTimeout(timeout) ==
  /\ heartbeat_timeout_ms' = timeout
  /\ UNCHANGED <<nodes, now, heard, setback, given_up>>

Tick ==
  /\ now < MaxTime
  /\ now' = now + 1
  /\ UNCHANGED <<nodes, heartbeat_timeout_ms, heard, setback, given_up>>

MemberNext ==
  \/ \E n \in Node :
       \/ AddNode(n)
       \/ RemoveNode(n)
       \/ UpdateHeartbeat(n)
       \/ \E time \in 1 .. now + 1 : UpdateHeartbeatWithTime(n, time)
       \/ \E state \in NodeStates : SetState(n, state)
  \/ CheckTimeouts
  \/ \E timeout \in Timeouts : SetHeartbeatTimeout(timeout)
  \/ Tick

-----------------------------------------------------------------------------

Init == ReplicaInit /\ MemberInit

Next ==
  \/ ReplicaNext /\ UNCHANGED membervars
  \/ MemberNext /\ UNCHANGED replicavars

Spec == Init /\ [][Next]_vars

-----------------------------------------------------------------------------

Replicas ==
  [clock : Counts, counter : Counts, set : CrdtSets, register : Registers]

TypeOK ==
  /\ replica \in [Node -> Replicas]
  /\ message_counter \in [Node -> 0 .. MaxMessages]
  /\ \A n \in Node :
       /\ Len(local_queue[n]) <= MaxQueue
       /\ \A m \in ToSet(outgoing[n]) : m.src = n /\ m.id \in 1 .. message_counter[n]
       /\ \A m \in ToSet(local_queue[n]) : m \in transit
  /\ DOMAIN nodes \subseteq Node
  /\ \A n \in DOMAIN nodes :
       nodes[n].state \in NodeStates /\ nodes[n].last_heartbeat \in 0 .. MaxTime + 1
  /\ DOMAIN heard = DOMAIN nodes
  /\ setback \cup given_up \subseteq DOMAIN nodes
  /\ heartbeat_timeout_ms \in Timeouts /\ now \in 1 .. MaxTime

(* The reference: what a replica that includes the updates U should hold *)

Increments(U) == {u \in U : u.op = <<"increment">>}

Removals(U) == {x \in Elements : \E u \in U : u.op = <<"remove", x>>}
Items(U) == {x \in Elements : \E u \in U : u.op = <<"add", x>>} \ Removals(U)

Writes(U) == {u \in U : u.op[1] = "write" /\ u.op[3] > 0}

(* A later write beats an earlier one, of two at the same time that of the *)
(* higher node, of two at the same time by one node the first              *)
Beats(u, v) ==
  \/ u.op[3] > v.op[3]
  \/ u.op[3] = v.op[3] /\ u.node > v.node
  \/ u.op[3] = v.op[3] /\ u.node = v.node /\ u.number < v.number

LastWrite(U) ==
  IF Writes(U) = {}
  THEN NoValue
  ELSE (CHOOSE u \in Writes(U) : \A v \in Writes(U) \ {u} : Beats(u, v)).op[2]

(* Replicas that include the same updates agree, however the updates       *)
(* reached them: counters count each update once, sets hold what was added *)
(* and never removed, registers the last write (vector clocks and merges   *)
(* of crdt.rs).                                                            *)
Converges ==
  \A n \in Node :
    /\ CounterValue(replica[n].counter) = Cardinality(Increments(seen[n]))
    /\ replica[n].set.items = Items(seen[n])
    /\ replica[n].register.value = LastWrite(seen[n])

(* Comparing the clocks of two replicas tells whether one includes all     *)
(* updates of the other (VectorClock::compare).                            *)
ClocksShowCausality ==
  \A m, n \in Node :
    Compare(replica[m].clock, replica[n].clock) =
      CASE seen[m] = seen[n] -> "Equal"
        [] seen[m] \subseteq seen[n] /\ seen[m] # seen[n] -> "Before"
        [] seen[n] \subseteq seen[m] /\ seen[m] # seen[n] -> "After"
        [] OTHER -> "Concurrent"

-----------------------------------------------------------------------------
(* The inductive invariant.  Each replica, and each snapshot of one that   *)
(* is on its way in a message, holds exactly what its updates amount to.   *)
(* Of each node it includes the updates up to the number in its clock and  *)
(* no others, so that of two snapshots one includes all that the other     *)
(* does of that node.                                                      *)

Updates ==
  [node : Node, number : Nat \ {0},
   op : {<<"increment">>} \cup ({"add", "remove"} \X Elements)
          \cup ({"write"} \X Elements \X Timestamps)]

Messages ==
  [id : Nat, src : Node, dst : SUBSET Node, payload : Replicas, updates : SUBSET Updates]

From(U, n) == {u \in U : u.node = n}

(* A number is given to one update *)
Unambiguous(U) ==
  \A u, v \in U : u.node = v.node /\ u.number = v.number => u = v

UpTo(clock, U) ==
  /\ \A u \in U : u.number <= clock[u.node]
  /\ \A n \in Node : \A i \in 1 .. clock[n] : \E u \in From(U, n) : u.number = i

IsLast(u, U) == u \in Writes(U) /\ \A v \in Writes(U) \ {u} : Beats(u, v)

HoldsWrites(register, U) ==
  \/ Writes(U) = {} /\ register.value = NoValue /\ register.timestamp = 0
  \/ \E u \in Writes(U) :
       /\ IsLast(u, U)
       /\ register = [value |-> u.op[2], timestamp |-> u.op[3], node |-> u.node]

Holds(r, U) ==
  /\ r \in Replicas /\ U \subseteq Updates /\ IsFiniteSet(U)
  /\ UpTo(r.clock, U)
  /\ \A n \in Node : r.counter[n] = Cardinality(From(Increments(U), n))
  /\ r.set = [items |-> Items(U), tombstones |-> Removals(U)]
  /\ HoldsWrites(r.register, U)

AllSeen == UNION {seen[n] : n \in Node}

InFlight ==
  transit \cup UNION {ToSet(outgoing[n]) \cup ToSet(local_queue[n]) : n \in Node}

(* No snapshot is ahead of a node in the updates of that node *)
Behind(clock) == \A n \in Node : clock[n] <= replica[n].clock[n]

(* A write at time 0 loses to the register of its own node *)
OwnStamp(n) == replica[n].register.timestamp = 0 => replica[n].register.node >= n

IInv ==
  /\ replica \in [Node -> Replicas] /\ seen \in [Node -> SUBSET Updates]
  /\ outgoing \in [Node -> Seq(Messages)] /\ local_queue \in [Node -> Seq(Messages)]
  /\ transit \subseteq Messages
  /\ Unambiguous(AllSeen)
  /\ \A n \in Node :
       Holds(replica[n], seen[n]) /\ Behind(replica[n].clock) /\ OwnStamp(n)
  /\ \A m \in InFlight :
       Holds(m.payload, m.updates) /\ Behind(m.payload.clock) /\ m.updates \subseteq AllSeen

(* What is stored of a member is the latest it was heard of, or earlier if *)
(* it was set back                                                         *)
MembersInv ==
  /\ DOMAIN heard = DOMAIN nodes /\ setback \cup given_up \subseteq DOMAIN nodes
  /\ heartbeat_timeout_ms \in Nat /\ now \in Nat
  /\ \A n \in DOMAIN nodes :
       /\ nodes[n] \in [state : NodeStates, last_heartbeat : Nat] /\ heard[n] \in Nat
       /\ nodes[n].last_heartbeat <= heard[n]
       /\ n \in setback <=> nodes[n].last_heartbeat # heard[n]
       /\ n \in given_up => nodes[n].state = "Offline"

-----------------------------------------------------------------------------

(* A member that was silent for longer than the timeout is found at the    *)
(* next check, and one that was not only if its latest heartbeat left no   *)
(* time, or an earlier one; the local node never is.  Nothing it is heard  *)
(* of later brings back a member that was found silent: it stays Offline,  *)
(* and is not found again, until somebody sets its state (check_timeouts,  *)
(* update_heartbeat).                                                      *)
MembersExact ==
  LET Silent == {n \in DOMAIN nodes \ {Local} : Since(heard[n]) > heartbeat_timeout_ms}
  IN  /\ \A n \in Silent : n \in TimedOut \/ nodes[n].state = "Offline"
      /\ TimedOut \subseteq (Silent \cup setback) \ {Local}
      /\ \A n \in given_up : nodes[n].state = "Offline" /\ n \notin TimedOut
      /\ \A n \in setback : nodes[n].last_heartbeat < heard[n]

=============================================================================

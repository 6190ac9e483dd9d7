------------------------------- MODULE SoftBus --------------------------------
(***************************************************************************)
(* The soft bus, kernel/src/softbus: the table of devices of discovery.rs, *)
(* the connections of connection.rs and the message queue of transport.rs. *)
(*                                                                         *)
(* The kernel's three instances are each behind a global lock; the         *)
(* structures also work without it, with locks around their tables only:   *)
(* `outer_lock', chosen at the start, says which.  Discovery and           *)
(* connections are one step per call either way; a send takes its id and   *)
(* counts itself before it gets to the queue.  The three do not know each  *)
(* other: a connection or a message may be for a device that is not        *)
(* registered.                                                             *)
(***************************************************************************)
EXTENDS Integers, FiniteSets, Sequences

CONSTANTS
  BusThreads,
  BusDevices,    \* ids of devices
  Latencies,
  SeenTimes,     \* times of last activity that devices are registered with
  MaxBusIds,     \* bound: connections and messages ever made, timestamps given
  FirstStamp     \* the first timestamp

ASSUME BusAssumption ==
  /\ IsFiniteSet(BusThreads)
  /\ Latencies \cup SeenTimes \subseteq Nat /\ MaxBusIds \in Nat /\ FirstStamp \in Nat \ {0}

VARIABLES
  devices, clock,          \* discovery
  active,                  \* history: devices seen since they were registered
  connections, next_conn,  \* connections
  queue, stats, next_msg,  \* transport: the queue, its counters, the next id
  sending,                 \* the message a thread is sending, NotSending between calls
  missed,                  \* history: messages queued or under way at the last reset
  outer_lock               \* callers hold the global lock; never changes

discoveryvars == <<devices, clock, active>>
connectionvars == <<connections, next_conn>>
transportvars == <<queue, stats, next_msg, sending, missed>>
busvars == <<outer_lock, discoveryvars, connectionvars, transportvars>>

NotSending == [pc |-> "idle"]
NoStats == [sent |-> 0, received |-> 0, errors |-> 0]

BusInit ==
  /\ devices = <<>> /\ clock = FirstStamp /\ active = {}
  /\ connections = <<>> /\ next_conn = 1
  /\ queue = <<>> /\ stats = NoStats /\ next_msg = 1
  /\ sending = [t \in BusThreads |-> NotSending]
  /\ missed = 0
  /\ outer_lock \in BOOLEAN

WithEntry(table, key, value) == [k \in DOMAIN table \cup {key} |-> IF k = key THEN value ELSE table[k]]
WithoutEntry(table, key) == [k \in DOMAIN table \ {key} |-> table[k]]

(* The lock of the global instance: no other thread is in the middle *)
EntersBus(t) == sending[t] = NotSending /\ (outer_lock => \A s \in BusThreads : sending[s] = NotSending)

-----------------------------------------------------------------------------
(* Discovery.  The caller says what is known of the device, and any time   *)
(* of last activity, which may be before or after the time stamps.         *)

DeviceTypes == {"Phone", "Agent"}
DeviceInfos == [device_type : DeviceTypes, is_online : BOOLEAN, last_seen : SeenTimes]

RegisterDevice(id, info) ==
  /\ id \notin DOMAIN devices
  /\ devices' = WithEntry(devices, id, info)
  /\ UNCHANGED <<clock, active, connectionvars, transportvars>>

UnregisterDevice(id) ==
  /\ id \in DOMAIN devices
  /\ devices' = WithoutEntry(devices, id)
  /\ active' = active \ {id}
  /\ UNCHANGED <<clock, connectionvars, transportvars>>

(* Mutated form of UpdateLastSeen: the counter is read and not advanced.   *)
UpdateStampsAgain(id) ==
  /\ id \in DOMAIN devices /\ clock < FirstStamp + MaxBusIds
  /\ devices' = [devices EXCEPT ![id].last_seen = clock]
  /\ active' = active \cup {id}
  /\ UNCHANGED <<clock, connectionvars, transportvars>>

UpdateLastSeen(id) ==
  /\ id \in DOMAIN devices /\ clock < FirstStamp + MaxBusIds
  /\ devices' = [devices EXCEPT ![id].last_seen = clock]
  /\ clock' = clock + 1
  /\ active' = active \cup {id}
  /\ UNCHANGED <<connectionvars, transportvars>>

ListDevices == DOMAIN devices
ListOnline == {id \in DOMAIN devices : devices[id].is_online}
FindByType(type) == {id \in DOMAIN devices : devices[id].device_type = type}

-----------------------------------------------------------------------------
(* Connections.  Their states follow no order: the caller sets any. *)

ConnectionStates == {"Disconnected", "Connecting", "Connected", "Authenticating", "Disconnecting"}

ConnectTo(peer) ==
  /\ next_conn <= MaxBusIds
  /\ connections' = WithEntry(connections, next_conn, [peer |-> peer, state |-> "Connecting", latency |-> 0])
  /\ next_conn' = next_conn + 1
  /\ UNCHANGED <<discoveryvars, transportvars>>

DisconnectFrom(c) ==
  /\ c \in DOMAIN connections
  /\ connections' = WithoutEntry(connections, c)
  /\ UNCHANGED <<next_conn, discoveryvars, transportvars>>

UpdateState(c, state) ==
  /\ c \in DOMAIN connections
  /\ connections' = [connections EXCEPT ![c].state = state]
  /\ UNCHANGED <<next_conn, discoveryvars, transportvars>>

UpdateLatency(c, latency) ==
  /\ c \in DOMAIN connections
  /\ connections' = [connections EXCEPT ![c].latency = latency]
  /\ UNCHANGED <<next_conn, discoveryvars, transportvars>>

Least(set) == {x \in set : \A y \in set : x <= y}

(* The connections in the order of their ids *)
GetConnectionTo(peer) == Least({c \in DOMAIN connections : connections[c].peer = peer})

(* The first of those with the least latency; none is connected: empty *)
SelectBest(peer) ==
  LET usable == {c \in DOMAIN connections :
                   connections[c].peer = peer /\ connections[c].state = "Connected"}
  IN Least({c \in usable : \A d \in usable : connections[c].latency <= connections[d].latency})

-----------------------------------------------------------------------------
(* Transport *)

(* InvalidMessage for a time to live of 0 *)
SendInvalid(t) ==
  /\ EntersBus(t) /\ stats.errors < MaxBusIds
  /\ stats' = [stats EXCEPT !.errors = @ + 1]
  /\ UNCHANGED <<queue, next_msg, sending, missed, discoveryvars, connectionvars>>

SendTakesId(t) ==
  /\ EntersBus(t) /\ next_msg <= MaxBusIds
  /\ sending' = [sending EXCEPT ![t] = [pc |-> "count", id |-> next_msg]]
  /\ next_msg' = next_msg + 1
  /\ UNCHANGED <<queue, stats, missed, discoveryvars, connectionvars>>

SendCounts(t) ==
  /\ sending[t].pc = "count"
  /\ stats' = [stats EXCEPT !.sent = @ + 1]
  /\ sending' = [sending EXCEPT ![t].pc = "queue"]
  /\ UNCHANGED <<queue, next_msg, missed, discoveryvars, connectionvars>>

SendQueues(t) ==
  /\ sending[t].pc = "queue"
  /\ queue' = Append(queue, sending[t].id)
  /\ sending' = [sending EXCEPT ![t] = NotSending]
  /\ UNCHANGED <<stats, next_msg, missed, discoveryvars, connectionvars>>

(* The counters are updated under the lock of the queue *)
ReceiveMessage(t) ==
  /\ EntersBus(t) /\ queue # <<>>
  /\ queue' = Tail(queue)
  /\ stats' = [stats EXCEPT !.received = @ + 1]
  /\ UNCHANGED <<next_msg, sending, missed, discoveryvars, connectionvars>>

PeekMessage == IF queue = <<>> THEN {} ELSE {Head(queue)}

(* Messages on their way that have counted already *)
UnderWay == Cardinality({t \in BusThreads : sending[t].pc = "queue"})

(* The counters start again, one after the other and therefore here only   *)
(* under the global lock; what is in the queue stays                       *)
ResetStats(t) ==
  /\ outer_lock /\ EntersBus(t)
  /\ stats' = NoStats
  /\ missed' = Len(queue) + UnderWay
  /\ UNCHANGED <<queue, next_msg, sending, discoveryvars, connectionvars>>

DiscoveryNext ==
  \E id \in BusDevices :
    \/ \E info \in DeviceInfos : RegisterDevice(id, info)
    \/ UnregisterDevice(id)
    \/ UpdateLastSeen(id)

ConnectionNext ==
  \/ \E peer \in BusDevices : ConnectTo(peer)
  \/ \E c \in 1 .. MaxBusIds :
       \/ DisconnectFrom(c)
       \/ \E state \in ConnectionStates : UpdateState(c, state)
       \/ \E latency \in Latencies : UpdateLatency(c, latency)

TransportNext ==
  \E t \in BusThreads :
    \/ SendInvalid(t) \/ SendTakesId(t) \/ SendCounts(t) \/ SendQueues(t)
    \/ ReceiveMessage(t) \/ ResetStats(t)

BusNext ==
  /\ DiscoveryNext \/ ConnectionNext \/ TransportNext
  /\ UNCHANGED outer_lock

BusSpec == BusInit /\ [][BusNext]_busvars

-----------------------------------------------------------------------------

Sends == [pc : {"count", "queue"}, id : 1 .. MaxBusIds]

BusTypeOK ==
  /\ outer_lock \in BOOLEAN
  /\ DOMAIN devices \subseteq BusDevices /\ clock \in FirstStamp .. FirstStamp + MaxBusIds
  /\ \A id \in DOMAIN devices :
       devices[id] \in [device_type : DeviceTypes, is_online : BOOLEAN,
                       last_seen : SeenTimes \cup FirstStamp .. clock - 1]
  /\ active \subseteq DOMAIN devices
  /\ next_conn \in 1 .. MaxBusIds + 1
  /\ DOMAIN connections \subseteq 1 .. next_conn - 1
  /\ \A c \in DOMAIN connections :
       connections[c] \in [peer : BusDevices, state : ConnectionStates, latency : Latencies \cup {0}]
  /\ queue \in Seq(1 .. MaxBusIds) /\ next_msg \in 1 .. MaxBusIds + 1
  /\ stats \in [sent : Nat, received : Nat, errors : Nat] /\ missed \in Nat
  /\ sending \in [BusThreads -> {NotSending} \cup Sends]

(* What has an id and was not received: ids are below the counter, and no  *)
(* two messages have the same.                                             *)
IdsTaken ==
  /\ \A i \in DOMAIN queue : queue[i] < next_msg
  /\ \A t \in BusThreads : sending[t] # NotSending =>
       /\ sending[t].id < next_msg
       /\ \A i \in DOMAIN queue : queue[i] # sending[t].id
       /\ \A s \in BusThreads \ {t} : sending[s] # NotSending => sending[s].id # sending[t].id

(* With the global lock one message is under way, and it is the latest.    *)
OneSends ==
  outer_lock => \A t \in BusThreads : sending[t] # NotSending =>
    /\ \A s \in BusThreads \ {t} : sending[s] = NotSending
    /\ \A i \in DOMAIN queue : queue[i] < sending[t].id

(* Who has been seen has a time stamp already given, and nobody else's.    *)
StampsApart ==
  \A a \in active :
    /\ devices[a].last_seen \in FirstStamp .. clock - 1
    /\ \A b \in active \ {a} : devices[a].last_seen # devices[b].last_seen

(* The counters differ by just the messages that are in the queue or on    *)
(* their way to it, apart from those a reset has forgotten; each message   *)
(* is queued once, and in the order of the ids under the global lock.      *)
TransportExact ==
  /\ stats.sent + missed = stats.received + Len(queue) + UnderWay
  /\ \A i, j \in DOMAIN queue : i # j => queue[i] # queue[j]
  /\ outer_lock => \A i, j \in DOMAIN queue : i < j => queue[i] < queue[j]

(* The best connection to a device is connected, none connected is faster, *)
(* and there is one if any is connected.  Of the devices seen since they   *)
(* were registered no two have the same time, and the next one seen gets a *)
(* later one.  Nothing is said of a device that was only registered: it    *)
(* has the time it came with, which may be another's or later than the     *)
(* time stamps, so that its first update sets it back.                     *)
TablesExact ==
  /\ \A peer \in BusDevices, c \in DOMAIN connections :
       (connections[c].peer = peer /\ connections[c].state = "Connected") =>
         \E best \in SelectBest(peer) :
           /\ connections[best].state = "Connected"
           /\ connections[best].latency <= connections[c].latency
           /\ connections[c].latency = connections[best].latency => best <= c
  /\ \A peer \in BusDevices : \A best \in SelectBest(peer) :
       connections[best].peer = peer /\ connections[best].state = "Connected"
  /\ \A a \in ListDevices \cap active :
       /\ devices[a].last_seen < clock
       /\ \A b \in active \ {a} : devices[a].last_seen # devices[b].last_seen
  /\ ListOnline \cup FindByType("Phone") \subseteq ListDevices

(* The inductive invariant of the soft bus                                 *)
BusInv == BusTypeOK /\ IdsTaken /\ OneSends /\ StampsApart /\ TransportExact

(* Counters, queue, connections and times agree.                           *)
BusExact == TransportExact /\ TablesExact

=============================================================================

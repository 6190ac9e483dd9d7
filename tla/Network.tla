------------------------------- MODULE Network --------------------------------
(***************************************************************************)
(* Networking twice: the socket table of the kernel (kernel/src/net/       *)
(* {socket_table,protocol,address}.rs) and the network stack of user space *)
(* (crates/omniagent-net).  They share no state.                           *)
(*                                                                         *)
(* The table is used by threads.  metas is one lock, each protocol socket  *)
(* another: get_protocol looks the slot up under the first, gives it up    *)
(* and takes the second, which its caller then keeps as a guard; create    *)
(* and close take the second while they have the first.  The manager of    *)
(* user space is borrowed exclusively: every call is one step.             *)
(***************************************************************************)
EXTENDS Integers, Sequences, FiniteSets, SequencesExt

CONSTANTS
  Threads,
  MAX_SOCKETS,
  MaxFds,         \* bound: descriptors ever given
  Addrs,
  Lengths,        \* of data sent
  MaxBuffered,    \* bound: bytes or packets in a socket's buffers
  Interfaces,     \* names, in the order of the map: 1, 2, ...
  Hosts,
  Ports,
  MaxConns,       \* bound: connection ids ever given
  MaxBytes        \* bound: bytes sent through the manager

ASSUME NetworkAssumption ==
  /\ MAX_SOCKETS \in Nat /\ MaxFds \in Nat
  /\ MaxBuffered \in Nat /\ MaxConns \in Nat /\ MaxBytes \in Nat
  /\ "nobody" \notin Threads /\ "none" \notin Addrs
  /\ Lengths \subseteq Nat /\ Ports \subseteq Nat /\ Interfaces \subseteq Nat

VARIABLES
  metas, protocols,      \* per slot, or None
  next_fd,
  metas_lock,            \* the thread that has it, or Nobody
  guards,                \* per slot: the thread that has the socket's lock
  call,                  \* per thread
  maker,                 \* per descriptor: who made it
  careful,               \* chosen at the start: a thread uses only sockets it made itself
  interfaces, tcp_connections, udp_sockets, dns_cache, next_conn_id,
  sent,                  \* history: bytes sent on each interface
  tcp                    \* a TcpConnection of its own: state, and the states since Closed

tablevars == <<metas, protocols, next_fd, metas_lock, guards, call, maker, careful>>
managervars == <<interfaces, tcp_connections, udp_sockets, dns_cache, next_conn_id, sent>>

-----------------------------------------------------------------------------
(* Addresses: octets; a word is written with its first 16 bits and its     *)
(* last                                                                    *)

ToU32(octets) == <<octets[1] * 256 + octets[2], octets[3] * 256 + octets[4]>>
FromU32(word) == <<word[1] \div 256, word[1] % 256, word[2] \div 256, word[2] % 256>>

IsLoopback(octets) == octets[1] = 127
IsLinkLocal(octets) == octets[1] = 169 /\ octets[2] = 254
IsPrivate(octets) ==
  \/ octets[1] = 10
  \/ octets[1] = 172 /\ octets[2] \in 16 .. 31
  \/ octets[1] = 192 /\ octets[2] = 168

(* IpAddress: V4 has four octets, V6 sixteen *)
IsV4(ip) == Len(ip) = 4
LoopbackAddress(ip) ==
  IF IsV4(ip) THEN IsLoopback(ip) ELSE (\A i \in 1 .. 15 : ip[i] = 0) /\ ip[16] = 1
PrivateAddress(ip) == IF IsV4(ip) THEN IsPrivate(ip) ELSE ip[1] - (ip[1] % 2) = 252

(* MacAddr: six octets, of which from_bytes sets what it is given *)
FromBytes(bytes) == [i \in 1 .. 6 |-> IF i \in DOMAIN bytes THEN bytes[i] ELSE 0]
IsBroadcast(mac) == \A i \in 1 .. 6 : mac[i] = 255
IsMulticast(mac) == mac[1] % 2 # 0

IsEphemeral(port) == port >= 49152
IsWellKnown(port) == port < 1024

-----------------------------------------------------------------------------
(* Protocol sockets: TCP keeps the lengths of its buffers, UDP the packets *)

SocketState == {"Created", "Bound", "Listening", "Connected", "Closed"}
SocketType == {"Stream", "Datagram"}
NoAddr == "none"
None == [none |-> TRUE]
Nobody == "nobody"
Idle == [op |-> "idle"]

NewSocket(type, fd) ==
  [type |-> type, fd |-> fd, state |-> "Created", local_addr |-> NoAddr, remote_addr |-> NoAddr,
   connected |-> FALSE, send_buffer |-> 0, packets |-> <<>>]

IsTcp(s) == s.type = "Stream"

(* What one call makes of a socket: the sockets it can leave *)
Bind(s, addr) ==
  IF s.state # "Created" THEN s ELSE [s EXCEPT !.local_addr = addr, !.state = "Bound"]

Connect(s, addr) ==
  IF ~IsTcp(s) \/ s.connected THEN s
  ELSE [s EXCEPT !.remote_addr = addr, !.connected = TRUE, !.state = "Connected"]

SendData(s, length) == IF ~IsTcp(s) \/ ~s.connected THEN s ELSE [s EXCEPT !.send_buffer = @ + length]

(* A UDP socket sends to itself *)
SendTo(s, length, addr) == IF IsTcp(s) THEN s ELSE [s EXCEPT !.packets = Append(@, <<length, addr>>)]
RecvFrom(s) == IF IsTcp(s) \/ s.packets = <<>> THEN s ELSE [s EXCEPT !.packets = Tail(@)]

Listen(s) == IF ~IsTcp(s) \/ s.state # "Bound" THEN s ELSE [s EXCEPT !.state = "Listening"]

(* accept takes the local address of a listening socket to be there *)
AcceptPanics(s) == IsTcp(s) /\ s.state = "Listening" /\ s.local_addr = NoAddr

(* The state stays Connected *)
Shutdown(s) == IF ~IsTcp(s) THEN s ELSE [s EXCEPT !.connected = FALSE, !.send_buffer = 0]

CloseSocket(s) ==
  [s EXCEPT !.state = "Closed", !.connected = FALSE, !.send_buffer = 0, !.packets = <<>>]

(* recv never has data to give: nothing fills a TCP socket's buffer *)
Used(s) ==
  {Bind(s, a) : a \in Addrs} \cup {Connect(s, a) : a \in Addrs}
  \cup {SendData(s, n) : n \in Lengths} \cup {SendTo(s, n, a) : n \in Lengths, a \in Addrs}
  \cup {RecvFrom(s), Listen(s), Shutdown(s), CloseSocket(s)}

-----------------------------------------------------------------------------
(* The table *)

Slots == 0 .. MAX_SOCKETS - 1

TableInit ==
  /\ metas = [i \in Slots |-> None]
  /\ protocols = [i \in Slots |-> None]
  /\ next_fd = 0
  /\ metas_lock = Nobody
  /\ guards = [i \in Slots |-> Nobody]
  /\ call = [t \in Threads |-> Idle]
  /\ maker = <<>>
  /\ careful \in BOOLEAN

SlotOf(fd) == {i \in Slots : metas[i] # None /\ metas[i].fd = fd}
Count == Cardinality({i \in Slots : metas[i] # None})
Get(fd) == {[fd |-> fd, socket_type |-> metas[i].socket_type, state |-> metas[i].state] : i \in SlotOf(fd)}

MayUse(t, fd) == careful => fd \in DOMAIN maker /\ maker[fd] = t

(* create: the lowest free slot, with the lock kept; Raw is refused before *)
CreateTakesSlot(t, type) ==
  /\ call[t] = Idle /\ metas_lock = Nobody
  /\ next_fd < MaxFds /\ Count < MAX_SOCKETS
  /\ LET slot == Min({i \in Slots : metas[i] = None})
     IN /\ metas' = [metas EXCEPT ![slot] = [fd |-> next_fd, socket_type |-> type, state |-> "Created"]]
        /\ call' = [call EXCEPT ![t] = [op |-> "create", slot |-> slot, fd |-> next_fd, type |-> type]]
  /\ next_fd' = next_fd + 1
  /\ maker' = [fd \in DOMAIN maker \cup {next_fd} |-> IF fd = next_fd THEN t ELSE maker[fd]]
  /\ metas_lock' = t
  /\ UNCHANGED <<protocols, guards, careful>>

CreateStores(t) ==
  /\ call[t].op = "create" /\ guards[call[t].slot] = Nobody
  /\ protocols' = [protocols EXCEPT ![call[t].slot] = NewSocket(call[t].type, call[t].fd)]
  /\ metas_lock' = Nobody
  /\ call' = [call EXCEPT ![t] = Idle]
  /\ UNCHANGED <<metas, next_fd, guards, maker, careful>>

(* Mutated form of CloseFinds: the socket stays behind in its slot. *)
CloseForgets(t, fd) ==
  /\ call[t] = Idle /\ metas_lock = Nobody /\ MayUse(t, fd)
  /\ \E slot \in SlotOf(fd) : metas' = [metas EXCEPT ![slot] = None]
  /\ UNCHANGED <<protocols, next_fd, guards, metas_lock, call, maker, careful>>

CloseFinds(t, fd) ==
  /\ call[t] = Idle /\ metas_lock = Nobody /\ MayUse(t, fd)
  /\ \E slot \in SlotOf(fd) :
       /\ metas' = [metas EXCEPT ![slot] = None]
       /\ call' = [call EXCEPT ![t] = [op |-> "close", slot |-> slot]]
  /\ metas_lock' = t
  /\ UNCHANGED <<protocols, next_fd, guards, maker, careful>>

CloseClears(t) ==
  /\ call[t].op = "close" /\ guards[call[t].slot] = Nobody
  /\ protocols' = [protocols EXCEPT ![call[t].slot] = None]
  /\ metas_lock' = Nobody
  /\ call' = [call EXCEPT ![t] = Idle]
  /\ UNCHANGED <<metas, next_fd, guards, maker, careful>>

(* get_protocol: the slot is looked up in one lock section ... *)
GetProtocolFinds(t, fd) ==
  /\ call[t] = Idle /\ metas_lock = Nobody /\ MayUse(t, fd)
  /\ \E slot \in SlotOf(fd) : call' = [call EXCEPT ![t] = [op |-> "get", slot |-> slot, fd |-> fd]]
  /\ UNCHANGED <<metas, protocols, next_fd, metas_lock, guards, maker, careful>>

(* ... and what is then in the slot is locked in another *)
GetProtocolLocks(t) ==
  /\ call[t].op = "get" /\ guards[call[t].slot] = Nobody
  /\ guards' = [guards EXCEPT ![call[t].slot] = t]
  /\ call' = [call EXCEPT ![t].op = "use"]
  /\ UNCHANGED <<metas, protocols, next_fd, metas_lock, maker, careful>>

UseSocket(t) ==
  /\ call[t].op = "use" /\ protocols[call[t].slot] # None
  /\ \E s \in Used(protocols[call[t].slot]) :
       /\ s.send_buffer <= MaxBuffered /\ Len(s.packets) <= MaxBuffered
       /\ protocols' = [protocols EXCEPT ![call[t].slot] = s]
  /\ UNCHANGED <<metas, next_fd, metas_lock, guards, call, maker, careful>>

DropGuard(t) ==
  /\ call[t].op = "use"
  /\ guards' = [guards EXCEPT ![call[t].slot] = Nobody]
  /\ call' = [call EXCEPT ![t] = Idle]
  /\ UNCHANGED <<metas, protocols, next_fd, metas_lock, maker, careful>>

TableNext ==
  \E t \in Threads :
    \/ \E type \in SocketType : CreateTakesSlot(t, type)
    \/ CreateStores(t)
    \/ \E fd \in 0 .. MaxFds - 1 : CloseFinds(t, fd) \/ GetProtocolFinds(t, fd)
    \/ CloseClears(t)
    \/ GetProtocolLocks(t)
    \/ UseSocket(t)
    \/ DropGuard(t)

TableSpec == TableInit /\ [][TableNext]_tablevars

-----------------------------------------------------------------------------
(* The network stack of user space: TCP states *)

TcpState ==
  {"Closed", "Listen", "SynSent", "SynReceived", "Established", "FinWait1", "FinWait2",
   "CloseWait", "Closing", "LastAck", "TimeWait"}

ValidTransitions(state) ==
  CASE state = "Closed"      -> {"Listen", "SynSent"}
    [] state = "Listen"      -> {"SynReceived", "Closed"}
    [] state = "SynSent"     -> {"Established", "SynReceived", "Closed"}
    [] state = "SynReceived" -> {"Established", "FinWait1", "Closed"}
    [] state = "Established" -> {"FinWait1", "CloseWait", "Closed"}
    [] state = "FinWait1"    -> {"FinWait2", "Closing", "TimeWait", "Closed"}
    [] state = "FinWait2"    -> {"TimeWait", "Closed"}
    [] state = "CloseWait"   -> {"LastAck", "Closed"}
    [] state = "Closing"     -> {"TimeWait", "Closed"}
    [] OTHER                 -> {"Closed"}

Transition(new_state) ==
  /\ new_state \in ValidTransitions(tcp.state)
  /\ tcp' = [state |-> new_state, since |-> IF new_state = "Closed" THEN {} ELSE tcp.since \cup {new_state}]

(* Transitions one after the other, until one is refused *)
Transitions(state, steps) ==
  FoldLeft(LAMBDA conn, s : IF conn.ok /\ s \in ValidTransitions(conn.state) THEN [ok |-> TRUE, state |-> s]
                            ELSE [conn EXCEPT !.ok = FALSE],
           [ok |-> TRUE, state |-> state], steps)

-----------------------------------------------------------------------------
(* The manager *)

Put(table, key, value) == [k \in DOMAIN table \cup {key} |-> IF k = key THEN value ELSE table[k]]
Without(table, key) == [k \in DOMAIN table \ {key} |-> table[k]]

ManagerInit ==
  /\ interfaces = <<>> /\ tcp_connections = <<>> /\ udp_sockets = <<>>
  /\ dns_cache = [h \in {} |-> NoAddr]
  /\ next_conn_id = 1
  /\ sent = [i \in Interfaces |-> 0]

NewInterface == [state |-> "Down", tx_packets |-> 0, tx_bytes |-> 0]

(* An interface of the same name is replaced, its counters are lost *)
AddInterface(name) ==
  /\ interfaces' = Put(interfaces, name, NewInterface)
  /\ sent' = [sent EXCEPT ![name] = 0]
  /\ UNCHANGED <<tcp_connections, udp_sockets, dns_cache, next_conn_id>>

RemoveInterface(name) ==
  /\ name \in DOMAIN interfaces
  /\ interfaces' = Without(interfaces, name)
  /\ sent' = [sent EXCEPT ![name] = 0]
  /\ UNCHANGED <<tcp_connections, udp_sockets, dns_cache, next_conn_id>>

SetInterfaceState(name, state) ==
  /\ name \in DOMAIN interfaces
  /\ interfaces' = [interfaces EXCEPT ![name].state = state]
  /\ UNCHANGED <<tcp_connections, udp_sockets, dns_cache, next_conn_id, sent>>

BringUpInterface(name) == SetInterfaceState(name, "Up")
BringDownInterface(name) == SetInterfaceState(name, "Down")

UpInterfaces == {name \in DOMAIN interfaces : interfaces[name].state = "Up"}

(* Whatever is sent is counted by the first interface that is up *)
RecordTx(length) ==
  IF UpInterfaces = {} THEN UNCHANGED <<interfaces, sent>>
  ELSE /\ interfaces' = [interfaces EXCEPT ![Min(UpInterfaces)].tx_packets = @ + 1,
                                           ![Min(UpInterfaces)].tx_bytes = @ + length]
       /\ sent' = [sent EXCEPT ![Min(UpInterfaces)] = @ + length]

TcpConnect ==
  /\ next_conn_id <= MaxConns
  /\ next_conn_id' = next_conn_id + 1
  /\ LET conn == Transitions("Closed", <<"SynSent", "Established">>)
     IN tcp_connections' = IF conn.ok THEN Put(tcp_connections, next_conn_id, [state |-> conn.state, send_unack |-> 0])
                           ELSE tcp_connections
  /\ UNCHANGED <<interfaces, udp_sockets, dns_cache, sent>>

TcpSend(id, length) ==
  /\ id \in DOMAIN tcp_connections /\ tcp_connections[id].state = "Established"
  /\ tcp_connections[id].send_unack + length <= MaxBytes
  /\ tcp_connections' = [tcp_connections EXCEPT ![id].send_unack = @ + length]
  /\ RecordTx(length)
  /\ UNCHANGED <<udp_sockets, dns_cache, next_conn_id>>

(* A transition that is refused leaves the connection where it is *)
TcpClose(id) ==
  /\ id \in DOMAIN tcp_connections
  /\ LET conn == Transitions(tcp_connections[id].state, <<"FinWait1", "FinWait2", "TimeWait", "Closed">>)
     IN tcp_connections' = IF conn.ok THEN Without(tcp_connections, id)
                           ELSE [tcp_connections EXCEPT ![id].state = conn.state]
  /\ UNCHANGED <<interfaces, udp_sockets, dns_cache, next_conn_id, sent>>

PortFree(port) == \A id \in DOMAIN udp_sockets : udp_sockets[id] # port

UdpBind(port) ==
  /\ next_conn_id <= MaxConns
  /\ PortFree(port)
  /\ next_conn_id' = next_conn_id + 1
  /\ udp_sockets' = Put(udp_sockets, next_conn_id, port)
  /\ UNCHANGED <<interfaces, tcp_connections, dns_cache, sent>>

UdpSend(id, length) ==
  /\ id \in DOMAIN udp_sockets
  /\ \A i \in DOMAIN sent : sent[i] + length <= MaxBytes
  /\ RecordTx(length)
  /\ UNCHANGED <<tcp_connections, udp_sockets, dns_cache, next_conn_id>>

UdpClose(id) ==
  /\ id \in DOMAIN udp_sockets
  /\ udp_sockets' = Without(udp_sockets, id)
  /\ UNCHANGED <<interfaces, tcp_connections, dns_cache, next_conn_id, sent>>

(* Only localhost is found that is not in the cache *)
Resolved(host) ==
  IF host \in DOMAIN dns_cache THEN dns_cache[host]
  ELSE IF host = "localhost" THEN "loopback" ELSE NoAddr

DnsResolve(host) ==
  /\ dns_cache' = IF Resolved(host) = NoAddr THEN dns_cache ELSE Put(dns_cache, host, Resolved(host))
  /\ UNCHANGED <<interfaces, tcp_connections, udp_sockets, next_conn_id, sent>>

DnsCacheAdd(host, addr) ==
  /\ dns_cache' = Put(dns_cache, host, addr)
  /\ UNCHANGED <<interfaces, tcp_connections, udp_sockets, next_conn_id, sent>>

TotalTxBytes == FoldSet(LAMBDA i, n : n + interfaces[i].tx_bytes, 0, DOMAIN interfaces)

ManagerNext ==
  \/ \E name \in Interfaces :
       AddInterface(name) \/ RemoveInterface(name) \/ BringUpInterface(name) \/ BringDownInterface(name)
  \/ TcpConnect
  \/ \E id \in 1 .. MaxConns :
       \/ \E n \in Lengths : TcpSend(id, n) \/ UdpSend(id, n)
       \/ TcpClose(id)
       \/ UdpClose(id)
  \/ \E port \in Ports : UdpBind(port)
  \/ \E host \in Hosts : DnsResolve(host) \/ (\E a \in Addrs : DnsCacheAdd(host, a))

TcpNext == \E s \in TcpState : Transition(s)

NetInit == TableInit /\ ManagerInit /\ tcp = [state |-> "Closed", since |-> {}]

-----------------------------------------------------------------------------

NetTypeOK ==
  /\ DOMAIN tcp_connections \cap DOMAIN udp_sockets = {}
  /\ \A id \in DOMAIN tcp_connections : tcp_connections[id].state = "Established"
  /\ tcp.state \in TcpState

Meta == [fd : Nat, socket_type : SocketType, state : {"Created"}]
Socket ==
  [type : SocketType, fd : Nat, state : SocketState, local_addr : Addrs \cup {NoAddr},
   remote_addr : Addrs \cup {NoAddr}, connected : BOOLEAN, send_buffer : Nat, packets : Seq(Lengths \X Addrs)]
TableCalls ==
  {Idle} \cup [op : {"create"}, slot : Slots, fd : Nat, type : SocketType]
         \cup [op : {"close"}, slot : Slots] \cup [op : {"get", "use"}, slot : Slots, fd : Nat]

TableTypeOK ==
  /\ metas \in [Slots -> Meta \cup {None}]
  /\ protocols \in [Slots -> Socket \cup {None}]
  /\ next_fd \in Nat /\ DOMAIN maker = 0 .. next_fd - 1
  /\ metas_lock \in Threads \cup {Nobody}
  /\ guards \in [Slots -> Threads \cup {Nobody}]
  /\ call \in [Threads -> TableCalls]
  /\ careful \in BOOLEAN

(* The entry and the socket of a slot belong together.                     *)
Agree(i) ==
  /\ (metas[i] = None) = (protocols[i] = None)
  /\ metas[i] # None => protocols[i].type = metas[i].socket_type /\ protocols[i].fd = metas[i].fd

(* A socket has bytes to send only while it is connected, which its state  *)
(* shows; only packets of UDP wait; and one that listens has an address.   *)
Sane(s) ==
  /\ s.send_buffer > 0 => s.connected
  /\ s.connected => s.state = "Connected" /\ s.remote_addr # NoAddr
  /\ s.state = "Connected" => s.type = "Stream"
  /\ s.packets # <<>> => s.type = "Datagram"
  /\ s.state \in {"Bound", "Listening"} => s.local_addr # NoAddr

(* Only create and close keep the lock of metas.                           *)
LockHeld == \A t \in Threads : call[t].op \in {"create", "close"} <=> metas_lock = t

(* The call that has the lock is about to store a socket in the slot it    *)
(* has taken, or to remove the one in the slot it has given up.            *)
Changing(t) ==
  \/ /\ call[t].op = "create" /\ protocols[call[t].slot] = None
     /\ metas[call[t].slot] = [fd |-> call[t].fd, socket_type |-> call[t].type, state |-> "Created"]
  \/ call[t].op = "close" /\ metas[call[t].slot] = None

(* All other slots agree.                                                  *)
OthersAgree ==
  \A i \in Slots : (\A t \in Threads : metas_lock = t => call[t].slot # i) => Agree(i)

FdsUnique ==
  \A i, j \in Slots : metas[i] # None =>
    metas[i].fd < next_fd /\ (metas[j] # None /\ metas[j].fd = metas[i].fd => j = i)

GuardsUsed ==
  \A i \in Slots, t \in Threads : guards[i] = t <=> call[t].op = "use" /\ call[t].slot = i

AllSane == \A i \in Slots : protocols[i] # None => Sane(protocols[i])

(* What a thread looked up is still there if it is its own: nobody else    *)
(* closes the descriptor.                                                  *)
OwnKept(t) ==
  call[t].op \in {"get", "use"} =>
    /\ metas[call[t].slot] # None /\ metas[call[t].slot].fd = call[t].fd
    /\ call[t].fd < next_fd /\ maker[call[t].fd] = t

(* The inductive invariant of the socket table                             *)
TableInv ==
  /\ TableTypeOK /\ LockHeld /\ OthersAgree /\ FdsUnique /\ GuardsUsed /\ AllSane
  /\ \A t \in Threads : (metas_lock = t => Changing(t)) /\ (careful => OwnKept(t))

(* Between calls every entry of the table has a socket of its type and     *)
(* descriptor and every socket an entry; descriptors are unique; a guard   *)
(* is held by the one thread that uses it.                                 *)
SlotsAgree ==
  /\ metas_lock = Nobody =>
       \A i \in Slots : Agree(i) /\ (metas[i] # None => SlotOf(metas[i].fd) = {i})
  /\ \A i \in Slots :
       {t \in Threads : call[t].op = "use" /\ call[t].slot = i} = {guards[i]} \ {Nobody}

(* What a socket has in its buffers agrees with its state, and accept does *)
(* not panic.                                                              *)
SocketsSane == \A i \in Slots : protocols[i] # None => Sane(protocols[i]) /\ ~AcceptPanics(protocols[i])

(* The socket a guard gives is that of the descriptor it was asked for.    *)
(* Only for careful users: a slot that is closed and reused between the    *)
(* lock sections of get_protocol has another descriptor's socket.          *)
GuardIsOwn ==
  \A t \in Threads :
    call[t].op = "use" /\ protocols[call[t].slot] # None => protocols[call[t].slot].fd = call[t].fd

(* However threads use the socket table, between calls its two arrays      *)
(* agree, each guard is one thread's, and sockets have in their buffers    *)
(* what their state allows; for careful users the guard that get_protocol  *)
(* returns is that of the descriptor it was asked for.                     *)
SocketTableExact == SlotsAgree /\ SocketsSane /\ (careful => GuardIsOwn)

(* Every port has one UDP socket; all that was sent while an interface was *)
(* up is counted once; a name once resolved stays resolved.                *)
ManagerExact ==
  /\ \A i, j \in DOMAIN udp_sockets : udp_sockets[i] = udp_sockets[j] => i = j
  /\ TotalTxBytes = FoldSet(LAMBDA i, n : n + sent[i], 0, Interfaces)
  /\ "localhost" \in DOMAIN dns_cache => Resolved("localhost") # NoAddr
(* ip is in the block of addresses that begin with the first bits of base *)
InBlock(ip, base, bits) ==
  \A i \in DOMAIN base :
    LET kept == IF bits >= 8 * i THEN 8 ELSE IF bits <= 8 * (i - 1) THEN 0 ELSE bits - 8 * (i - 1)
    IN  ip[i] \div 2^(8 - kept) = base[i] \div 2^(8 - kept)

(* The octets and the word of an address say the same; the private and the *)
(* loopback addresses are the blocks the standards give them; hardware     *)
(* addresses are padded or cut, and what goes to all goes to many; a port  *)
(* is not both well known and ephemeral.                                   *)
AddressesExact ==
  /\ \A a, b \in {9, 10, 127, 169, 172, 192}, c \in {0, 15, 16, 31, 32, 168, 254, 255} :
       LET ip == <<a, c, b, c>>
       IN  /\ FromU32(ToU32(ip)) = ip
           /\ PrivateAddress(ip) <=>
                \/ InBlock(ip, <<10, 0, 0, 0>>, 8)
                \/ InBlock(ip, <<172, 16, 0, 0>>, 12)
                \/ InBlock(ip, <<192, 168, 0, 0>>, 16)
           /\ LoopbackAddress(ip) <=> InBlock(ip, <<127, 0, 0, 0>>, 8)
           /\ IsLinkLocal(ip) <=> InBlock(ip, <<169, 254, 0, 0>>, 16)
  /\ \A a \in {0, 251, 252, 253, 254}, last \in {0, 1, 2}, at \in {1, 2, 15} :
       LET ip == [i \in 1 .. 16 |-> IF i = at THEN a ELSE IF i = 16 THEN last ELSE 0]
       IN  /\ PrivateAddress(ip) <=> InBlock(ip, [i \in 1 .. 16 |-> IF i = 1 THEN 252 ELSE 0], 7)
           /\ LoopbackAddress(ip) <=> InBlock(ip, [i \in 1 .. 16 |-> IF i = 16 THEN 1 ELSE 0], 128)
  /\ \A bytes \in UNION {[1 .. n -> {0, 1, 255}] : n \in {0, 1, 5, 6, 7}} :
       LET mac == FromBytes(bytes)
           both == IF Len(bytes) < 6 THEN Len(bytes) ELSE 6
       IN  /\ SubSeq(mac, 1, both) = SubSeq(bytes, 1, both)
           /\ \A i \in both + 1 .. 6 : mac[i] = 0
           /\ IsBroadcast(mac) => IsMulticast(mac) /\ both = 6
  /\ \A port \in {0, 1023, 1024, 49151, 49152, 65535} : ~(IsWellKnown(port) /\ IsEphemeral(port))

(* No connection is established without a SYN, nor waits or closes without *)
(* a FIN of its own or of the other side.                                  *)
HandshakeDone ==
  /\ tcp.state = "Established" => tcp.since \cap {"SynSent", "SynReceived"} # {}
  /\ tcp.state \in {"FinWait2", "Closing", "TimeWait"} => "FinWait1" \in tcp.since
  /\ tcp.state = "LastAck" => "CloseWait" \in tcp.since
  /\ "Closed" \in ValidTransitions(tcp.state) \cup {tcp.state}

=============================================================================

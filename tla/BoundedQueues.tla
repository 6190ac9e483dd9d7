---------------------------- MODULE BoundedQueues ----------------------------
(***************************************************************************)
(* What the kernel's message buffers promise, the agents' mailboxes        *)
(* (kernel/src/agent/communication.rs) as well as the IPC channels         *)
(* (kernel/src/ipc/channel.rs): first-in first-out queues of at most       *)
(* Capacity messages, in which nothing is lost, overtaken or made up.      *)
(***************************************************************************)
EXTENDS Naturals, Sequences

CONSTANTS
  Queues,      \* the names of the queues
  Messages,
  Capacity

VARIABLE queue

Init == queue = [q \in Queues |-> <<>>]

(* One call hands a message to some queues, at most Capacity times each *)
Deliver ==
  LET before == queue
      after == queue'
  IN /\ queue' = [q \in Queues |-> after[q]]
     /\ \E m \in Messages : \A q \in Queues : \E copies \in 0 .. Capacity :
          after[q] = before[q] \o [i \in 1 .. copies |-> m]

Receive(q) ==
  /\ queue[q] # <<>>
  /\ queue' = [queue EXCEPT ![q] = Tail(@)]

Next ==
  \/ Deliver
  \/ \E q \in Queues : Receive(q)

Bounded == \A q \in Queues : Len(queue[q]) <= Capacity

Spec == Init /\ [][Next /\ Bounded']_queue
=============================================================================

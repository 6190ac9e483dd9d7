------------------------------ MODULE AgentComm ------------------------------
(***************************************************************************)
(* Messages between agents, kernel/src/agent/communication.rs: one ring    *)
(* buffer per agent, a table of topic subscriptions and a message counter. *)
(*                                                                         *)
(* send_message and broadcast take the message id before they lock the     *)
(* mailboxes, so each is two steps.  The global COMM_MANAGER puts the      *)
(* manager behind one more lock: comm_lock, chosen at the start, says      *)
(* whether the callers use it.                                             *)
(* A message is its id and its sender; its other header fields are copied. *)
(***************************************************************************)
EXTENDS Integers, FiniteSets, SequencesExt, FiniteSetTheorems, SequenceTheorems, TLAPS

CONSTANTS
  Messengers,
  CommHandles,       \* the handles of agents, from 1
  MaxMailboxes,      \* handle h has the mailbox of index h - 1
  MailboxCapacity,
  MaxSubscriptions,
  Topics,            \* topics and patterns, sequences of characters
  MaxMsgId           \* bound: message ids ever allocated

(* What the code guarantees of the constants *)
CommConstantsOK ==
  /\ CommHandles \subseteq Nat \ {0}
  /\ MaxMailboxes \in Nat \ {0}
  /\ MailboxCapacity \in Nat \ {0}
  /\ MaxSubscriptions \in Nat
  /\ MaxMsgId \in Nat

ASSUME CommAssumption == CommConstantsOK

VARIABLES
  mailboxes,      \* the ring buffer of each handle that has one
  subscriptions,  \* the slots of the subscription table
  msg_counter,
  comm_lock,      \* whether the callers go through COMM_MANAGER
  comm_call       \* the locals of each thread's call, Resting between calls

commvars == <<mailboxes, subscriptions, msg_counter, comm_lock, comm_call>>

Boxes == 1 .. MaxMailboxes
Positions == 0 .. MailboxCapacity - 1
MsgIds == 1 .. MaxMsgId
Messages == [msg_id : MsgIds, src : CommHandles]
Subscriptions == [subscriber : CommHandles, topic : Topics]
None == [none |-> TRUE]
Resting == [op |-> "idle"]
CommCalls == {Resting}
             \cup [op : {"send"}, src : CommHandles, dst : Boxes, msg_id : MsgIds]
             \cup [op : {"broadcast"}, src : CommHandles, topic : Topics, msg_id : MsgIds]

-----------------------------------------------------------------------------
(* AgentMailbox, a ring buffer *)

EmptyMailbox ==
  [messages |-> [i \in Positions |-> None], head |-> 0, tail |-> 0, count |-> 0]

(* The places of the buffer form a ring *)
Wrap(p) == p % MailboxCapacity

(* Mutated form of Room: one message too many is let in. *)
RoomLate(m) == MailboxCapacity + 1 - m.count

Room(m) == MailboxCapacity - m.count

(* What is let in of some copies of a message that are pushed in a row:    *)
(* a full mailbox refuses the others (EAGENT_QUEUE_FULL)                   *)
Fitting(m, copies) == IF copies <= Room(m) THEN copies ELSE Room(m)

(* Mutated form of Push: the new messages are put before the others. *)
PushFirst(m, entry, copies) ==
  LET n == Fitting(m, copies)
  IN [messages |-> [p \in Positions |->
                      IF Wrap(m.head - 1 - p) < n THEN entry ELSE m.messages[p]],
      head     |-> Wrap(m.head - n),
      tail     |-> m.tail,
      count    |-> m.count + n]

(* They take the places from tail on *)
Push(m, entry, copies) ==
  LET n == Fitting(m, copies)
  IN [messages |-> [p \in Positions |->
                      IF Wrap(p - m.tail) < n THEN entry ELSE m.messages[p]],
      head     |-> m.head,
      tail     |-> Wrap(m.tail + n),
      count    |-> m.count + n]

(* Mutated form of Pop: the newest message is taken. *)
PopNewest(m) ==
  LET last == Wrap(m.tail - 1)
  IN [m EXCEPT !.messages[last] = None, !.tail = last, !.count = @ - 1]

Pop(m) ==
  [messages |-> [m.messages EXCEPT ![m.head] = None],
   head     |-> Wrap(m.head + 1),
   tail     |-> m.tail,
   count    |-> m.count - 1]

(* A pattern that ends in * matches by prefix, any other exactly *)
TopicMatches(pattern, topic) ==
  IF pattern # <<>> /\ Last(pattern) = "*"
  THEN IsPrefix(Front(pattern), topic)
  ELSE pattern = topic

-----------------------------------------------------------------------------

CommInit ==
  /\ mailboxes = [h \in Boxes |-> EmptyMailbox]
  /\ subscriptions = [s \in 1 .. MaxSubscriptions |-> None]
  /\ msg_counter = 1
  /\ comm_lock \in BOOLEAN
  /\ comm_call = [t \in Messengers |-> Resting]

(* The outer lock is free for a call of this thread *)
MayCall(t) ==
  /\ comm_call[t] = Resting
  /\ comm_lock => \A u \in Messengers : comm_call[u] = Resting

TakeId == msg_counter <= MaxMsgId /\ msg_counter' = msg_counter + 1

(* send_message: a handle without mailbox is refused (EINVAL, ESRCH)       *)
SendTakesId(t, src, dst) ==
  /\ MayCall(t)
  /\ TakeId
  /\ comm_call' = [comm_call EXCEPT ![t] = [op |-> "send", src |-> src, dst |-> dst,
                                  msg_id |-> msg_counter]]
  /\ UNCHANGED <<mailboxes, subscriptions>>

Entry(c) == [msg_id |-> c.msg_id, src |-> c.src]

(* A message that a full mailbox refuses has spent its id *)
SendPushes(t) ==
  /\ comm_call[t].op = "send"
  /\ mailboxes' = [mailboxes EXCEPT ![comm_call[t].dst] = Push(@, Entry(comm_call[t]), 1)]
  /\ comm_call' = [comm_call EXCEPT ![t] = Resting]
  /\ UNCHANGED <<subscriptions, msg_counter>>

BroadcastTakesId(t, src, topic) ==
  /\ MayCall(t)
  /\ TakeId
  /\ comm_call' = [comm_call EXCEPT ![t] = [op |-> "broadcast", src |-> src, topic |-> topic,
                                  msg_id |-> msg_counter]]
  /\ UNCHANGED <<mailboxes, subscriptions>>

(* Every matching subscription of another agent gets the message when its  *)
(* mailbox exists and has room: an agent with two of them gets it twice.   *)
Matching(c, h) ==
  {s \in DOMAIN subscriptions :
     /\ h # c.src
     /\ subscriptions[s] # None
     /\ subscriptions[s].subscriber = h
     /\ TopicMatches(subscriptions[s].topic, c.topic)}

Broadcast(c) ==
  [h \in Boxes |-> Push(mailboxes[h], Entry(c), Cardinality(Matching(c, h)))]

BroadcastPushes(t) ==
  /\ comm_call[t].op = "broadcast"
  /\ mailboxes' = Broadcast(comm_call[t])
  /\ comm_call' = [comm_call EXCEPT ![t] = Resting]
  /\ UNCHANGED <<subscriptions, msg_counter>>

Receive(t, h) ==
  /\ MayCall(t)
  /\ mailboxes[h].count > 0
  /\ mailboxes' = [mailboxes EXCEPT ![h] = Pop(@)]
  /\ UNCHANGED <<subscriptions, msg_counter, comm_call>>

(* The first slot of the table in which P holds *)
IsFirst(s, P(_)) ==
  P(subscriptions[s]) /\ \A r \in DOMAIN subscriptions : P(subscriptions[r]) => s <= r

(* subscribe: nothing to do when the agent has this subscription; EAGAIN   *)
(* when no slot is free                                                    *)
Subscribe(t, h, topic) ==
  LET new == [subscriber |-> h, topic |-> topic]
  IN /\ MayCall(t)
     /\ \A s \in DOMAIN subscriptions : subscriptions[s] # new
     /\ \E s \in DOMAIN subscriptions :
          /\ IsFirst(s, LAMBDA sub : sub = None)
          /\ subscriptions' = [subscriptions EXCEPT ![s] = new]
     /\ UNCHANGED <<mailboxes, msg_counter, comm_call>>

(* unsubscribe: the first of the agent's subscriptions whose pattern       *)
(* matches the topic                                                       *)
Unsubscribe(t, h, topic) ==
  /\ MayCall(t)
  /\ \E s \in DOMAIN subscriptions :
       /\ IsFirst(s, LAMBDA sub : sub # None /\ sub.subscriber = h
                                    /\ TopicMatches(sub.topic, topic))
       /\ subscriptions' = [subscriptions EXCEPT ![s] = None]
  /\ UNCHANGED <<mailboxes, msg_counter, comm_call>>

CommNext ==
  /\ UNCHANGED comm_lock
  /\ \/ \E t \in Messengers, src \in CommHandles, dst \in Boxes : SendTakesId(t, src, dst)
     \/ \E t \in Messengers : SendPushes(t)
     \/ \E t \in Messengers, src \in CommHandles, topic \in Topics :
          BroadcastTakesId(t, src, topic)
     \/ \E t \in Messengers : BroadcastPushes(t)
     \/ \E t \in Messengers, h \in Boxes : Receive(t, h)
     \/ \E t \in Messengers, h \in CommHandles, topic \in Topics : Subscribe(t, h, topic)
     \/ \E t \in Messengers, h \in CommHandles, topic \in Topics : Unsubscribe(t, h, topic)

CommSpec == CommInit /\ [][CommNext]_commvars

-----------------------------------------------------------------------------

CommTypeOK ==
  /\ mailboxes \in [Boxes -> [messages : [Positions -> Messages \cup {None}],
                              head : Positions, tail : Positions,
                              count : 0 .. MailboxCapacity]]
  /\ subscriptions \in [1 .. MaxSubscriptions -> Subscriptions \cup {None}]
  /\ msg_counter \in 1 .. MaxMsgId + 1
  /\ comm_lock \in BOOLEAN
  /\ comm_call \in [Messengers -> CommCalls]

(* The messages of a mailbox, oldest first *)
Contents(m) ==
  [i \in 1 .. m.count |-> m.messages[Wrap(m.head + i - 1)]]

(* The ring buffers are the agents' queues: first in, first out, nothing   *)
(* lost or made up, whatever the callers interleave.                       *)
Queues == INSTANCE BoundedQueues WITH
  Queues <- Boxes, Capacity <- MailboxCapacity,
  queue <- [h \in Boxes |-> Contents(mailboxes[h])]

ImplementsQueues == Queues!Spec

(* Two messages with one id come from one call: their sender is the same.  *)
Delivered == UNION {{Contents(mailboxes[h])[i] : i \in 1 .. mailboxes[h].count} : h \in Boxes}

InFlight ==
  Delivered \cup {Entry(comm_call[t]) : t \in {u \in Messengers : comm_call[u] # Resting}}

IdsUnique == \A m, n \in InFlight : m.msg_id = n.msg_id => m.src = n.src

(* In every mailbox the ids go up, so a receiver sees the messages in the  *)
(* order of their ids (only behind the outer lock).                        *)
IdsInOrder ==
  \A h \in Boxes : \A i, j \in 1 .. mailboxes[h].count :
     i < j => Contents(mailboxes[h])[i].msg_id <= Contents(mailboxes[h])[j].msg_id

(* Ids of messages are never used twice, whatever sends, broadcasts and    *)
(* failures interleave; behind the lock of COMM_MANAGER a receiver sees    *)
(* messages in the order of their ids.                                     *)
MessagesInOrder == IdsUnique /\ (comm_lock => IdsInOrder)

-----------------------------------------------------------------------------
(* Why the ring buffers are queues: tail is where the next message goes *)

TailFollows ==
  \A h \in Boxes :
     mailboxes[h].tail = Wrap(mailboxes[h].head + mailboxes[h].count)

MailboxInv == CommTypeOK /\ TailFollows

(* Why ids are unique: no id in a mailbox or in a call under way is still  *)
(* to be handed out                                                        *)
IdsSpent ==
  /\ Delivered \subseteq Messages
  /\ \A m \in InFlight : m.msg_id < msg_counter

(* and in order behind the lock: one call at a time, whose id is above     *)
(* those delivered                                                         *)
LatestCall ==
  /\ \A t, u \in Messengers : comm_call[t] # Resting /\ comm_call[u] # Resting => t = u
  /\ \A m \in Delivered, t \in Messengers :
       comm_call[t] # Resting => m.msg_id < comm_call[t].msg_id

IdsInv == MailboxInv /\ IdsSpent /\ IdsUnique /\ (comm_lock => LatestCall /\ IdsInOrder)

Mailbox == [messages : [Positions -> Messages \cup {None}], head : Positions,
            tail : Positions, count : 0 .. MailboxCapacity]

(* A number is its remainder plus a multiple. *)
LEMMA RemainderUnique ==
  ASSUME NEW x \in Int, NEW M \in Nat \ {0}, NEW q \in Int, NEW r \in 0 .. M - 1,
         x = M * q + r
  PROVE x % M = r
  OBVIOUS

(* The place of a number that is fewer than two rounds behind or ahead     *)
LEMMA WrapIs ==
  ASSUME CommConstantsOK, NEW x \in Int, NEW q \in {-2, -1, 0, 1},
         x - MailboxCapacity * q \in Positions
  PROVE Wrap(x) = x - MailboxCapacity * q
<1> DEFINE r == x - MailboxCapacity * q
<1>1. /\ MailboxCapacity \in Nat \ {0} /\ r \in 0 .. MailboxCapacity - 1 /\ q \in Int
      /\ x = MailboxCapacity * q + r
  BY DEF CommConstantsOK, Positions
<1> HIDE DEF r
<1>2. x % MailboxCapacity = r
  BY <1>1, RemainderUnique
<1> QED
  BY <1>2 DEF Wrap, r

(* What is less than two rounds ahead wraps around at most once. *)
LEMMA WrapsOnce ==
  ASSUME CommConstantsOK, NEW x \in Nat, x < 2 * MailboxCapacity
  PROVE  /\ Wrap(x) = IF x < MailboxCapacity THEN x ELSE x - MailboxCapacity
         /\ Wrap(x) \in Positions
<1>1. CASE x < MailboxCapacity
  <2>1. x - MailboxCapacity * 0 = x /\ x \in Positions
    BY <1>1 DEF Positions, CommConstantsOK
  <2> QED
    BY <1>1, <2>1, WrapIs
<1>2. CASE ~(x < MailboxCapacity)
  <2>1. x - MailboxCapacity * 1 = x - MailboxCapacity /\ x - MailboxCapacity \in Positions
    BY <1>2 DEF Positions, CommConstantsOK
  <2> QED
    BY <1>2, <2>1, WrapIs
<1> QED
  BY <1>1, <1>2

(* The distance from the tail of the place of the i-th message of a        *)
(* mailbox with these head, count and tail.                                *)
LEMMA PlaceFromTail ==
  ASSUME CommConstantsOK, NEW head \in Positions, NEW count \in 0 .. MailboxCapacity,
         NEW i \in 1 .. MailboxCapacity
  PROVE  Wrap(Wrap(head + i - 1) - Wrap(head + count))
           = IF i > count THEN i - 1 - count ELSE i - 1 - count + MailboxCapacity
<1> DEFINE M == MailboxCapacity
           place == Wrap(head + i - 1)
           tail == Wrap(head + count)
           d == IF i > count THEN i - 1 - count ELSE i - 1 - count + M
<1>0. /\ M \in Nat \ {0} /\ head \in 0 .. M - 1
      /\ head + i - 1 \in Nat /\ head + i - 1 < 2 * M
      /\ head + count \in Nat /\ head + count < 2 * M
  BY DEF CommConstantsOK, Positions
<1>1. place = IF head + i - 1 < M THEN head + i - 1 ELSE head + i - 1 - M
  BY <1>0, WrapsOnce
<1>2. tail = IF head + count < M THEN head + count ELSE head + count - M
  BY <1>0, WrapsOnce
<1> HIDE DEF place, tail
<1>3. d \in Positions /\ d \in Int
  BY <1>0 DEF Positions
<1>4. \/ place - tail = M * 0 + d
      \/ place - tail = M * 1 + d
      \/ place - tail = M * (-1) + d
      \/ place - tail = M * (-2) + d
  BY <1>0, <1>1, <1>2
<1>5. place - tail \in Int
  BY <1>0, <1>1, <1>2
<1> HIDE DEF d
<1>6. Wrap(place - tail) = d
  <2>1. PICK q \in {-2, -1, 0, 1} : place - tail = M * q + d
    BY <1>4
  <2>2. place - tail - M * q = d
    BY <1>0, <1>3, <1>5, <2>1
  <2> HIDE DEF M
  <2>3. place - tail - MailboxCapacity * q = d
    BY <2>2 DEF M
  <2> QED
    BY <1>3, <1>5, <2>3, WrapIs
<1> QED
  BY <1>6 DEF place, tail, d

(* The place after n more messages, one step at a time or all at once *)
LEMMA TailMoves ==
  ASSUME CommConstantsOK, NEW head \in Positions, NEW count \in Nat, NEW n \in Nat,
         count + n <= MailboxCapacity
  PROVE  Wrap(Wrap(head + count) + n) = Wrap(head + (count + n))
<1> DEFINE M == MailboxCapacity
           tail == Wrap(head + count)
<1>0. /\ M \in Nat \ {0} /\ head \in 0 .. M - 1
      /\ head + count \in Nat /\ head + count < 2 * M
      /\ head + (count + n) \in Nat /\ head + (count + n) < 2 * M
  BY DEF CommConstantsOK, Positions
<1>1. tail = IF head + count < M THEN head + count ELSE head + count - M
  BY <1>0, WrapsOnce
<1> HIDE DEF tail
<1> DEFINE x == tail + n
           y == head + (count + n)
<1>2. /\ x \in Nat /\ x < 2 * MailboxCapacity /\ x = tail + n
      /\ y \in Nat /\ y < 2 * MailboxCapacity /\ y = head + (count + n)
  BY <1>0, <1>1
<1> HIDE DEF x, y
<1>3. Wrap(x) = IF x < M THEN x ELSE x - M
  BY <1>2, WrapsOnce
<1>4. Wrap(y) = IF y < M THEN y ELSE y - M
  BY <1>2, WrapsOnce
<1>5. Wrap(x) = Wrap(y)
  BY <1>0, <1>1, <1>2, <1>3, <1>4
<1> QED
  BY <1>5 DEF tail, x, y

(* Different messages of a mailbox have different places. *)
LEMMA PlacesDiffer ==
  ASSUME CommConstantsOK, NEW head \in Positions,
         NEW i \in 1 .. MailboxCapacity, NEW j \in 1 .. MailboxCapacity,
         Wrap(head + i - 1) = Wrap(head + j - 1)
  PROVE  i = j
<1> DEFINE M == MailboxCapacity
<1>0. /\ M \in Nat \ {0} /\ head \in 0 .. M - 1
      /\ head + i - 1 \in Nat /\ head + i - 1 < 2 * M
      /\ head + j - 1 \in Nat /\ head + j - 1 < 2 * M
  BY DEF CommConstantsOK, Positions
<1>1. Wrap(head + i - 1) = IF head + i - 1 < M THEN head + i - 1 ELSE head + i - 1 - M
  BY <1>0, WrapsOnce
<1>2. Wrap(head + j - 1) = IF head + j - 1 < M THEN head + j - 1 ELSE head + j - 1 - M
  BY <1>0, WrapsOnce
<1> QED
  BY <1>0, <1>1, <1>2

(* The messages of a mailbox, oldest first, are a sequence. *)
LEMMA ContentsSeq ==
  ASSUME CommConstantsOK, NEW m \in Mailbox
  PROVE  /\ Contents(m) \in Seq(Messages \cup {None})
         /\ Len(Contents(m)) = m.count
         /\ \A i \in 1 .. m.count :
              /\ Wrap(m.head + i - 1) \in Positions
              /\ Contents(m)[i] = m.messages[Wrap(m.head + i - 1)]
<1>1. /\ m.count \in Nat /\ m.count <= MailboxCapacity /\ m.head \in Nat
      /\ m.head < MailboxCapacity /\ MailboxCapacity \in Nat
      /\ m.messages \in [Positions -> Messages \cup {None}]
  BY DEF Mailbox, Positions, CommConstantsOK
<1>2. ASSUME NEW i \in 1 .. m.count
      PROVE Wrap(m.head + i - 1) \in Positions
  <2>1. m.head + i - 1 \in Nat /\ m.head + i - 1 < 2 * MailboxCapacity
    BY <1>1
  <2> QED
    BY <2>1, WrapsOnce
<1>3. \A i \in 1 .. m.count : m.messages[Wrap(m.head + i - 1)] \in Messages \cup {None}
  BY <1>1, <1>2
<1> QED
  BY <1>1, <1>2, <1>3 DEF Contents

(* A push is an append of the copies that fit. *)
LEMMA PushAppends ==
  ASSUME CommConstantsOK, NEW m \in Mailbox, m.tail = Wrap(m.head + m.count),
         NEW entry \in Messages, NEW copies \in Nat
  PROVE  /\ Fitting(m, copies) \in 0 .. MailboxCapacity
         /\ Push(m, entry, copies) \in Mailbox
         /\ Push(m, entry, copies).tail =
              Wrap(Push(m, entry, copies).head + Push(m, entry, copies).count)
         /\ Contents(Push(m, entry, copies)) =
              Contents(m) \o [i \in 1 .. Fitting(m, copies) |-> entry]
<1> DEFINE n == Fitting(m, copies)
           M == MailboxCapacity
           S == Messages \cup {None}
           after == Push(m, entry, copies)
           old == Contents(m)
           added == [i \in 1 .. n |-> entry]
<1>0. /\ M \in Nat \ {0} /\ Positions = 0 .. M - 1
      /\ m.head \in 0 .. M - 1 /\ m.count \in 0 .. M /\ m.tail \in 0 .. M - 1
      /\ m.messages \in [Positions -> S]
  BY DEF CommConstantsOK, Positions, Mailbox
<1>1. n \in Nat /\ n + m.count <= M
  BY <1>0 DEF Fitting, Room
<1>2. /\ after = [messages |-> after.messages, head |-> m.head, tail |-> Wrap(m.tail + n),
                  count |-> m.count + n]
      /\ after.messages = [p \in Positions |->
                             IF Wrap(p - m.tail) < n THEN entry ELSE m.messages[p]]
      /\ after.head = m.head /\ after.count = m.count + n
      /\ after.tail = Wrap(m.tail + n)
  BY DEF Push
<1> HIDE DEF n, after
<1>3. after.messages \in [Positions -> S]
  BY <1>0, <1>2
<1>4. Wrap(m.tail + n) = Wrap(m.head + (m.count + n))
  <2>1. m.count \in Nat /\ m.count + n <= MailboxCapacity /\ m.head \in Positions
    BY <1>0, <1>1
  <2> QED
    BY <1>1, <2>1, TailMoves
<1>5. Wrap(m.tail + n) \in Positions
  <2>1. m.tail + n \in Nat /\ m.tail + n < 2 * MailboxCapacity
    BY <1>0, <1>1
  <2> QED
    BY <2>1, WrapsOnce
<1>6. after \in Mailbox
  <2>1. m.count + n \in 0 .. MailboxCapacity
    BY <1>0, <1>1
  <2> QED
    BY <1>0, <1>2, <1>3, <1>5, <2>1 DEF Mailbox
<1>7. /\ old \in Seq(S) /\ Len(old) = m.count
      /\ \A i \in 1 .. m.count :
           Wrap(m.head + i - 1) \in Positions /\ old[i] = m.messages[Wrap(m.head + i - 1)]
  BY ContentsSeq
<1>8. /\ Contents(after) \in Seq(S) /\ Len(Contents(after)) = m.count + n
      /\ \A i \in 1 .. m.count + n :
           /\ Wrap(m.head + i - 1) \in Positions
           /\ Contents(after)[i] = after.messages[Wrap(m.head + i - 1)]
  <2>1. after.head = m.head /\ after.count = m.count + n
    BY <1>2
  <2>2. /\ Contents(after) \in Seq(Messages \cup {None}) /\ Len(Contents(after)) = after.count
        /\ \A i \in 1 .. after.count :
             /\ Wrap(after.head + i - 1) \in Positions
             /\ Contents(after)[i] = after.messages[Wrap(after.head + i - 1)]
    BY <1>6, ContentsSeq
  <2> QED
    BY <2>1, <2>2
<1>9. added \in Seq(S) /\ Len(added) = n /\ \A j \in 1 .. n : added[j] = entry
  BY <1>1
<1> HIDE DEF old, added, S
<1>10. /\ old \o added \in Seq(S) /\ Len(old \o added) = m.count + n
       /\ \A i \in 1 .. m.count + n :
            (old \o added)[i] = IF i <= m.count THEN old[i] ELSE entry
  <2>1. \A i \in 1 .. m.count + n : ~(i <= m.count) => i - m.count \in 1 .. n
    BY <1>0, <1>1
  <2>2. /\ old \o added \in Seq(S) /\ Len(old \o added) = Len(old) + Len(added)
        /\ \A i \in 1 .. Len(old) + Len(added) :
             (old \o added)[i] = IF i <= Len(old) THEN old[i] ELSE added[i - Len(old)]
    BY <1>7, <1>9, ConcatProperties
  <2> QED
    BY <1>7, <1>9, <2>1, <2>2
<1>11. ASSUME NEW i \in 1 .. m.count + n
       PROVE Contents(after)[i] = (old \o added)[i]
  <2> DEFINE place == Wrap(m.head + i - 1)
  <2>1. i \in 1 .. M /\ m.head \in Positions
    BY <1>0, <1>1
  <2>2. Wrap(place - m.tail) = IF i > m.count THEN i - 1 - m.count ELSE i - 1 - m.count + M
    BY <1>0, <2>1, PlaceFromTail
  <2>3. Wrap(place - m.tail) < n <=> i > m.count
    <3>1. CASE i > m.count
      <4>1. i - 1 - m.count < n
        BY <1>0, <1>1
      <4> QED
        BY <2>2, <3>1, <4>1
    <3>2. CASE ~(i > m.count)
      <4>1. ~(i - 1 - m.count + M < n)
        BY <1>0, <1>1, <3>2
      <4> QED
        BY <2>2, <3>2, <4>1
    <3> QED
      BY <3>1, <3>2
  <2>4. place \in Positions /\ Contents(after)[i] = after.messages[place]
    BY <1>8
  <2>5. after.messages[place] = IF i > m.count THEN entry ELSE m.messages[place]
    BY <1>2, <2>3, <2>4
  <2>6. i <= m.count <=> ~(i > m.count)
    BY <1>0, <1>1
  <2>7. i <= m.count => i \in 1 .. m.count
    BY <1>0, <1>1
  <2>8. i <= m.count => old[i] = m.messages[place]
    BY <1>7, <2>7
  <2> HIDE DEF place
  <2> QED
    BY <1>10, <2>4, <2>5, <2>6, <2>8
<1>12. Contents(after) = old \o added
  <2> DEFINE s == Contents(after)
             t == old \o added
  <2>1. s \in Seq(S) /\ t \in Seq(S) /\ Len(s) = Len(t)
    BY <1>8, <1>10
  <2>2. \A i \in 1 .. Len(s) : s[i] = t[i]
    BY <1>8, <1>11
  <2> HIDE DEF s, t
  <2>3. s = t
    BY <2>1, <2>2, SeqEqual
  <2> QED
    BY <2>3 DEF s, t
<1>13. n \in 0 .. MailboxCapacity
  BY <1>0, <1>1
<1> QED
  BY <1>2, <1>4, <1>6, <1>12, <1>13 DEF n, after, old, added

(* A pop takes the oldest message. *)
LEMMA PopTakesFirst ==
  ASSUME CommConstantsOK, NEW m \in Mailbox, m.tail = Wrap(m.head + m.count), m.count > 0
  PROVE  /\ Pop(m) \in Mailbox
         /\ Pop(m).tail = Wrap(Pop(m).head + Pop(m).count)
         /\ Contents(m) # <<>>
         /\ Contents(Pop(m)) = Tail(Contents(m))
<1> DEFINE M == MailboxCapacity
           S == Messages \cup {None}
           after == Pop(m)
           old == Contents(m)
<1>0. /\ M \in Nat \ {0} /\ Positions = 0 .. M - 1
      /\ m.head \in 0 .. M - 1 /\ m.count \in 0 .. M /\ m.tail \in 0 .. M - 1
      /\ m.messages \in [Positions -> S]
      /\ m = [messages |-> m.messages, head |-> m.head, tail |-> m.tail, count |-> m.count]
  BY DEF CommConstantsOK, Positions, Mailbox
<1>1. /\ after = [messages |-> [m.messages EXCEPT ![m.head] = None],
                  head |-> Wrap(m.head + 1), tail |-> m.tail, count |-> m.count - 1]
      /\ after.messages = [m.messages EXCEPT ![m.head] = None]
      /\ after.head = Wrap(m.head + 1) /\ after.tail = m.tail /\ after.count = m.count - 1
  BY <1>0 DEF Pop
<1> HIDE DEF after
<1>3. Wrap(m.head + 1) \in Positions
  <2> DEFINE x == m.head + 1
  <2>1. x \in Nat /\ x < 2 * MailboxCapacity
    BY <1>0
  <2> HIDE DEF x
  <2>2. Wrap(x) \in Positions
    BY <2>1, WrapsOnce
  <2> QED
    BY <2>2 DEF x
<1>4. after.messages \in [Positions -> S]
  BY <1>0, <1>1
<1>5. after \in Mailbox
  <2>1. m.count - 1 \in 0 .. MailboxCapacity
    BY <1>0
  <2> QED
    BY <1>0, <1>1, <1>3, <1>4, <2>1 DEF Mailbox
<1>6. ASSUME NEW k \in Nat, k < m.count
      PROVE Wrap(Wrap(m.head + 1) + k) = Wrap(m.head + (1 + k))
  <2>1. m.head \in Positions /\ 1 + k <= MailboxCapacity
    BY <1>0, <1>6
  <2> QED
    BY <2>1, TailMoves
<1>7. after.tail = Wrap(after.head + after.count)
  <2>1. m.count - 1 \in Nat /\ m.count - 1 < m.count /\ 1 + (m.count - 1) = m.count
    BY <1>0
  <2>2. Wrap(Wrap(m.head + 1) + (m.count - 1)) = Wrap(m.head + (1 + (m.count - 1)))
    BY <1>6, <2>1
  <2> QED
    BY <1>1, <2>1, <2>2
<1>8. /\ old \in Seq(S) /\ Len(old) = m.count
      /\ \A i \in 1 .. m.count :
           Wrap(m.head + i - 1) \in Positions /\ old[i] = m.messages[Wrap(m.head + i - 1)]
  BY ContentsSeq
<1>9. /\ Contents(after) \in Seq(S) /\ Len(Contents(after)) = m.count - 1
      /\ \A i \in 1 .. m.count - 1 :
           Contents(after)[i] = after.messages[Wrap(Wrap(m.head + 1) + i - 1)]
  <2>1. after.head = Wrap(m.head + 1) /\ after.count = m.count - 1
    BY <1>1
  <2>2. /\ Contents(after) \in Seq(Messages \cup {None}) /\ Len(Contents(after)) = after.count
        /\ \A i \in 1 .. after.count :
             Contents(after)[i] = after.messages[Wrap(after.head + i - 1)]
    BY <1>5, ContentsSeq
  <2> QED
    BY <2>1, <2>2
<1> HIDE DEF old, S
<1>10. old # <<>>
  BY <1>0, <1>8
<1>11. /\ Tail(old) \in Seq(S) /\ Len(Tail(old)) = m.count - 1
       /\ \A i \in 1 .. m.count - 1 : Tail(old)[i] = old[i + 1]
  BY <1>8, <1>10
<1>12. ASSUME NEW i \in 1 .. m.count - 1
       PROVE Contents(after)[i] = Tail(old)[i]
  <2>1. /\ i - 1 \in Nat /\ i - 1 < m.count /\ i + 1 \in 1 .. m.count
        /\ i + 1 \in 1 .. MailboxCapacity /\ 1 \in 1 .. MailboxCapacity /\ m.head \in Positions
    BY <1>0
  <2>2. Wrap(Wrap(m.head + 1) + (i - 1)) = Wrap(m.head + (1 + (i - 1)))
    BY <1>6, <2>1
  <2>3. /\ Wrap(m.head + 1) + (i - 1) = Wrap(m.head + 1) + i - 1
        /\ m.head + (1 + (i - 1)) = m.head + (i + 1) - 1
    BY <1>0, <1>3
  <2> DEFINE place == Wrap(m.head + (i + 1) - 1)
  <2>4. Contents(after)[i] = after.messages[place]
    BY <1>9, <2>2, <2>3
  <2>5. place \in Positions /\ old[i + 1] = m.messages[place]
    BY <1>8, <2>1
  <2>6. place # m.head
    <3>1. Wrap(m.head + 1 - 1) = m.head
      <4>1. m.head + 1 - 1 = m.head /\ m.head \in Nat /\ m.head < MailboxCapacity
        BY <1>0
      <4>2. m.head < 2 * MailboxCapacity
        BY <1>0
      <4>3. Wrap(m.head) = m.head
        BY <4>1, <4>2, WrapsOnce
      <4> QED
        BY <4>1, <4>3
    <3>2. i + 1 # 1
      OBVIOUS
    <3> QED
      BY <2>1, <3>1, <3>2, PlacesDiffer
  <2> HIDE DEF place
  <2>7. after.messages[place] = m.messages[place]
    BY <1>0, <1>1, <2>5, <2>6
  <2> QED
    BY <1>11, <2>4, <2>5, <2>7
<1>13. Contents(after) = Tail(old)
  <2> DEFINE s == Contents(after)
             t == Tail(old)
  <2>1. s \in Seq(S) /\ t \in Seq(S) /\ Len(s) = Len(t)
    BY <1>9, <1>11
  <2>2. \A i \in 1 .. Len(s) : s[i] = t[i]
    BY <1>9, <1>12
  <2> HIDE DEF s, t
  <2>3. s = t
    BY <2>1, <2>2, SeqEqual
  <2> QED
    BY <2>3 DEF s, t
<1> QED
  BY <1>5, <1>7, <1>10, <1>13 DEF after, old

LEMMA MailboxTypes ==
  ASSUME CommTypeOK, TailFollows, NEW h \in Boxes
  PROVE  mailboxes[h] \in Mailbox /\ mailboxes[h].tail = Wrap(mailboxes[h].head + mailboxes[h].count)
  BY DEF CommTypeOK, TailFollows, Mailbox

LEMMA EntryIsMessage ==
  ASSUME CommTypeOK, NEW t \in Messengers, comm_call[t].op \in {"send", "broadcast"}
  PROVE  Entry(comm_call[t]) \in Messages
<1>1. comm_call[t] \in CommCalls
  BY DEF CommTypeOK
<1>2. comm_call[t].msg_id \in MsgIds /\ comm_call[t].src \in CommHandles
  BY <1>1 DEF CommCalls, Resting
<1> QED
  BY <1>2 DEF Entry, Messages

LEMMA CopiesAreMany ==
  ASSUME CommConstantsOK, CommTypeOK, NEW c, NEW h
  PROVE  Cardinality(Matching(c, h)) \in Nat
<1>1. Matching(c, h) \subseteq 1 .. MaxSubscriptions
  BY DEF Matching, CommTypeOK
<1>2. IsFiniteSet(1 .. MaxSubscriptions)
  BY FS_Interval DEF CommConstantsOK
<1>3. IsFiniteSet(Matching(c, h))
  BY <1>1, <1>2, FS_Subset
<1> QED
  BY <1>3, FS_CardinalityType

(* What a step that hands out messages does to the mailboxes *)
Pushes(entry, copies) ==
  mailboxes' = [h \in Boxes |-> Push(mailboxes[h], entry, copies[h])]

LEMMA SendIsPushes ==
  ASSUME CommConstantsOK, CommTypeOK, NEW t \in Messengers, SendPushes(t)
  PROVE  Pushes(Entry(comm_call[t]), [h \in Boxes |-> IF h = comm_call[t].dst THEN 1 ELSE 0])
<1> DEFINE copies == [h \in Boxes |-> IF h = comm_call[t].dst THEN 1 ELSE 0]
           dst == comm_call[t].dst
<1>1. comm_call[t] \in CommCalls /\ comm_call[t].op = "send"
  BY DEF CommTypeOK, SendPushes
<1>2. dst \in Boxes
  BY <1>1 DEF CommCalls, Resting
<1>3. mailboxes' = [mailboxes EXCEPT ![dst] = Push(mailboxes[dst], Entry(comm_call[t]), 1)]
  BY DEF SendPushes
<1>4. ASSUME NEW h \in Boxes
      PROVE Push(mailboxes[h], Entry(comm_call[t]), 0) = mailboxes[h]
  <2> DEFINE m == mailboxes[h]
             e == Entry(comm_call[t])
  <2>1. m \in Mailbox
    BY DEF CommTypeOK, Mailbox
  <2>2. Fitting(m, 0) = 0
    <3>1. m.count \in 0 .. MailboxCapacity
      BY <2>1 DEF Mailbox
    <3> QED
      BY <3>1 DEF Fitting, Room, CommConstantsOK
  <2>3. m.tail \in Nat /\ m.tail < MailboxCapacity /\ MailboxCapacity \in Nat \ {0}
    BY <2>1 DEF Mailbox, Positions, CommConstantsOK
  <2> HIDE DEF m, e
  <2>4. Wrap(m.tail + 0) = m.tail
    <3>1. m.tail + 0 = m.tail /\ m.tail < 2 * MailboxCapacity
      BY <2>3
    <3> QED
      BY <2>3, <3>1, WrapsOnce
  <2>5. ASSUME NEW p \in Positions
        PROVE ~(Wrap(p - m.tail) < 0)
    <3>1. p - m.tail \in Int
      BY <2>3 DEF Positions
    <3>2. (p - m.tail) % MailboxCapacity \in Nat
      BY <2>3, <3>1
    <3> QED
      BY <3>2 DEF Wrap
  <2>6. [p \in Positions |-> IF Wrap(p - m.tail) < 0 THEN e ELSE m.messages[p]] = m.messages
    <3>1. m.messages = [p \in Positions |-> m.messages[p]]
      BY <2>1 DEF Mailbox
    <3> QED
      BY <2>5, <3>1
  <2>7. m.count + 0 = m.count
    BY <2>1 DEF Mailbox
  <2>8. Push(m, e, 0) = [messages |-> m.messages, head |-> m.head, tail |-> m.tail,
                         count |-> m.count]
    BY <2>2, <2>4, <2>6, <2>7 DEF Push
  <2>9. m = [messages |-> m.messages, head |-> m.head, tail |-> m.tail, count |-> m.count]
    BY <2>1 DEF Mailbox
  <2> QED
    BY <2>8, <2>9 DEF m, e
<1>5. mailboxes \in [Boxes -> Mailbox]
  BY DEF CommTypeOK, Mailbox
<1>6. ASSUME NEW h \in Boxes
      PROVE mailboxes'[h] = Push(mailboxes[h], Entry(comm_call[t]), copies[h])
  <2>1. CASE h = dst
    BY <1>2, <1>3, <1>5, <2>1
  <2>2. CASE h # dst
    <3>1. mailboxes'[h] = mailboxes[h] /\ copies[h] = 0
      BY <1>3, <1>5, <2>2
    <3> QED
      BY <1>4, <3>1
  <2> QED
    BY <2>1, <2>2
<1>7. mailboxes' = [h \in Boxes |-> mailboxes'[h]]
  BY <1>3, <1>5
<1> HIDE DEF copies
<1>8. Pushes(Entry(comm_call[t]), copies)
  BY <1>6, <1>7 DEF Pushes
<1> QED
  BY <1>8 DEF copies

(* The buffers as queues *)
queues == [h \in Boxes |-> Contents(mailboxes[h])]

Handed(entry) ==
  \A h \in Boxes : \E n \in 0 .. MailboxCapacity :
     queues'[h] = queues[h] \o [i \in 1 .. n |-> entry]

LEMMA PushesHand ==
  ASSUME CommConstantsOK, MailboxInv, NEW entry \in Messages, NEW copies \in [Boxes -> Nat],
         Pushes(entry, copies)
  PROVE  mailboxes' \in [Boxes -> Mailbox] /\ TailFollows' /\ Handed(entry)
<1>1. ASSUME NEW h \in Boxes
      PROVE /\ mailboxes'[h] \in Mailbox
            /\ mailboxes'[h].tail = Wrap(mailboxes'[h].head + mailboxes'[h].count)
            /\ \E n \in 0 .. MailboxCapacity :
                 Contents(mailboxes'[h]) = Contents(mailboxes[h]) \o [i \in 1 .. n |-> entry]
  <2> DEFINE m == mailboxes[h]
             k == copies[h]
  <2>1. m \in Mailbox /\ m.tail = Wrap(m.head + m.count) /\ k \in Nat
    BY MailboxTypes DEF MailboxInv
  <2>2. mailboxes'[h] = Push(m, entry, k)
    BY DEF Pushes
  <2> HIDE DEF m, k
  <2>3. /\ Fitting(m, k) \in 0 .. MailboxCapacity
        /\ Push(m, entry, k) \in Mailbox
        /\ Push(m, entry, k).tail = Wrap(Push(m, entry, k).head + Push(m, entry, k).count)
        /\ Contents(Push(m, entry, k)) = Contents(m) \o [i \in 1 .. Fitting(m, k) |-> entry]
    BY <2>1, PushAppends
  <2>4. Contents(mailboxes'[h]) = Contents(m) \o [i \in 1 .. Fitting(m, k) |-> entry]
    BY <2>2, <2>3
  <2>5. Contents(mailboxes'[h]) = Contents(mailboxes[h]) \o [i \in 1 .. Fitting(m, k) |-> entry]
    BY <2>4 DEF m
  <2> QED
    BY <2>2, <2>3, <2>5
<1>2. mailboxes' \in [Boxes -> Mailbox]
  BY <1>1 DEF Pushes
<1>3. TailFollows'
  BY <1>1 DEF TailFollows
<1>4. Handed(entry)
  BY <1>1 DEF Handed, queues
<1> QED
  BY <1>2, <1>3, <1>4

LEMMA ReceiveTakes ==
  ASSUME CommConstantsOK, MailboxInv, NEW h \in Boxes, mailboxes[h].count > 0,
         mailboxes' = [mailboxes EXCEPT ![h] = Pop(mailboxes[h])]
  PROVE  /\ mailboxes' \in [Boxes -> Mailbox] /\ TailFollows'
         /\ queues[h] # <<>>
         /\ queues' = [queues EXCEPT ![h] = Tail(queues[h])]
<1> DEFINE m == mailboxes[h]
<1>0. mailboxes \in [Boxes -> Mailbox]
  BY DEF MailboxInv, CommTypeOK, Mailbox
<1>1. m \in Mailbox /\ m.tail = Wrap(m.head + m.count)
  BY MailboxTypes DEF MailboxInv
<1>2. /\ Pop(m) \in Mailbox
      /\ Pop(m).tail = Wrap(Pop(m).head + Pop(m).count)
      /\ Contents(m) # <<>>
      /\ Contents(Pop(m)) = Tail(Contents(m))
  <2> HIDE DEF m
  <2>1. m.count > 0
    BY DEF m
  <2> QED
    BY <1>1, <2>1, PopTakesFirst
<1> HIDE DEF m
<1>3. mailboxes' = [mailboxes EXCEPT ![h] = Pop(m)]
  BY DEF m
<1>4. mailboxes'[h] = Pop(m) /\ \A g \in Boxes : g # h => mailboxes'[g] = mailboxes[g]
  BY <1>0, <1>3
<1>5. mailboxes' \in [Boxes -> Mailbox]
  BY <1>0, <1>2, <1>3
<1>6. TailFollows'
  BY <1>2, <1>4 DEF TailFollows, MailboxInv
<1>7. queues[h] = Contents(m) /\ queues'[h] = Contents(Pop(m))
  BY <1>4 DEF queues, m
<1>8. \A g \in Boxes : g # h => queues'[g] = queues[g]
  BY <1>4 DEF queues
<1>9. /\ queues = [g \in Boxes |-> queues[g]]
      /\ queues' = [g \in Boxes |-> queues'[g]]
  BY DEF queues
<1>10. queues' = [queues EXCEPT ![h] = Tail(queues[h])]
  <2>1. \A g \in Boxes : queues'[g] = [queues EXCEPT ![h] = Tail(queues[h])][g]
    BY <1>2, <1>7, <1>8, <1>9
  <2> QED
    BY <1>9, <2>1
<1> QED
  BY <1>2, <1>5, <1>6, <1>7, <1>10

(* What the steps of the callers do to the mailboxes: nothing, or hand out *)
(* a message, or take one                                                  *)
Moved ==
  \/ UNCHANGED mailboxes
  \/ \E entry \in Messages, copies \in [Boxes -> Nat] : Pushes(entry, copies)
  \/ \E h \in Boxes :
       /\ mailboxes[h].count > 0
       /\ mailboxes' = [mailboxes EXCEPT ![h] = Pop(mailboxes[h])]

LEMMA StepMoves ==
  ASSUME CommConstantsOK, MailboxInv, [CommNext]_commvars
  PROVE  Moved
<1>0. CommTypeOK
  BY DEF MailboxInv
<1>1. ASSUME NEW t \in Messengers, SendPushes(t)
      PROVE Moved
  <2> DEFINE copies == [h \in Boxes |-> IF h = comm_call[t].dst THEN 1 ELSE 0]
  <2>1. copies \in [Boxes -> Nat]
    OBVIOUS
  <2>2. Entry(comm_call[t]) \in Messages
    BY <1>0, <1>1, EntryIsMessage DEF SendPushes
  <2>3. Pushes(Entry(comm_call[t]), copies)
    BY <1>0, <1>1, SendIsPushes
  <2> HIDE DEF copies
  <2> QED
    BY <2>1, <2>2, <2>3 DEF Moved
<1>2. ASSUME NEW t \in Messengers, BroadcastPushes(t)
      PROVE Moved
  <2> DEFINE copies == [h \in Boxes |-> Cardinality(Matching(comm_call[t], h))]
  <2>1. copies \in [Boxes -> Nat]
    BY <1>0, CopiesAreMany
  <2>2. Entry(comm_call[t]) \in Messages
    BY <1>0, <1>2, EntryIsMessage DEF BroadcastPushes
  <2>3. \A h \in Boxes : copies[h] = Cardinality(Matching(comm_call[t], h))
    OBVIOUS
  <2> HIDE DEF copies
  <2>4. Pushes(Entry(comm_call[t]), copies)
    BY <1>2, <2>3 DEF BroadcastPushes, Broadcast, Pushes
  <2> QED
    BY <2>1, <2>2, <2>4 DEF Moved
<1>3. ASSUME NEW t \in Messengers, NEW h \in Boxes, Receive(t, h)
      PROVE Moved
  BY <1>3 DEF Receive, Moved
<1>4. ASSUME NEW t \in Messengers, NEW src \in CommHandles, NEW dst \in Boxes,
             SendTakesId(t, src, dst)
      PROVE Moved
  BY <1>4 DEF SendTakesId, Moved
<1>5. ASSUME NEW t \in Messengers, NEW src \in CommHandles, NEW topic \in Topics,
             BroadcastTakesId(t, src, topic)
      PROVE Moved
  BY <1>5 DEF BroadcastTakesId, Moved
<1>6. ASSUME NEW t \in Messengers, NEW h \in CommHandles, NEW topic \in Topics,
             Subscribe(t, h, topic) \/ Unsubscribe(t, h, topic)
      PROVE Moved
  BY <1>6 DEF Subscribe, Unsubscribe, Moved
<1>7. CASE UNCHANGED commvars
  BY <1>7 DEF commvars, Moved
<1> QED
  BY <1>1, <1>2, <1>3, <1>4, <1>5, <1>6, <1>7 DEF CommNext

LEMMA MovedKeeps ==
  ASSUME CommConstantsOK, MailboxInv, Moved
  PROVE  mailboxes' \in [Boxes -> Mailbox] /\ TailFollows'
<1>1. CASE UNCHANGED mailboxes
  BY <1>1 DEF MailboxInv, CommTypeOK, Mailbox, TailFollows
<1>2. CASE \E entry \in Messages, copies \in [Boxes -> Nat] : Pushes(entry, copies)
  BY <1>2, PushesHand
<1>3. CASE \E h \in Boxes :
             /\ mailboxes[h].count > 0
             /\ mailboxes' = [mailboxes EXCEPT ![h] = Pop(mailboxes[h])]
  BY <1>3, ReceiveTakes
<1> QED
  BY <1>1, <1>2, <1>3 DEF Moved

LEMMA InitMailboxInv == CommConstantsOK /\ CommInit => MailboxInv
<1> SUFFICES ASSUME CommConstantsOK, CommInit PROVE MailboxInv
  OBVIOUS
<1>1. MailboxCapacity \in Nat \ {0} /\ 0 \in Positions /\ 0 \in 0 .. MailboxCapacity
  BY DEF CommConstantsOK, Positions
<1>2. Wrap(0 + 0) = 0
  <2>1. 0 < 2 * MailboxCapacity /\ 0 < MailboxCapacity /\ 0 + 0 = 0
    BY <1>1
  <2>2. Wrap(0) = 0
    BY <2>1, WrapsOnce
  <2> QED
    BY <2>1, <2>2
<1>3. EmptyMailbox \in Mailbox
  BY <1>1 DEF EmptyMailbox, Mailbox
<1>4. mailboxes \in [Boxes -> Mailbox]
  BY <1>3 DEF CommInit
<1>5. TailFollows
  BY <1>2 DEF CommInit, TailFollows, EmptyMailbox
<1>6. subscriptions \in [1 .. MaxSubscriptions -> Subscriptions \cup {None}]
  BY DEF CommInit
<1>7. msg_counter \in 1 .. MaxMsgId + 1
  BY DEF CommInit, CommConstantsOK
<1>8. comm_call \in [Messengers -> CommCalls]
  BY DEF CommInit, CommCalls
<1>9. comm_lock \in BOOLEAN
  BY DEF CommInit
<1> QED
  BY <1>4, <1>5, <1>6, <1>7, <1>8, <1>9 DEF MailboxInv, CommTypeOK, Mailbox

LEMMA NextMailboxInv == CommConstantsOK /\ MailboxInv /\ [CommNext]_commvars => MailboxInv'
<1> SUFFICES ASSUME CommConstantsOK, MailboxInv, [CommNext]_commvars PROVE MailboxInv'
  OBVIOUS
<1>1. mailboxes' \in [Boxes -> Mailbox] /\ TailFollows'
  BY StepMoves, MovedKeeps
<1> DEFINE Rest == /\ subscriptions \in [1 .. MaxSubscriptions -> Subscriptions \cup {None}]
                   /\ msg_counter \in 1 .. MaxMsgId + 1
                   /\ comm_call \in [Messengers -> CommCalls]
<1>2. Rest /\ Resting \in CommCalls /\ MaxMsgId \in Nat
  BY DEF MailboxInv, CommTypeOK, CommCalls, CommConstantsOK
<1>3. ASSUME TakeId
      PROVE msg_counter \in MsgIds /\ msg_counter' \in 1 .. MaxMsgId + 1
  BY <1>2, <1>3 DEF TakeId, MsgIds
<1>4. ASSUME NEW t \in Messengers, NEW src \in CommHandles, NEW dst \in Boxes,
             SendTakesId(t, src, dst)
      PROVE Rest'
  <2> DEFINE c == [op |-> "send", src |-> src, dst |-> dst, msg_id |-> msg_counter]
  <2>1. c \in CommCalls
    BY <1>3, <1>4 DEF SendTakesId, CommCalls
  <2>2. comm_call' = [comm_call EXCEPT ![t] = c] /\ UNCHANGED subscriptions
    BY <1>4 DEF SendTakesId
  <2> HIDE DEF c
  <2> QED
    BY <1>2, <1>3, <1>4, <2>1, <2>2 DEF SendTakesId
<1>5. ASSUME NEW t \in Messengers, NEW src \in CommHandles, NEW topic \in Topics,
             BroadcastTakesId(t, src, topic)
      PROVE Rest'
  <2> DEFINE c == [op |-> "broadcast", src |-> src, topic |-> topic, msg_id |-> msg_counter]
  <2>1. c \in CommCalls
    BY <1>3, <1>5 DEF BroadcastTakesId, CommCalls
  <2>2. comm_call' = [comm_call EXCEPT ![t] = c] /\ UNCHANGED subscriptions
    BY <1>5 DEF BroadcastTakesId
  <2> HIDE DEF c
  <2> QED
    BY <1>2, <1>3, <1>5, <2>1, <2>2 DEF BroadcastTakesId
<1>6. ASSUME NEW t \in Messengers, SendPushes(t) \/ BroadcastPushes(t)
      PROVE Rest'
  BY <1>2, <1>6 DEF SendPushes, BroadcastPushes
<1>7. ASSUME NEW t \in Messengers, NEW h \in Boxes, Receive(t, h)
      PROVE Rest'
  BY <1>2, <1>7 DEF Receive
<1>8. ASSUME NEW t \in Messengers, NEW h \in CommHandles, NEW topic \in Topics,
             Subscribe(t, h, topic)
      PROVE Rest'
  <2> DEFINE new == [subscriber |-> h, topic |-> topic]
  <2>1. new \in Subscriptions
    BY DEF Subscriptions
  <2>2. PICK s \in DOMAIN subscriptions : subscriptions' = [subscriptions EXCEPT ![s] = new]
    BY <1>8 DEF Subscribe
  <2>3. UNCHANGED <<msg_counter, comm_call>>
    BY <1>8 DEF Subscribe
  <2> HIDE DEF new
  <2> QED
    BY <1>2, <2>1, <2>2, <2>3
<1>9. ASSUME NEW t \in Messengers, NEW h \in CommHandles, NEW topic \in Topics,
             Unsubscribe(t, h, topic)
      PROVE Rest'
  <2>1. PICK s \in DOMAIN subscriptions : subscriptions' = [subscriptions EXCEPT ![s] = None]
    BY <1>9 DEF Unsubscribe
  <2>2. UNCHANGED <<msg_counter, comm_call>>
    BY <1>9 DEF Unsubscribe
  <2> QED
    BY <1>2, <2>1, <2>2
<1>10. ASSUME UNCHANGED commvars
       PROVE Rest'
  BY <1>2, <1>10 DEF commvars
<1> HIDE DEF Rest
<1>11. Rest'
  BY <1>4, <1>5, <1>6, <1>7, <1>8, <1>9, <1>10 DEF CommNext
<1>12. comm_lock' \in BOOLEAN
  BY DEF CommNext, commvars, MailboxInv, CommTypeOK
<1> QED
  BY <1>1, <1>11, <1>12 DEF Rest, MailboxInv, CommTypeOK, Mailbox

LEMMA StaysBounded ==
  ASSUME CommConstantsOK, MailboxInv
  PROVE  \A h \in Boxes : Len(queues[h]) <= MailboxCapacity
<1> SUFFICES ASSUME NEW h \in Boxes PROVE Len(queues[h]) <= MailboxCapacity
  OBVIOUS
<1>1. mailboxes[h] \in Mailbox
  BY MailboxTypes DEF MailboxInv
<1>2. Len(Contents(mailboxes[h])) = mailboxes[h].count
  BY <1>1, ContentsSeq
<1> QED
  BY <1>1, <1>2 DEF queues, Mailbox, CommConstantsOK

(* The ring buffers implement bounded first-in first-out queues, for any   *)
(* number of agents, callers and subscriptions and any capacity, behind    *)
(* the lock of COMM_MANAGER and without it.                                *)
THEOREM MailboxesAreQueues == CommSpec => ImplementsQueues
<1> USE CommAssumption
<1>1. CommInit => MailboxInv
  BY InitMailboxInv
<1>2. MailboxInv /\ [CommNext]_commvars => MailboxInv'
  BY NextMailboxInv
<1>3. ASSUME CommInit
      PROVE Queues!Init
  <2>1. ASSUME NEW h \in Boxes
        PROVE Contents(mailboxes[h]) = <<>>
    <3>1. mailboxes[h] \in Mailbox
      BY <1>1, <1>3, MailboxTypes DEF MailboxInv
    <3>2. Contents(mailboxes[h]) \in Seq(Messages \cup {None}) /\ Len(Contents(mailboxes[h])) = 0
      BY <1>3, <3>1, ContentsSeq DEF CommInit, EmptyMailbox
    <3> QED
      BY <3>2, EmptySeq
  <2> QED
    BY <2>1 DEF Queues!Init
<1>4. MailboxInv => Queues!Bounded
  BY StaysBounded DEF Queues!Bounded, queues
<1>5. ASSUME MailboxInv, Queues!Bounded', [CommNext]_commvars
      PROVE [Queues!Next /\ Queues!Bounded']_queues
  <2>1. CASE UNCHANGED mailboxes
    BY <2>1 DEF queues
  <2>2. ASSUME NEW entry \in Messages, NEW copies \in [Boxes -> Nat], Pushes(entry, copies)
        PROVE Queues!Next
    <3>1. Handed(entry)
      BY <1>5, <2>2, PushesHand
    <3>2. Queues!Deliver
      BY <3>1 DEF Queues!Deliver, Handed, queues
    <3> QED
      BY <3>2 DEF Queues!Next
  <2>3. ASSUME NEW h \in Boxes, mailboxes[h].count > 0,
               mailboxes' = [mailboxes EXCEPT ![h] = Pop(mailboxes[h])]
        PROVE Queues!Next
    <3>1. queues[h] # <<>> /\ queues' = [queues EXCEPT ![h] = Tail(queues[h])]
      BY <1>5, <2>3, ReceiveTakes
    <3>2. Queues!Receive(h)
      BY <3>1 DEF Queues!Receive, queues
    <3> QED
      BY <3>2 DEF Queues!Next
  <2> QED
    BY <1>5, <2>1, <2>2, <2>3, StepMoves DEF Moved
<1> QED
  BY <1>1, <1>2, <1>3, <1>4, <1>5, PTL DEF CommSpec, ImplementsQueues, Queues!Spec, queues

-----------------------------------------------------------------------------
(* The ids *)

LEMMA PushedBehind ==
  ASSUME CommConstantsOK, MailboxInv, NEW entry \in Messages, NEW copies \in [Boxes -> Nat],
         Pushes(entry, copies), NEW h \in Boxes
  PROVE  /\ mailboxes[h].count \in Nat /\ mailboxes'[h].count \in Nat
         /\ \A i \in 1 .. mailboxes'[h].count :
              Contents(mailboxes'[h])[i] =
                IF i <= mailboxes[h].count THEN Contents(mailboxes[h])[i] ELSE entry
<1> DEFINE S == Messages \cup {None}
           old == Contents(mailboxes[h])
           new == Contents(mailboxes'[h])
<1>1. PICK n \in 0 .. MailboxCapacity : queues'[h] = queues[h] \o [i \in 1 .. n |-> entry]
  BY PushesHand DEF Handed
<1> DEFINE added == [i \in 1 .. n |-> entry]
<1>2. new = old \o added
  BY <1>1 DEF queues
<1>3. old \in Seq(S) /\ Len(old) = mailboxes[h].count
  BY MailboxTypes, ContentsSeq DEF MailboxInv
<1>4. Len(new) = mailboxes'[h].count
  BY PushesHand, ContentsSeq
<1>5. added \in Seq(S) /\ Len(added) = n /\ \A j \in 1 .. n : added[j] = entry /\ n \in Nat
  BY DEF CommConstantsOK
<1>6. mailboxes[h].count \in Nat
  BY MailboxTypes DEF MailboxInv, Mailbox, CommConstantsOK
<1> HIDE DEF old, new, added, S
<1>7. /\ Len(new) = Len(old) + Len(added)
      /\ \A i \in 1 .. Len(old) + Len(added) :
           new[i] = IF i <= Len(old) THEN old[i] ELSE added[i - Len(old)]
  BY <1>2, <1>3, <1>5, ConcatProperties
<1>8. ASSUME NEW i \in 1 .. Len(new)
      PROVE new[i] = IF i <= Len(old) THEN old[i] ELSE entry
  <2>1. n \in Nat
    OBVIOUS
  <2>2. i \in 1 .. Len(old) + Len(added) /\ (~(i <= Len(old)) => i - Len(old) \in 1 .. n)
    BY <1>3, <1>5, <1>6, <1>7, <2>1
  <2> QED
    BY <1>5, <1>7, <2>2
<1>9. mailboxes'[h].count \in Nat
  <2>1. n \in Nat
    OBVIOUS
  <2> QED
    BY <1>3, <1>4, <1>5, <1>6, <1>7, <2>1
<1> QED
  BY <1>3, <1>4, <1>6, <1>8, <1>9 DEF old, new

LEMMA TakenInFront ==
  ASSUME CommConstantsOK, MailboxInv, NEW h \in Boxes, mailboxes[h].count > 0,
         mailboxes' = [mailboxes EXCEPT ![h] = Pop(mailboxes[h])], NEW g \in Boxes
  PROVE  \E d \in {0, 1} :
           /\ mailboxes[g].count \in Nat /\ mailboxes'[g].count = mailboxes[g].count - d
           /\ \A i \in 1 .. mailboxes'[g].count :
                /\ i + d \in 1 .. mailboxes[g].count
                /\ Contents(mailboxes'[g])[i] = Contents(mailboxes[g])[i + d]
<1>1. mailboxes[g].count \in Nat
  BY MailboxTypes DEF MailboxInv, Mailbox, CommConstantsOK
<1>2. CASE g # h
  <2>1. mailboxes'[g] = mailboxes[g]
    BY <1>2 DEF MailboxInv, CommTypeOK
  <2>2. \A i \in 1 .. mailboxes[g].count : i + 0 = i
    OBVIOUS
  <2>3. mailboxes[g].count - 0 = mailboxes[g].count
    BY <1>1
  <2> QED
    BY <1>1, <2>1, <2>2, <2>3
<1>3. CASE g = h
  <2> DEFINE m == mailboxes[h]
             old == Contents(m)
             new == Contents(Pop(m))
  <2>1. m \in Mailbox /\ m.tail = Wrap(m.head + m.count) /\ m.count > 0
    BY MailboxTypes DEF MailboxInv
  <2>2. mailboxes'[g] = Pop(m)
    BY <1>3 DEF MailboxInv, CommTypeOK
  <2>3. /\ Pop(m) \in Mailbox /\ old # <<>> /\ new = Tail(old)
    <3> HIDE DEF m
    <3> QED
      BY <2>1, PopTakesFirst
  <2>4. Pop(m).count = m.count - 1
    BY DEF Pop
  <2>5. old \in Seq(Messages \cup {None}) /\ Len(old) = m.count
    BY <2>1, ContentsSeq
  <2> HIDE DEF old, new
  <2>6. \A i \in 1 .. m.count - 1 : new[i] = old[i + 1]
    BY <2>3, <2>5
  <2>7. \A i \in 1 .. m.count - 1 : i + 1 \in 1 .. m.count
    BY <1>1, <1>3
  <2> QED
    BY <1>1, <1>3, <2>2, <2>4, <2>6, <2>7 DEF old, new
<1> QED
  BY <1>2, <1>3

(* Nothing is delivered but what a call brings *)
LEMMA PushesDeliver ==
  ASSUME CommConstantsOK, MailboxInv, NEW entry \in Messages, NEW copies \in [Boxes -> Nat],
         Pushes(entry, copies)
  PROVE  Delivered' \subseteq Delivered \cup {entry}
<1> SUFFICES ASSUME NEW h \in Boxes, NEW i \in 1 .. mailboxes'[h].count
             PROVE  Contents(mailboxes'[h])[i] \in Delivered \cup {entry}
  BY DEF Delivered
<1>1. mailboxes[h].count \in Nat /\ mailboxes'[h].count \in Nat
  BY PushedBehind
<1>2. Contents(mailboxes'[h])[i] =
        IF i <= mailboxes[h].count THEN Contents(mailboxes[h])[i] ELSE entry
  BY PushedBehind
<1>3. i <= mailboxes[h].count => i \in 1 .. mailboxes[h].count
  BY <1>1
<1> QED
  BY <1>2, <1>3 DEF Delivered

LEMMA ReceiveDelivers ==
  ASSUME CommConstantsOK, MailboxInv, NEW h \in Boxes, mailboxes[h].count > 0,
         mailboxes' = [mailboxes EXCEPT ![h] = Pop(mailboxes[h])]
  PROVE  Delivered' \subseteq Delivered
<1> SUFFICES ASSUME NEW g \in Boxes, NEW i \in 1 .. mailboxes'[g].count
             PROVE  Contents(mailboxes'[g])[i] \in Delivered
  BY DEF Delivered
<1>1. PICK d \in {0, 1} : \A j \in 1 .. mailboxes'[g].count :
                            /\ j + d \in 1 .. mailboxes[g].count
                            /\ Contents(mailboxes'[g])[j] = Contents(mailboxes[g])[j + d]
  BY TakenInFront
<1> QED
  BY <1>1 DEF Delivered

LEMMA PushesOrdered ==
  ASSUME CommConstantsOK, MailboxInv, NEW entry \in Messages, NEW copies \in [Boxes -> Nat],
         Pushes(entry, copies), Delivered \subseteq Messages, IdsInOrder,
         \A m \in Delivered : m.msg_id < entry.msg_id
  PROVE  IdsInOrder'
<1> SUFFICES ASSUME NEW h \in Boxes, NEW i \in 1 .. mailboxes'[h].count,
                    NEW j \in 1 .. mailboxes'[h].count, i < j
             PROVE  Contents(mailboxes'[h])[i].msg_id <= Contents(mailboxes'[h])[j].msg_id
  BY DEF IdsInOrder
<1> DEFINE old == Contents(mailboxes[h])
           new == Contents(mailboxes'[h])
           count == mailboxes[h].count
<1>1. count \in Nat /\ mailboxes'[h].count \in Nat
  BY PushedBehind
<1>2. /\ new[i] = IF i <= count THEN old[i] ELSE entry
      /\ new[j] = IF j <= count THEN old[j] ELSE entry
  BY PushedBehind
<1>3. /\ i <= count => i \in 1 .. count /\ old[i] \in Delivered
      /\ j <= count => j \in 1 .. count /\ old[j] \in Delivered
      /\ j <= count => i <= count
  BY <1>1 DEF Delivered
<1>4. entry.msg_id \in Int /\ \A m \in Delivered : m.msg_id \in Int
  BY DEF Messages, MsgIds
<1> HIDE DEF old, new, count
<1>5. CASE j <= count
  <2>1. old[i].msg_id <= old[j].msg_id
    BY <1>3, <1>5 DEF IdsInOrder, old, count
  <2> QED
    BY <1>2, <1>3, <1>5, <2>1 DEF new
<1>6. CASE i <= count /\ ~(j <= count)
  <2>1. old[i].msg_id < entry.msg_id /\ old[i].msg_id \in Int
    BY <1>3, <1>4, <1>6
  <2> QED
    BY <1>2, <1>4, <1>6, <2>1 DEF new
<1>7. CASE ~(i <= count) /\ ~(j <= count)
  BY <1>2, <1>4, <1>7 DEF new
<1> QED
  BY <1>3, <1>5, <1>6, <1>7

LEMMA ReceiveOrdered ==
  ASSUME CommConstantsOK, MailboxInv, NEW h \in Boxes, mailboxes[h].count > 0,
         mailboxes' = [mailboxes EXCEPT ![h] = Pop(mailboxes[h])], IdsInOrder
  PROVE  IdsInOrder'
<1> SUFFICES ASSUME NEW g \in Boxes, NEW i \in 1 .. mailboxes'[g].count,
                    NEW j \in 1 .. mailboxes'[g].count, i < j
             PROVE  Contents(mailboxes'[g])[i].msg_id <= Contents(mailboxes'[g])[j].msg_id
  BY DEF IdsInOrder
<1>1. PICK d \in {0, 1} :
        /\ mailboxes[g].count \in Nat /\ mailboxes'[g].count = mailboxes[g].count - d
        /\ \A k \in 1 .. mailboxes'[g].count :
             /\ k + d \in 1 .. mailboxes[g].count
             /\ Contents(mailboxes'[g])[k] = Contents(mailboxes[g])[k + d]
  BY TakenInFront
<1>2. i + d \in 1 .. mailboxes[g].count /\ j + d \in 1 .. mailboxes[g].count /\ i + d < j + d
  BY <1>1
<1>3. Contents(mailboxes[g])[i + d].msg_id <= Contents(mailboxes[g])[j + d].msg_id
  BY <1>2 DEF IdsInOrder
<1> QED
  BY <1>1, <1>3

LEMMA InFlightTyped ==
  ASSUME CommTypeOK, Delivered \subseteq Messages
  PROVE  InFlight \subseteq Messages
<1> SUFFICES ASSUME NEW t \in Messengers, comm_call[t] # Resting PROVE Entry(comm_call[t]) \in Messages
  BY DEF InFlight
<1>1. comm_call[t] \in CommCalls
  BY DEF CommTypeOK
<1>2. comm_call[t].op \in {"send", "broadcast"}
  BY <1>1 DEF CommCalls, Resting
<1> QED
  BY <1>2, EntryIsMessage

(* A call takes its id *)
TakesId(t, c) ==
  /\ MayCall(t)
  /\ TakeId
  /\ c.op \in {"send", "broadcast"}
  /\ Entry(c).msg_id = msg_counter /\ c.msg_id = msg_counter
  /\ comm_call' = [comm_call EXCEPT ![t] = c]
  /\ UNCHANGED mailboxes

LEMMA TakesIdKeeps ==
  ASSUME CommConstantsOK, IdsInv, NEW t \in Messengers, NEW c, TakesId(t, c)
  PROVE  IdsSpent' /\ IdsUnique' /\ (comm_lock => LatestCall' /\ IdsInOrder')
<1>0. /\ CommTypeOK /\ msg_counter \in Nat /\ msg_counter' = msg_counter + 1
      /\ InFlight \subseteq Messages /\ Messages = [msg_id : MsgIds, src : CommHandles]
      /\ MsgIds \subseteq Nat
  BY InFlightTyped DEF IdsInv, MailboxInv, CommTypeOK, TakesId, TakeId, IdsSpent, Messages, MsgIds
<1>1. Delivered' = Delivered
  BY DEF TakesId, Delivered
<1>2. /\ comm_call[t] = Resting /\ comm_call'[t] = c
      /\ \A u \in Messengers : u # t => comm_call'[u] = comm_call[u]
  BY <1>0 DEF TakesId, MayCall, CommTypeOK
<1>3. InFlight' \subseteq InFlight \cup {Entry(c)}
  BY <1>1, <1>2 DEF InFlight
<1>4. ASSUME NEW m \in InFlight
      PROVE m.msg_id \in Nat /\ m.msg_id < msg_counter
  BY <1>0 DEF IdsInv, IdsSpent
<1>5. IdsSpent'
  <2>1. Entry(c).msg_id = msg_counter
    BY DEF TakesId
  <2>2. ASSUME NEW m \in InFlight' PROVE m.msg_id < msg_counter'
    BY <1>0, <1>3, <1>4, <2>1
  <2>3. Delivered' \subseteq Messages
    BY <1>1 DEF IdsInv, IdsSpent
  <2> QED
    BY <2>2, <2>3 DEF IdsSpent
<1>6. IdsUnique'
  <2> SUFFICES ASSUME NEW m \in InFlight', NEW n \in InFlight', m.msg_id = n.msg_id
               PROVE  m.src = n.src
    BY DEF IdsUnique
  <2>1. Entry(c).msg_id = msg_counter
    BY DEF TakesId
  <2>2. CASE m \in InFlight /\ n \in InFlight
    BY <2>2 DEF IdsInv, IdsUnique
  <2>3. CASE m = Entry(c) /\ n = Entry(c)
    BY <2>3
  <2>4. CASE m \in InFlight /\ n = Entry(c)
    BY <1>0, <1>4, <2>1, <2>4
  <2>5. CASE m = Entry(c) /\ n \in InFlight
    BY <1>0, <1>4, <2>1, <2>5
  <2> QED
    BY <1>3, <2>2, <2>3, <2>4, <2>5
<1>7. ASSUME comm_lock
      PROVE LatestCall' /\ IdsInOrder'
  <2>1. \A u \in Messengers : comm_call[u] = Resting
    BY <1>7 DEF TakesId, MayCall
  <2>2. \A u \in Messengers : comm_call'[u] # Resting => u = t
    BY <1>2, <2>1
  <2>3. ASSUME NEW m \in Delivered', NEW u \in Messengers, comm_call'[u] # Resting
        PROVE m.msg_id < comm_call'[u].msg_id
    <3>1. m \in InFlight
      BY <1>1, <2>3 DEF InFlight
    <3>2. comm_call'[u].msg_id = msg_counter
      BY <1>2, <2>2, <2>3 DEF TakesId
    <3> QED
      BY <1>4, <3>1, <3>2
  <2>4. LatestCall'
    BY <2>2, <2>3 DEF LatestCall
  <2>5. IdsInOrder'
    BY <1>7 DEF TakesId, IdsInOrder, IdsInv
  <2> QED
    BY <2>4, <2>5
<1> QED
  BY <1>5, <1>6, <1>7

(* A step after which no more is in flight, and nobody takes an id *)
LEMMA FewerKeeps ==
  ASSUME IdsInv, UNCHANGED msg_counter, InFlight' \subseteq InFlight, Delivered' \subseteq Messages
  PROVE  IdsSpent' /\ IdsUnique'
  BY DEF IdsInv, IdsSpent, IdsUnique

(* A call hands out its message and returns *)
LEMMA HandsOutKeeps ==
  ASSUME CommConstantsOK, IdsInv, NEW t \in Messengers, comm_call[t].op \in {"send", "broadcast"},
         NEW copies \in [Boxes -> Nat], Pushes(Entry(comm_call[t]), copies),
         comm_call' = [comm_call EXCEPT ![t] = Resting], UNCHANGED msg_counter
  PROVE  IdsSpent' /\ IdsUnique' /\ (comm_lock => LatestCall' /\ IdsInOrder')
<1> DEFINE entry == Entry(comm_call[t])
<1>0. MailboxInv /\ CommTypeOK /\ Delivered \subseteq Messages /\ comm_call[t] # Resting
  BY DEF IdsInv, MailboxInv, IdsSpent, Resting
<1>1. entry \in Messages
  BY <1>0, EntryIsMessage
<1>2. entry \in InFlight
  BY <1>0 DEF InFlight
<1>3. Delivered' \subseteq Delivered \cup {entry}
  BY <1>0, <1>1, PushesDeliver
<1>4. comm_call'[t] = Resting /\ \A u \in Messengers : u # t => comm_call'[u] = comm_call[u]
  BY <1>0 DEF CommTypeOK
<1>5. InFlight' \subseteq InFlight
  BY <1>2, <1>3, <1>4 DEF InFlight
<1>6. Delivered' \subseteq Messages
  BY <1>0, <1>1, <1>3
<1>7. ASSUME comm_lock
      PROVE LatestCall' /\ IdsInOrder'
  <2>1. \A u \in Messengers : comm_call'[u] = Resting
    BY <1>0, <1>4, <1>7 DEF IdsInv, LatestCall
  <2>2. LatestCall'
    BY <2>1 DEF LatestCall
  <2>3. \A m \in Delivered : m.msg_id < entry.msg_id
    <3>1. entry.msg_id = comm_call[t].msg_id
      BY DEF Entry
    <3> QED
      BY <1>0, <1>7, <3>1 DEF IdsInv, LatestCall
  <2>4. IdsInOrder'
    <3>1. IdsInOrder
      BY <1>7 DEF IdsInv
    <3> HIDE DEF entry
    <3>2. Pushes(entry, copies)
      BY DEF entry
    <3> QED
      BY <1>0, <1>1, <2>3, <3>1, <3>2, PushesOrdered
  <2> QED
    BY <2>2, <2>4
<1> QED
  BY <1>5, <1>6, <1>7, FewerKeeps

LEMMA NextIdsInv == CommConstantsOK /\ IdsInv /\ [CommNext]_commvars => IdsInv'
<1> SUFFICES ASSUME CommConstantsOK, IdsInv, [CommNext]_commvars PROVE IdsInv'
  OBVIOUS
<1> DEFINE Goal == IdsSpent' /\ IdsUnique' /\ (comm_lock => LatestCall' /\ IdsInOrder')
<1>0. MailboxInv /\ CommTypeOK /\ Delivered \subseteq Messages
  BY DEF IdsInv, MailboxInv, IdsSpent
<1>1. ASSUME NEW t \in Messengers, NEW src \in CommHandles, NEW dst \in Boxes,
             SendTakesId(t, src, dst)
      PROVE Goal
  <2> DEFINE c == [op |-> "send", src |-> src, dst |-> dst, msg_id |-> msg_counter]
  <2>1. TakesId(t, c)
    BY <1>1 DEF SendTakesId, TakesId, Entry
  <2> QED
    BY <2>1, TakesIdKeeps
<1>2. ASSUME NEW t \in Messengers, NEW src \in CommHandles, NEW topic \in Topics,
             BroadcastTakesId(t, src, topic)
      PROVE Goal
  <2> DEFINE c == [op |-> "broadcast", src |-> src, topic |-> topic, msg_id |-> msg_counter]
  <2>1. TakesId(t, c)
    BY <1>2 DEF BroadcastTakesId, TakesId, Entry
  <2> QED
    BY <2>1, TakesIdKeeps
<1>3. ASSUME NEW t \in Messengers, SendPushes(t)
      PROVE Goal
  <2> DEFINE copies == [h \in Boxes |-> IF h = comm_call[t].dst THEN 1 ELSE 0]
  <2>1. copies \in [Boxes -> Nat]
    OBVIOUS
  <2>2. Pushes(Entry(comm_call[t]), copies)
    BY <1>0, <1>3, SendIsPushes
  <2>3. /\ comm_call[t].op \in {"send", "broadcast"}
        /\ comm_call' = [comm_call EXCEPT ![t] = Resting] /\ UNCHANGED msg_counter
    BY <1>3 DEF SendPushes
  <2> HIDE DEF copies
  <2> QED
    BY <2>1, <2>2, <2>3, HandsOutKeeps
<1>4. ASSUME NEW t \in Messengers, BroadcastPushes(t)
      PROVE Goal
  <2> DEFINE copies == [h \in Boxes |-> Cardinality(Matching(comm_call[t], h))]
  <2>1. copies \in [Boxes -> Nat]
    BY <1>0, CopiesAreMany
  <2>2. \A h \in Boxes : copies[h] = Cardinality(Matching(comm_call[t], h))
    OBVIOUS
  <2>3. /\ comm_call[t].op \in {"send", "broadcast"}
        /\ comm_call' = [comm_call EXCEPT ![t] = Resting] /\ UNCHANGED msg_counter
    BY <1>4 DEF BroadcastPushes
  <2> HIDE DEF copies
  <2>4. Pushes(Entry(comm_call[t]), copies)
    BY <1>4, <2>2 DEF BroadcastPushes, Broadcast, Pushes
  <2> QED
    BY <2>1, <2>3, <2>4, HandsOutKeeps
<1>5. ASSUME NEW t \in Messengers, NEW h \in Boxes, Receive(t, h)
      PROVE Goal
  <2>1. /\ mailboxes[h].count > 0 /\ UNCHANGED <<comm_call, msg_counter>>
        /\ mailboxes' = [mailboxes EXCEPT ![h] = Pop(mailboxes[h])]
    BY <1>5 DEF Receive
  <2>2. Delivered' \subseteq Delivered
    BY <1>0, <2>1, ReceiveDelivers
  <2>3. InFlight' \subseteq InFlight
    BY <2>1, <2>2 DEF InFlight
  <2>4. IdsSpent' /\ IdsUnique'
    BY <1>0, <2>1, <2>2, <2>3, FewerKeeps
  <2>5. ASSUME comm_lock PROVE LatestCall' /\ IdsInOrder'
    <3>1. LatestCall'
      BY <2>1, <2>2, <2>5 DEF LatestCall, IdsInv
    <3>2. IdsInOrder'
      BY <1>0, <2>1, <2>5, ReceiveOrdered DEF IdsInv
    <3> QED
      BY <3>1, <3>2
  <2> QED
    BY <2>4, <2>5
<1>6. ASSUME UNCHANGED <<mailboxes, comm_call, msg_counter>>
      PROVE Goal
  <2>1. Delivered' = Delivered /\ InFlight' = InFlight
    BY <1>6 DEF Delivered, InFlight
  <2>2. IdsSpent' /\ IdsUnique'
    BY <1>0, <1>6, <2>1, FewerKeeps
  <2>3. comm_lock => LatestCall' /\ IdsInOrder'
    BY <1>6, <2>1 DEF IdsInv, LatestCall, IdsInOrder
  <2> QED
    BY <2>2, <2>3
<1>7. ASSUME NEW t \in Messengers, NEW h \in CommHandles, NEW topic \in Topics,
             Subscribe(t, h, topic) \/ Unsubscribe(t, h, topic)
      PROVE Goal
  BY <1>6, <1>7 DEF Subscribe, Unsubscribe
<1>8. ASSUME UNCHANGED commvars
      PROVE Goal
  BY <1>6, <1>8 DEF commvars
<1> HIDE DEF Goal
<1>9. Goal
  BY <1>1, <1>2, <1>3, <1>4, <1>5, <1>7, <1>8 DEF CommNext
<1>10. MailboxInv' /\ comm_lock' = comm_lock
  BY NextMailboxInv DEF IdsInv, CommNext, commvars
<1> QED
  BY <1>9, <1>10 DEF Goal, IdsInv

LEMMA InitIdsInv == CommConstantsOK /\ CommInit => IdsInv
<1> SUFFICES ASSUME CommConstantsOK, CommInit PROVE IdsInv
  OBVIOUS
<1>1. MailboxInv
  BY InitMailboxInv
<1>2. \A h \in Boxes : mailboxes[h].count = 0
  BY DEF CommInit, EmptyMailbox
<1>3. Delivered = {}
  BY <1>2 DEF Delivered
<1>4. \A t \in Messengers : comm_call[t] = Resting
  BY DEF CommInit
<1>5. InFlight = {}
  BY <1>3, <1>4 DEF InFlight
<1> QED
  BY <1>1, <1>2, <1>3, <1>4, <1>5 DEF IdsInv, IdsSpent, IdsUnique, LatestCall, IdsInOrder

(* No id is given to messages of two callers, for any number of callers    *)
(* and however their sends, broadcasts and failures interleave; behind the *)
(* lock of COMM_MANAGER each mailbox has its messages in the order of      *)
(* their ids.                                                              *)
THEOREM IdsHold == CommSpec => []MessagesInOrder
<1>1. CommInit => IdsInv
  BY CommAssumption, InitIdsInv
<1>2. IdsInv /\ [CommNext]_commvars => IdsInv'
  BY CommAssumption, NextIdsInv
<1>3. IdsInv => MessagesInOrder
  BY DEF IdsInv, MessagesInOrder
<1> QED
  BY <1>1, <1>2, <1>3, PTL DEF CommSpec

=============================================================================

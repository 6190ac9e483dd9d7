----------------------------- MODULE IpcChannel ------------------------------
(***************************************************************************)
(* IPC channels and their manager, kernel/src/ipc/channel.rs.              *)
(*                                                                         *)
(* The methods of a channel take &self: each loads is_open first and locks *)
(* the buffer afterwards.  The manager is reached through the lock of      *)
(* IPC_MANAGER, one step per call; the channels in its table stay its own, *)
(* get_channel returns a clone, which has an empty buffer.                 *)
(***************************************************************************)
EXTENDS Naturals, Sequences, Functions

CONSTANTS
  IpcThreads,
  IpcMessages,
  IpcCapacity, \* the capacity the channels are created with
  MaxChannels, \* bound: channels ever created
  MaxHandles,  \* bound: clones ever made
  MaxSends     \* bound: sends on one handle

(* What the code guarantees of the constants *)
ASSUME IpcAssumption ==
  IpcCapacity \in Nat \ {0} /\ {MaxChannels, MaxHandles, MaxSends} \subseteq Nat

VARIABLES
  channels,      \* the manager's table, channel id -> channel
  channel_id,
  handles,       \* the clones that get_channel has returned, in their order
  channel_call  \* the locals of each thread's call, IpcIdle between calls

ipcvars == <<channels, channel_id, handles, channel_call>>

IpcIdle == [op |-> "idle"]
HandleIds == 1 .. MaxHandles
ChannelType == [id : 1 .. MaxChannels, buffer : Seq(IpcMessages), is_open : BOOLEAN,
                msg_count : Nat]
IpcCalls == {IpcIdle} \cup [op : {"send"}, handle : HandleIds, msg : IpcMessages]
                   \cup [op : {"receive"}, handle : HandleIds]

IpcInit ==
  /\ channels = <<>>
  /\ channel_id = 1
  /\ handles = <<>>
  /\ channel_call = [t \in IpcThreads |-> IpcIdle]

-----------------------------------------------------------------------------
(* IpcChannelManager; a capacity of 0 is refused (InvalidSize) *)

NewChannel(id) == [id |-> id, buffer |-> <<>>, is_open |-> TRUE, msg_count |-> 0]

Clone(c) == [c EXCEPT !.buffer = <<>>]

CreateChannel ==
  /\ channel_id <= MaxChannels
  /\ channels' = [id \in DOMAIN channels \cup {channel_id} |->
                    IF id = channel_id THEN NewChannel(id) ELSE channels[id]]
  /\ channel_id' = channel_id + 1
  /\ UNCHANGED <<handles, channel_call>>

DestroyChannel(id) ==
  /\ id \in DOMAIN channels
  /\ channels' = Restrict(channels, DOMAIN channels \ {id})
  /\ UNCHANGED <<channel_id, handles, channel_call>>

GetChannel(id) ==
  /\ id \in DOMAIN channels
  /\ Len(handles) < MaxHandles
  /\ handles' = Append(handles, Clone(channels[id]))
  /\ UNCHANGED <<channels, channel_id, channel_call>>

-----------------------------------------------------------------------------
(* IpcChannel: the steps of the calls on a handle *)

SetChannelCall(t, c) == channel_call' = [channel_call EXCEPT ![t] = c]

(* send: ChannelClosed when the channel is closed *)
ChannelSends(t, h, m) ==
  /\ channel_call[t] = IpcIdle
  /\ handles[h].is_open
  /\ handles[h].msg_count < MaxSends
  /\ SetChannelCall(t, [op |-> "send", handle |-> h, msg |-> m])
  /\ UNCHANGED <<channels, channel_id, handles>>

(* Mutated form of HasRoom: a full buffer takes one more *)
HasRoomLate(c) == Len(c.buffer) <= IpcCapacity

HasRoom(c) == Len(c.buffer) < IpcCapacity

(* ChannelFull when the buffer is full *)
ChannelPushes(t) ==
  /\ channel_call[t].op = "send"
  /\ LET h == channel_call[t].handle
     IN handles' = IF HasRoom(handles[h])
                   THEN [handles EXCEPT ![h].buffer = Append(@, channel_call[t].msg),
                                        ![h].msg_count = @ + 1]
                   ELSE handles
  /\ SetChannelCall(t, IpcIdle)
  /\ UNCHANGED <<channels, channel_id>>

TryReceiveLoads(t, h) ==
  /\ channel_call[t] = IpcIdle
  /\ handles[h].is_open
  /\ SetChannelCall(t, [op |-> "receive", handle |-> h])
  /\ UNCHANGED <<channels, channel_id, handles>>

TryReceivePops(t) ==
  /\ channel_call[t].op = "receive"
  /\ LET h == channel_call[t].handle
     IN IF handles[h].buffer = <<>> THEN UNCHANGED handles
        ELSE handles' = [handles EXCEPT ![h].buffer = Tail(@)]
  /\ SetChannelCall(t, IpcIdle)
  /\ UNCHANGED <<channels, channel_id>>

CloseHandle(h) ==
  /\ handles' = [handles EXCEPT ![h].is_open = FALSE]
  /\ UNCHANGED <<channels, channel_id, channel_call>>

IpcNext ==
  \/ CreateChannel
  \/ \E id \in DOMAIN channels : DestroyChannel(id)
  \/ \E id \in DOMAIN channels : GetChannel(id)
  \/ \E t \in IpcThreads, h \in DOMAIN handles, m \in IpcMessages : ChannelSends(t, h, m)
  \/ \E t \in IpcThreads : ChannelPushes(t)
  \/ \E t \in IpcThreads, h \in DOMAIN handles : TryReceiveLoads(t, h)
  \/ \E t \in IpcThreads : TryReceivePops(t)
  \/ \E h \in DOMAIN handles : CloseHandle(h)

IpcSpec == IpcInit /\ [][IpcNext]_ipcvars

-----------------------------------------------------------------------------

IpcTypeOK ==
  /\ DOMAIN channels \subseteq 1 .. channel_id - 1
  /\ \A id \in DOMAIN channels : channels[id] = NewChannel(id)
  /\ channel_id \in 1 .. MaxChannels + 1
  /\ handles \in Seq(ChannelType)
  /\ Len(handles) <= MaxHandles
  /\ channel_call \in [IpcThreads -> IpcCalls]

(* The inductive invariant: calls are on handles there are, and no buffer  *)
(* is longer than its capacity.                                            *)
IpcInv ==
  /\ IpcTypeOK
  /\ \A t \in IpcThreads :
       channel_call[t].op # "idle" => channel_call[t].handle \in DOMAIN handles
  /\ \A h \in DOMAIN handles : Len(handles[h].buffer) <= IpcCapacity

(* Each handle's buffer is a bounded first-in first-out queue, whatever    *)
(* the threads that share the handle interleave.                           *)
IpcQueues == INSTANCE BoundedQueues WITH
  Queues <- HandleIds, Messages <- IpcMessages, Capacity <- IpcCapacity,
  queue <- [h \in HandleIds |-> IF h \in DOMAIN handles THEN handles[h].buffer ELSE <<>>]

ChannelsAreQueues == IpcQueues!Spec

(* Two handles of one channel see the same messages. *)
HandlesShareMessages ==
  \A h, g \in DOMAIN handles :
     handles[h].id = handles[g].id => handles[h].buffer = handles[g].buffer

=============================================================================

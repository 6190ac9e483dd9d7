------------------------------- MODULE FdTable -------------------------------
(***************************************************************************)
(* The table of file descriptors, kernel/src/fs/fd_table.rs, on files in   *)
(* memory, MemoryInode of kernel/src/fs/inode.rs.                          *)
(*                                                                         *)
(* The system calls share one table without a lock around it.  read and    *)
(* write look the entry up under the table's lock, do the I/O outside, and *)
(* lock the table again to store the offset; dup is two sections, too.  A  *)
(* file is its size; directories, which read and write refuse, are left    *)
(* out.                                                                    *)
(***************************************************************************)
EXTENDS Integers

CONSTANTS
  FdThreads,
  FdInodes,
  OpenModes,        \* the open flags used: records of read, write, append
  MaxFds,
  Lengths,      \* lengths of the buffers
  Share,        \* threads use descriptors opened by others
  MaxFileSize   \* bound: sizes of files and offsets of seeks

(* What the code guarantees of the constants *)
FdConstantsOK ==
  /\ FdThreads # {}
  /\ OpenModes \subseteq [read : BOOLEAN, write : BOOLEAN, append : BOOLEAN]
  /\ MaxFds \in Nat \ {0}
  /\ Lengths \subseteq Nat
  /\ Share \in BOOLEAN
  /\ MaxFileSize \in Nat

ASSUME FdAssumption == FdConstantsOK

VARIABLES
  descriptors,  \* fds: the entry of each descriptor
  next_fd,      \* where the search for a free slot begins
  file_size,    \* the size of each file
  fd_call,      \* the locals of each thread's call, FdIdle between calls
  opened_by,    \* history: the thread that opened each descriptor
  fd_position,  \* history: where the completed calls on it have moved each one
  appended      \* history: the bytes appended to each file, one call at a time

fdvars == <<descriptors, next_fd, file_size, fd_call, opened_by, fd_position, appended>>

FdSlots == 0 .. MaxFds - 1
NoEntry == [none |-> TRUE]
FdIdle == [op |-> "idle"]
OpenFds == {i \in FdSlots : descriptors[i] # NoEntry}

FdInit ==
  /\ descriptors = [i \in FdSlots |-> NoEntry]
  /\ next_fd = 0
  /\ file_size = [f \in FdInodes |-> 0]
  /\ fd_call = [t \in FdThreads |-> FdIdle]
  /\ opened_by = [i \in FdSlots |-> CHOOSE t \in FdThreads : TRUE]
  /\ fd_position = [i \in FdSlots |-> 0]
  /\ appended = [f \in FdInodes |-> 0]

SetFdCall(t, c) == fd_call' = [fd_call EXCEPT ![t] = c]

MayUse(t, i) == fd_call[t] = FdIdle /\ i \in OpenFds /\ (Share \/ opened_by[i] = t)

(* The first free slot from next_fd on, going round *)
IsFree(i) ==
  LET distance(j) == (j + MaxFds - next_fd) % MaxFds
  IN i \notin OpenFds /\ \A j \in FdSlots \ OpenFds : distance(i) <= distance(j)

SlotAfter(i) == (i + 1) % MaxFds

(* FdTableFull when no slot is free *)
AllocateFd(t, entry) ==
  \E i \in FdSlots :
    /\ IsFree(i)
    /\ descriptors' = [descriptors EXCEPT ![i] = entry]
    /\ next_fd' = SlotAfter(i)
    /\ opened_by' = [opened_by EXCEPT ![i] = t]
    /\ fd_position' = [fd_position EXCEPT ![i] = entry.offset]

OpenFile(t, f, flags) ==
  /\ fd_call[t] = FdIdle
  /\ AllocateFd(t, [inode |-> f, flags |-> flags, offset |-> 0])
  /\ UNCHANGED <<file_size, fd_call, appended>>

Close(t, i) ==
  /\ MayUse(t, i)
  /\ descriptors' = [descriptors EXCEPT ![i] = NoEntry]
  /\ UNCHANGED <<next_fd, file_size, fd_call, opened_by, fd_position, appended>>

DupGets(t, i) ==
  /\ MayUse(t, i)
  /\ SetFdCall(t, [op |-> "dup", entry |-> descriptors[i]])
  /\ UNCHANGED <<descriptors, next_fd, file_size, opened_by, fd_position, appended>>

DupAllocates(t) ==
  /\ fd_call[t].op = "dup"
  /\ AllocateFd(t, fd_call[t].entry)
  /\ SetFdCall(t, FdIdle)
  /\ UNCHANGED <<file_size, appended>>

DupFails(t) ==
  /\ fd_call[t].op = "dup"
  /\ OpenFds = FdSlots
  /\ SetFdCall(t, FdIdle)
  /\ UNCHANGED <<descriptors, next_fd, file_size, opened_by, fd_position, appended>>

(* PermissionDenied without O_RDONLY or O_RDWR *)
ReadLooksUp(t, i, length) ==
  /\ MayUse(t, i)
  /\ descriptors[i].flags.read
  /\ SetFdCall(t, [op |-> "read", fd |-> i, inode |-> descriptors[i].inode,
                   offset |-> descriptors[i].offset, length |-> length])
  /\ UNCHANGED <<descriptors, next_fd, file_size, opened_by, fd_position, appended>>

Least(a, b) == IF a < b THEN a ELSE b

(* Nothing is read at or behind the end of the file *)
BytesRead(c) ==
  IF c.offset >= file_size[c.inode] THEN 0
  ELSE Least(c.length, file_size[c.inode] - c.offset)

ReadFile(t) ==
  /\ fd_call[t].op = "read"
  /\ SetFdCall(t, [op |-> "store", fd |-> fd_call[t].fd, moved |-> BytesRead(fd_call[t]),
                   offset |-> fd_call[t].offset + BytesRead(fd_call[t])])
  /\ UNCHANGED <<descriptors, next_fd, file_size, opened_by, fd_position, appended>>

(* PermissionDenied with O_RDONLY *)
WriteLooksUp(t, i, length) ==
  /\ MayUse(t, i)
  /\ descriptors[i].flags.write
  /\ SetFdCall(t, [op |-> IF descriptors[i].flags.append THEN "append" ELSE "write",
                   fd |-> i, inode |-> descriptors[i].inode,
                   offset |-> descriptors[i].offset, length |-> length])
  /\ UNCHANGED <<descriptors, next_fd, file_size, opened_by, fd_position, appended>>

(* With O_APPEND the offset is the size of the file at this moment *)
AppendLoadsSize(t) ==
  /\ fd_call[t].op = "append"
  /\ LET c == fd_call[t]
     IN SetFdCall(t, [op |-> "write_end", fd |-> c.fd, inode |-> c.inode,
                      offset |-> file_size[c.inode], length |-> c.length])
  /\ UNCHANGED <<descriptors, next_fd, file_size, opened_by, fd_position, appended>>

Grown(f, offset, length) ==
  [file_size EXCEPT ![f] = IF offset + length > @ THEN offset + length ELSE @]

(* No other thread is about to append to the file *)
Alone(t, f) ==
  \A u \in FdThreads \ {t} : ~(fd_call[u].op = "write_end" /\ fd_call[u].inode = f)

WriteFile(t) ==
  /\ fd_call[t].op \in {"write", "write_end"}
  /\ LET c == fd_call[t]
     IN /\ c.offset + c.length <= MaxFileSize
        /\ file_size' = Grown(c.inode, c.offset, c.length)
        /\ IF c.op = "write_end"
           THEN /\ appended' = IF Alone(t, c.inode)
                               THEN [appended EXCEPT ![c.inode] = @ + c.length]
                               ELSE appended
                /\ SetFdCall(t, [op |-> "store_end", fd |-> c.fd, inode |-> c.inode])
           ELSE /\ SetFdCall(t, [op |-> "store", fd |-> c.fd, moved |-> c.length,
                                 offset |-> c.offset + c.length])
                /\ UNCHANGED appended
  /\ UNCHANGED <<descriptors, next_fd, opened_by, fd_position>>

WithOffset(entry, offset) ==
  [inode |-> entry.inode, flags |-> entry.flags, offset |-> offset]

(* Mutated form of StoredOffset: the offset is not stored. *)
OffsetKept(c) == descriptors

(* The entry that is in the slot now, if any, gets the offset *)
StoredOffset(c) ==
  IF c.fd \notin OpenFds THEN descriptors
  ELSE [descriptors EXCEPT ![c.fd] =
          WithOffset(@, IF c.op = "store_end" THEN file_size[c.inode] ELSE c.offset)]

StoreOffset(t) ==
  /\ fd_call[t].op \in {"store", "store_end"}
  /\ descriptors' = StoredOffset(fd_call[t])
  /\ fd_position' = [fd_position EXCEPT ![fd_call[t].fd] =
                       IF fd_call[t].op = "store_end" THEN file_size[fd_call[t].inode]
                       ELSE @ + fd_call[t].moved]
  /\ SetFdCall(t, FdIdle)
  /\ UNCHANGED <<next_fd, file_size, opened_by, appended>>

(* InvalidOffset below 0 *)
Seek(t, i, offset) ==
  /\ MayUse(t, i)
  /\ descriptors' = [descriptors EXCEPT ![i] = WithOffset(@, offset)]
  /\ fd_position' = [fd_position EXCEPT ![i] = offset]
  /\ UNCHANGED <<next_fd, file_size, fd_call, opened_by, appended>>

FdNext ==
  \/ \E t \in FdThreads, f \in FdInodes, flags \in OpenModes : OpenFile(t, f, flags)
  \/ \E t \in FdThreads, i \in FdSlots : Close(t, i)
  \/ \E t \in FdThreads, i \in FdSlots : DupGets(t, i)
  \/ \E t \in FdThreads : DupAllocates(t)
  \/ \E t \in FdThreads : DupFails(t)
  \/ \E t \in FdThreads, i \in FdSlots, length \in Lengths : ReadLooksUp(t, i, length)
  \/ \E t \in FdThreads : ReadFile(t)
  \/ \E t \in FdThreads, i \in FdSlots, length \in Lengths : WriteLooksUp(t, i, length)
  \/ \E t \in FdThreads : AppendLoadsSize(t)
  \/ \E t \in FdThreads : WriteFile(t)
  \/ \E t \in FdThreads : StoreOffset(t)
  \/ \E t \in FdThreads, i \in FdSlots, offset \in 0 .. MaxFileSize : Seek(t, i, offset)

FdSpec == FdInit /\ [][FdNext]_fdvars

-----------------------------------------------------------------------------

Offsets == 0 .. MaxFileSize
Entry == [inode : FdInodes, flags : OpenModes, offset : Offsets]
Transfer == [op : {"read", "write", "append", "write_end"}, fd : FdSlots, inode : FdInodes,
             offset : Offsets, length : Lengths]
FdCalls == {FdIdle}
           \cup [op : {"dup"}, entry : Entry]
           \cup Transfer
           \cup [op : {"store"}, fd : FdSlots, moved : Nat, offset : Offsets]
           \cup [op : {"store_end"}, fd : FdSlots, inode : FdInodes]

FdTypeOK ==
  /\ descriptors \in [FdSlots -> Entry \cup {NoEntry}]
  /\ next_fd \in FdSlots
  /\ file_size \in [FdInodes -> Offsets]
  /\ fd_call \in [FdThreads -> FdCalls]
  /\ opened_by \in [FdSlots -> FdThreads]
  /\ fd_position \in [FdSlots -> Nat]
  /\ appended \in [FdInodes -> Nat]

(* The descriptors that a read or a write under way will move *)
WillMove(c) == c.op \notin {"idle", "dup"}

Busy == {fd_call[t].fd : t \in {u \in FdThreads : WillMove(fd_call[u])}}

(* A descriptor's offset is where the reads, writes and seeks on it have   *)
(* moved it: no call is lost, and none moves another descriptor.           *)
OffsetExact == \A i \in OpenFds \ Busy : descriptors[i].offset = fd_position[i]

(* An open descriptor is never replaced: it keeps its file until it is     *)
(* closed.                                                                 *)
KeepsFile ==
  [][\A i \in OpenFds :
       descriptors'[i] # NoEntry =>
         descriptors'[i].inode = descriptors[i].inode /\ opened_by'[i] = opened_by[i]]_fdvars

(* What is written with O_APPEND goes behind all that was appended before, *)
(* except for appends of which one loads the file's size before another    *)
(* one has written.                                                        *)
AppendsKept == \A f \in FdInodes : file_size[f] >= appended[f]

(* All this of the table that threads use at once.  Offsets are exact if   *)
(* no two threads use one descriptor.                                      *)
DescriptorsExact ==
  /\ [](AppendsKept /\ (~Share => OffsetExact))
  /\ KeepsFile

-----------------------------------------------------------------------------
(* Why they are: an append has loaded a size that covers what was appended *)
AppendsBehind ==
  \A t \in FdThreads : fd_call[t].op = "write_end" =>
    fd_call[t].offset >= appended[fd_call[t].inode]

(* and a call knows the offset of its descriptor, which is its own.        *)
Knows(t, c) ==
  /\ c.fd \in OpenFds
  /\ opened_by[c.fd] = t
  /\ c.op \in {"read", "write"} => c.offset = fd_position[c.fd]
  /\ c.op = "store" => c.offset = fd_position[c.fd] + c.moved

CallsKnow == \A t \in FdThreads : WillMove(fd_call[t]) => Knows(t, fd_call[t])

FdInv ==
  /\ FdTypeOK
  /\ AppendsKept
  /\ AppendsBehind
  /\ ~Share => OffsetExact /\ CallsKnow

=============================================================================

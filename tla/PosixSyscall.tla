----------------------------- MODULE PosixSyscall -----------------------------
(***************************************************************************)
(* The POSIX side of the system calls: kernel/src/syscall/posix.rs, the    *)
(* arms of dispatch that lead to it, the virtual file system of            *)
(* kernel/src/fs/vfs.rs with the paths of kernel/src/fs/path.rs, and the   *)
(* wrappers of crates/libagent.                                            *)
(*                                                                         *)
(* Half of the arms of dispatch answer for themselves: close returns 0 and *)
(* closes nothing, so that only callers inside the kernel, who call        *)
(* sys_close, give a descriptor back.  open creates a new file whatever    *)
(* the path.  The table of descriptors is FdTable's; here its calls do not *)
(* overlap.  brk keeps three atomics, read and written one by one.         *)
(***************************************************************************)
EXTENDS Integers, FiniteSets, Sequences, SequencesExt

CONSTANTS
  Callers,      \* threads that call brk
  Paths,        \* the paths in use: sequences of what is between the slashes
  MAX_FDS,
  HeapMax,      \* bytes between the start and the end of the heap
  MaxBrk,       \* bound: addresses given to brk
  MaxPid,       \* bound: process ids
  MaxSize,      \* bound: sizes of files
  MaxOpened,    \* bound: descriptors ever opened
  MaxMounts,    \* bound: mounts at a time
  Bytes         \* values of a byte

ASSUME PosixAssumption ==
  /\ Paths \subseteq Seq(STRING) \ {<<>>}
  /\ MAX_FDS \in Nat \ {0}
  /\ {HeapMax, MaxBrk, MaxPid, MaxSize, MaxOpened, MaxMounts} \subseteq Nat
  /\ Bytes \in Nat \ {0}

VARIABLES
  vfs,      \* the root and the list of mounts
  fds,      \* the table of descriptors: inode, mode and offset, or Closed
  size,     \* the size of each inode
  heap,     \* HEAP_TOP, HEAP_START and HEAP_END
  brk,      \* the locals of each thread's brk, BrkIdle between calls
  pids,     \* PID_COUNTER, and the random counter
  ret,      \* what the last call returned
  seen      \* history: descriptors opened and closed, and whether two threads
            \* have initialised the heap at the same time

posixvars == <<vfs, fds, size, heap, brk, pids, ret, seen>>

Closed == [none |-> TRUE]
BrkIdle == [pc |-> "idle"]
Slots == 0 .. MAX_FDS - 1
Open == {i \in Slots : fds[i] # Closed}

-----------------------------------------------------------------------------
(* Paths.  "/a" is <<"", "a">>, "/" is <<"", "">> and the empty path <<"">>. *)

Empty == <<"">>
Slash == <<"", "">>
NoPath == <<>>

IsAbsolute(path) == Len(path) > 1 /\ path[1] = ""

Components(path) == SelectSeq(path, LAMBDA segment : segment # "")

(* normalize: a trailing slash stays, if there is something before it *)
Normalize(path) ==
  LET stack == FoldLeft(LAMBDA s, c : IF c = "." THEN s
                                      ELSE IF c = ".." THEN (IF s = <<>> THEN s ELSE Front(s))
                                      ELSE Append(s, c),
                        <<>>, Components(path))
      result == (IF IsAbsolute(path) THEN <<"">> ELSE <<>>) \o stack
  IN IF result = <<>> THEN Empty
     ELSE IF Last(path) = "" \/ result = Empty THEN Append(result, "") ELSE result

(* trim_end_matches of the slash; at least the empty path is left *)
Trimmed(path) ==
  LET full == {i \in DOMAIN path : i = 1 \/ path[i] # ""}
  IN SubSeq(path, 1, CHOOSE i \in full : \A j \in full : j <= i)

Parent(path) ==
  LET trimmed == Trimmed(path)
  IN IF path \in {Empty, Slash} \/ Len(trimmed) = 1 THEN NoPath
     ELSE IF Len(trimmed) = 2 /\ trimmed[1] = "" THEN Slash
     ELSE Front(trimmed)

(* None for the root; two slashes have the file name "" *)
Filename(path) == IF path \in {Empty, Slash} THEN NoPath ELSE <<Last(Trimmed(path))>>

Join(base, relative) ==
  IF relative = Empty THEN base
  ELSE IF IsAbsolute(relative) \/ base = Empty THEN relative
  ELSE Trimmed(base) \o relative

-----------------------------------------------------------------------------

PosixInit ==
  /\ vfs = [root |-> "None", mounts |-> <<>>]
  /\ fds = [i \in Slots |-> Closed]
  /\ size = [f \in Slots |-> 0]
  /\ heap = [top |-> 0, start |-> 0, end |-> 0]
  /\ brk = [t \in Callers |-> BrkIdle]
  /\ pids = [next |-> 1, random |-> 0]
  /\ ret = 0
  /\ seen = [opened |-> 0, closed |-> 0, first |-> {}, raced |-> FALSE]

-----------------------------------------------------------------------------
(* The virtual file system.  An inode is its type. *)

Inodes == {"directory", "file"}
MountPoints == {vfs.mounts[i].path : i \in DOMAIN vfs.mounts}

SetRoot(inode) ==
  /\ vfs' = [vfs EXCEPT !.root = inode]
  /\ UNCHANGED <<fds, size, heap, brk, pids, ret, seen>>

MountError(path) ==
  IF path = Empty THEN "InvalidPath" ELSE IF path \in MountPoints THEN "AlreadyExists" ELSE "Ok"

Mount(path, inode) ==
  /\ MountError(path) = "Ok" /\ Len(vfs.mounts) < MaxMounts
  /\ vfs' = [vfs EXCEPT !.mounts = Append(@, [path |-> path, inode |-> inode])]
  /\ UNCHANGED <<fds, size, heap, brk, pids, ret, seen>>

(* NotFound for a path that is no mount point *)
Unmount(path) ==
  /\ path \in MountPoints
  /\ vfs' = [vfs EXCEPT !.mounts = SelectSeq(@, LAMBDA m : m.path # path)]
  /\ UNCHANGED <<fds, size, heap, brk, pids, ret, seen>>

(* Every path that is no mount point resolves to the root *)
Resolve(path) ==
  LET here == SelectSeq(vfs.mounts, LAMBDA m : m.path = path)
  IN IF path = Empty THEN "InvalidPath"
     ELSE IF path # Slash /\ here # <<>> THEN here[1].inode
     ELSE IF vfs.root = "None" THEN "NotFound" ELSE vfs.root

(* create_file and create_dir look at nothing and change nothing *)
RemoveError(path) ==
  IF path \in {Empty, Slash} THEN "PermissionDenied"
  ELSE IF path \in MountPoints THEN "NotEmpty" ELSE "Ok"

(* The entries: all mounts, named by what follows the last slash *)
ListDir(path) ==
  IF path # Slash THEN (IF path \in MountPoints THEN <<>> ELSE <<"NotADirectory">>)
  ELSE IF vfs.root = "None" THEN <<"NotFound">>
  ELSE [i \in DOMAIN vfs.mounts |-> Last(vfs.mounts[i].path)]

-----------------------------------------------------------------------------
(* Descriptors.  EBADF is -9 for everything that is not open. *)

Returns(n) == ret' = n
Quiet(n) == Returns(n) /\ UNCHANGED <<vfs, fds, size, heap, brk, pids, seen>>

(* An inode lives as long as a descriptor refers to it *)
Entries == [inode : Slots, read : BOOLEAN, write : BOOLEAN, offset : 0 .. MaxSize]
InUse == {fds[i].inode : i \in Open}

OpenAt(i, entry) ==
  /\ seen.opened < MaxOpened
  /\ fds' = [fds EXCEPT ![i] = entry]
  /\ seen' = [seen EXCEPT !.opened = @ + 1]
  /\ Returns(i)
  /\ UNCHANGED <<vfs, heap, brk, pids>>

(* open never fails for its path; EMFILE without a free slot *)
sys_open(read, write) ==
  IF Open = Slots THEN Quiet(-24)
  ELSE \E i \in Slots \ Open :
         LET new == CHOOSE f \in Slots : f \notin InUse
         IN /\ OpenAt(i, [inode |-> new, read |-> read, write |-> write, offset |-> 0])
            /\ size' = [size EXCEPT ![new] = 0]

(* Both descriptors have the inode, each an offset of its own *)
sys_dup(fd) ==
  IF fd \notin Open \/ Open = Slots THEN Quiet(-9)
  ELSE \E i \in Slots \ Open : OpenAt(i, fds[fd]) /\ UNCHANGED size

(* dup2 closes nothing and copies nothing *)
sys_dup2(old, new) ==
  Quiet(IF old < 0 \/ new < 0 THEN -9 ELSE IF old = new THEN old ELSE new)

sys_close(fd) ==
  IF fd \notin Open THEN Quiet(-9)
  ELSE /\ fds' = [fds EXCEPT ![fd] = Closed]
       /\ seen' = [seen EXCEPT !.closed = @ + 1]
       /\ Returns(0)
       /\ UNCHANGED <<vfs, size, heap, brk, pids>>

(* Moves the offset of an open descriptor *)
Moves(fd, offset, answer) ==
  /\ fds' = [fds EXCEPT ![fd].offset = offset]
  /\ Returns(answer)
  /\ UNCHANGED <<vfs, heap, brk, pids, seen>>

sys_read(fd, length) ==
  IF fd \notin Open \/ ~fds[fd].read THEN Quiet(-9)
  ELSE LET left == size[fds[fd].inode] - fds[fd].offset
           n == IF left <= 0 THEN 0 ELSE IF length <= left THEN length ELSE left
       IN Moves(fd, fds[fd].offset + n, n) /\ UNCHANGED size

sys_write(fd, length) ==
  IF fd \notin Open \/ ~fds[fd].write THEN Quiet(-9)
  ELSE LET end == fds[fd].offset + length
       IN /\ end <= MaxSize
          /\ Moves(fd, end, length)
          /\ size' = [size EXCEPT ![fds[fd].inode] = IF end > @ THEN end ELSE @]

(* writev and readv pass an empty buffer for each vector, and count its    *)
(* length; the empty write grows a file whose offset is behind its end     *)
Total(lengths) == FoldLeft(LAMBDA sum, n : sum + n, 0, lengths)

sys_writev(fd, lengths) ==
  IF lengths # <<>> /\ (fd \notin Open \/ ~fds[fd].write) THEN Quiet(-9)
  ELSE /\ IF lengths = <<>> THEN UNCHANGED size
          ELSE size' = [size EXCEPT ![fds[fd].inode] = IF fds[fd].offset > @ THEN fds[fd].offset ELSE @]
       /\ Returns(Total(lengths))
       /\ UNCHANGED <<vfs, fds, heap, brk, pids, seen>>

sys_readv(fd, lengths) ==
  Quiet(IF lengths # <<>> /\ (fd \notin Open \/ ~fds[fd].read) THEN -9 ELSE Total(lengths))

(* EBADF also for an offset below 0 *)
sys_lseek(fd, offset, whence) ==
  IF whence \notin 0 .. 2 THEN Quiet(-22)
  ELSE IF fd \notin Open THEN Quiet(-9)
  ELSE LET new == offset + CASE whence = 0 -> 0 [] whence = 1 -> fds[fd].offset
                             [] whence = 2 -> size[fds[fd].inode]
       IN /\ new <= MaxSize
          /\ IF new < 0 THEN Quiet(-9) ELSE Moves(fd, new, new) /\ UNCHANGED size

sys_fstat(fd) == Quiet(IF fd \in Open THEN 0 ELSE -9)

-----------------------------------------------------------------------------
(* brk: loads HEAP_TOP, then HEAP_START and HEAP_END; the first call sets  *)
(* the three.                                                              *)

At(t, pc) == brk[t].pc = pc
Goto(t, locals) == brk' = [brk EXCEPT ![t] = locals]
Leave(t, n) == Goto(t, BrkIdle) /\ Returns(n)

BrkCall(t, new) ==
  /\ At(t, "idle")
  /\ IF new = 0 THEN Returns(heap.top) /\ UNCHANGED brk
     ELSE /\ Goto(t, [pc |-> "start", new |-> new, current |-> heap.top])
          /\ UNCHANGED ret
  /\ UNCHANGED <<vfs, fds, size, heap, pids, seen>>

BrkLoadStart(t) ==
  /\ At(t, "start")
  /\ Goto(t, [pc |-> "end", new |-> brk[t].new, current |-> brk[t].current, start |-> heap.start])
  /\ seen' = IF heap.start = 0
             THEN [seen EXCEPT !.first = @ \cup {t}, !.raced = @ \/ seen.first # {}] ELSE seen
  /\ UNCHANGED <<vfs, fds, size, heap, pids, ret>>

(* Mutated form of InRange: the end of the heap is not looked at. *)
InRangeBelow(new, start, end) == new >= start

InRange(new, start, end) == new >= start /\ new <= end

BrkLoadEnd(t) ==
  /\ At(t, "end")
  /\ IF brk[t].start = 0 THEN Goto(t, [brk[t] EXCEPT !.pc = "store start"]) /\ UNCHANGED ret
     ELSE IF InRange(brk[t].new, brk[t].start, heap.end)
     THEN Goto(t, [brk[t] EXCEPT !.pc = "store top"]) /\ UNCHANGED ret
     ELSE Leave(t, brk[t].current)
  /\ UNCHANGED <<vfs, fds, size, heap, pids, seen>>

BrkStoreStart(t) ==
  /\ At(t, "store start")
  /\ heap' = [heap EXCEPT !.start = brk[t].new]
  /\ Goto(t, [brk[t] EXCEPT !.pc = "store end"])
  /\ UNCHANGED <<vfs, fds, size, pids, ret, seen>>

BrkStoreEnd(t) ==
  /\ At(t, "store end")
  /\ heap' = [heap EXCEPT !.end = brk[t].new + HeapMax]
  /\ Goto(t, [brk[t] EXCEPT !.pc = "store top"])
  /\ UNCHANGED <<vfs, fds, size, pids, ret, seen>>

BrkStoreTop(t) ==
  /\ At(t, "store top")
  /\ heap' = [heap EXCEPT !.top = brk[t].new]
  /\ Leave(t, brk[t].new)
  /\ UNCHANGED <<vfs, fds, size, pids, seen>>

sys_brk(t) ==
  \/ \E new \in 0 .. MaxBrk : BrkCall(t, new)
  \/ BrkLoadStart(t) \/ BrkLoadEnd(t) \/ BrkStoreStart(t) \/ BrkStoreEnd(t) \/ BrkStoreTop(t)

-----------------------------------------------------------------------------
(* The rest *)

alloc_pid ==
  /\ pids.next <= MaxPid
  /\ pids' = [pids EXCEPT !.next = @ + 1]
  /\ Returns(pids.next)
  /\ UNCHANGED <<vfs, fds, size, heap, brk, seen>>

sys_fork == alloc_pid
sys_clone == alloc_pid

(* Byte by byte from a counter, modulo its values *)
sys_getrandom(length) ==
  /\ pids' = [pids EXCEPT !.random = (@ + length) % Bytes]
  /\ Returns(length)
  /\ UNCHANGED <<vfs, fds, size, heap, brk, seen>>

sys_mkdir == Quiet(0)
sys_unlink(path) == Quiet(IF RemoveError(path) = "Ok" THEN 0 ELSE -1)
sys_getcwd(length) == Quiet(IF length < 1 THEN -34 ELSE 1)
sys_fcntl(fd, cmd, arg) ==
  Quiet(CASE cmd = 0 -> fd [] cmd = 1 -> 1 [] cmd \in {2, 4} -> arg [] cmd = 3 -> 0 [] OTHER -> -22)
sys_clock_gettime(clock) == Quiet(IF clock \in {0, 1} THEN 0 ELSE -22)
sys_execve == Quiet(-38)

(* No task runs in this model: getpid, gettid and set_tid_address return 0 *)
sys_getpid == Quiet(0)
sys_stat == Quiet(0)
sys_chdir == Quiet(0)
sys_getdents64 == Quiet(0)

(* mmap has one address for all; munmap, mprotect and madvise succeed *)
MAP_FAILED == -1
sys_mmap(length) == Quiet(IF length = 0 THEN MAP_FAILED ELSE 1)
sys_munmap == Quiet(0)

(* These succeed and do nothing: rseq, sigaction, ioctl, poll, pipe2,      *)
(* sched_yield as far as this model goes, wait4, futex, the limits         *)
sys_sigaction == Quiet(0)
sys_ioctl == Quiet(0)
sys_pipe2 == Quiet(0)
sys_wait4 == Quiet(0)

(* What dispatch answers itself: read 0, write the count, close and fstat 0 *)
Dispatch(number, arg1, arg3) ==
  CASE number \in {"SYS_READ", "SYS_CLOSE", "SYS_STAT", "SYS_FSTAT", "SYS_LSTAT", "SYS_WRITEV",
                   "SYS_READV", "SYS_CLOCK_GETTIME", "SYS_GETRANDOM"} -> Quiet(0)
    [] number = "SYS_WRITE" -> Quiet(arg3)
    [] number = "SYS_OPEN" -> sys_open(TRUE, arg3 = 1)
    [] number = "SYS_LSEEK" -> sys_lseek(arg1, 0, arg3)
    [] number = "SYS_FORK" -> sys_fork
    [] number = "SYS_EXECVE" -> sys_execve
    [] number = "UNKNOWN" -> Quiet(-22)

(* The wrappers of libagent: a negative answer, of whatever kind, is       *)
(* NotSupported; there are no system calls for sockets                     *)
FileCall == [open |-> "SYS_OPEN", read |-> "SYS_READ", write |-> "SYS_WRITE", close |-> "SYS_CLOSE"]
SocketCall == [c \in {"socket", "connect", "send", "recv"} |-> "UNKNOWN"]

Wrapper(call, arg1, arg3) ==
  Dispatch(IF call \in DOMAIN FileCall THEN FileCall[call] ELSE SocketCall[call], arg1, arg3)

WrapperResult(answer) == IF answer < 0 THEN "NotSupported" ELSE "Ok"

-----------------------------------------------------------------------------

FileCalls ==
  \/ \E path \in Paths, inode \in Inodes : Mount(path, inode)
  \/ \E inode \in Inodes : SetRoot(inode)
  \/ \E path \in Paths : Unmount(path) \/ sys_unlink(path)

DescriptorCalls ==
  \/ \E call \in {"open", "read", "write", "close", "socket"} : Wrapper(call, 0, 1)
  \/ \E number \in {"SYS_FORK", "SYS_EXECVE"} : Dispatch(number, 0, 0)
  \/ \E fd \in 0 .. MAX_FDS :
       \/ sys_dup(fd) \/ sys_close(fd) \/ sys_fstat(fd)
       \/ sys_read(fd, 1) \/ sys_write(fd, 1)
       \/ sys_writev(fd, <<1, 1>>) \/ sys_readv(fd, <<1>>)
       \/ \E whence \in 0 .. 3, offset \in -1 .. 1 : sys_lseek(fd, offset, whence)
       \/ \E new \in {-1, 0, 1} : sys_dup2(fd, new)
       \/ \E cmd \in 0 .. 5 : sys_fcntl(fd, cmd, 0)
  \/ sys_clone \/ sys_mkdir \/ sys_getpid \/ sys_stat \/ sys_chdir \/ sys_getdents64
  \/ sys_munmap \/ sys_sigaction \/ sys_ioctl \/ sys_pipe2 \/ sys_wait4 \/ sys_mmap(0) \/ sys_mmap(1)
  \/ \E n \in 0 .. 2 : sys_getrandom(n) \/ sys_getcwd(n) \/ sys_clock_gettime(n)

Brk == \E t \in Callers : sys_brk(t)

PosixNext == FileCalls \/ DescriptorCalls \/ Brk

PosixSpec == PosixInit /\ [][PosixNext]_posixvars

-----------------------------------------------------------------------------

PosixTypeOK ==
  /\ vfs \in [root : Inodes \cup {"None"}, mounts : Seq([path : Paths, inode : Inodes])]
  /\ fds \in [Slots -> Entries \cup {Closed}]
  /\ size \in [Slots -> 0 .. MaxSize]
  /\ WrapperResult(ret) \in {"Ok", "NotSupported"}
  /\ pids \in [next : 1 .. MaxPid + 1, random : 0 .. Bytes - 1]

(* Mounts have different paths and shadow the root, unmounting uncovers it *)
(* again, and just the mounts can neither be removed nor mounted over.     *)
(* Their paths are handled alike by all functions on paths: normalize      *)
(* leaves no dots and is done after one application, and a path's parent   *)
(* and file name together have its components.                             *)
NamesAgree ==
  /\ \A i, j \in DOMAIN vfs.mounts : vfs.mounts[i].path = vfs.mounts[j].path => i = j
  /\ \A i \in DOMAIN vfs.mounts :
       LET path == vfs.mounts[i].path
           normal == Normalize(path)
       IN /\ path # Slash => Resolve(path) = vfs.mounts[i].inode
          /\ RemoveError(path) # "Ok"
          /\ vfs.root # "None" => ListDir(Slash)[i] = Last(path)
          /\ Normalize(normal) = normal
          /\ \A k \in DOMAIN normal : normal[k] \notin {".", ".."}
          /\ IsAbsolute(normal) = IsAbsolute(path)
          /\ Parent(path) # NoPath =>
               Components(Join(Parent(path), Filename(path))) = Components(path)
  /\ \A path \in Paths \ (MountPoints \cup {Empty, Slash}) :
       Resolve(path) = Resolve(Slash) /\ RemoveError(path) = "Ok"

(* Once the heap has a range, its top is in it, whatever calls of brk      *)
(* overlap, if no two threads made the first call at once.                 *)
HeapTopInRange ==
  (heap.top # 0 /\ ~seen.raced) => heap.top \in heap.start .. heap.end

(* Why: only the thread that found no heap sets its range, first the start *)
(* and then the end, and nobody else passes the test of the range before.  *)
BrkCalls ==
  {BrkIdle}
  \cup [pc : {"start"}, new : 1 .. MaxBrk, current : 0 .. MaxBrk]
  \cup [pc : {"end", "store start", "store end", "store top"},
        new : 1 .. MaxBrk, current : 0 .. MaxBrk, start : 0 .. MaxBrk]

HeapTypeOK ==
  /\ heap \in [top : 0 .. MaxBrk, start : 0 .. MaxBrk, end : 0 .. MaxBrk + HeapMax]
  /\ brk \in [Callers -> BrkCalls]
  /\ DOMAIN seen = {"opened", "closed", "first", "raced"}
  /\ seen.first \subseteq Callers /\ seen.raced \in BOOLEAN

FoundNoHeap(t) == At(t, "store start") \/ (At(t, "end") /\ brk[t].start = 0)

KnowsHeap(t) ==
  /\ FoundNoHeap(t) => t \in seen.first /\ heap.start = 0
  /\ At(t, "store end") => t \in seen.first /\ heap.start = brk[t].new /\ heap.end = 0
  /\ At(t, "end") /\ brk[t].start # 0 => brk[t].start = heap.start
  /\ At(t, "store top") => heap.start # 0 /\ InRange(brk[t].new, heap.start, heap.end)

RangeSetOnce ==
  /\ \A t, u \in seen.first : t = u
  /\ heap.start = 0 => heap.top = 0 /\ heap.end = 0
  /\ heap.top # 0 => heap.start <= heap.top /\ heap.top <= heap.end
  /\ \A t \in Callers : KnowsHeap(t)

HeapInv == HeapTypeOK /\ (~seen.raced => RangeSetOnce)

(* Only what is closed inside the kernel frees a descriptor: system calls  *)
(* alone use the table up.                                                 *)
DescriptorsAccounted == Cardinality(Open) = seen.opened - seen.closed

=============================================================================

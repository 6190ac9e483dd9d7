------------------------------ MODULE UserFiles ------------------------------
(***************************************************************************)
(* File systems in memory, crates/omniagent-fs/src/lib.rs: a table of      *)
(* inodes with the entries of directories, a table of open files with      *)
(* descriptors that are used again, and AgentFileSystem, which gives each  *)
(* agent a file system of its own beside a shared one.  Operations run to  *)
(* completion behind `&mut self'; each is an operator that maps a file     *)
(* system to the next one and to what the caller is told.                  *)
(*                                                                         *)
(* A path is the sequence of segments its slashes separate, without the    *)
(* leading slashes, which the code trims.  Time stamps are left out, and   *)
(* permissions, which are stored and never looked at.                      *)
(***************************************************************************)
EXTENDS Integers, SequencesExt

CONSTANTS
  Agents,        \* agents that may be given a file system
  Others,        \* file systems that exist from the start
  Paths,         \* the paths that callers name
  LongName,      \* a segment of more than 255 bytes
  FlagSets,      \* the flags that files are opened with
  MaxInodes, MaxFds, MaxSize   \* bounds

Shared == "shared"
Flags == {"READ", "WRITE", "APPEND", "CREATE", "TRUNCATE", "EXCLUSIVE", "DIRECTORY"}

ConstantsOK ==
  /\ FlagSets \subseteq SUBSET Flags
  /\ {MaxInodes, MaxFds, MaxSize} \subseteq Nat
  /\ Shared \notin Agents /\ Agents \cap Others = {}

VARIABLE fs       \* the file system of each owner

vars == <<fs>>

-----------------------------------------------------------------------------
(* VirtualFileSystem                                                       *)

Ok == "Ok"
Root == <<>>          \* "/"
EmptyPath == <<"">>   \* the empty string

INode(file_type, parent) ==
  [file_type |-> file_type, size |-> 0, data |-> <<>>, children |-> <<>>, parent |-> parent]

NoParent == -1

(* new and init_root *)
NewRoot ==
  [inodes |-> [i \in {0} |-> INode("Directory", NoParent)], open_files |-> <<>>,
   next_fd |-> 0, free_fds |-> <<>>, next_inode |-> 1]

Told(v, out) == [fs |-> v, out |-> out]
At(inode, error) == [inode |-> inode, error |-> error]

Readable(flags) == "READ" \in flags
Writable(flags) == flags \cap {"WRITE", "APPEND"} # {}

IsDir(v, id) == v.inodes[id].file_type = "Directory"

(* The place of a name among the entries of a directory, 0 if it has none *)
Place(v, id, name) == SelectInSeq(v.inodes[id].children, LAMBDA entry : entry.name = name)

(* One segment of resolve_path *)
Enter(v, at, part) ==
  CASE at.error # Ok                   -> at
    [] at.error = Ok /\ part = LongName -> At(0, "NameTooLong")
    [] at.error = Ok /\ part # LongName /\ at.inode \notin DOMAIN v.inodes -> At(0, "NotFound")
    [] OTHER ->
         IF ~IsDir(v, at.inode) THEN At(0, "NotADirectory")
         ELSE LET place == Place(v, at.inode, part)
              IN  IF place = 0 THEN At(0, "NotFound")
                  ELSE At(v.inodes[at.inode].children[place].inode, Ok)

ResolvePath(v, path) ==
  IF path = EmptyPath THEN At(0, "InvalidPath")
  ELSE FoldLeft(LAMBDA at, part : Enter(v, at, part), At(0, Ok),
                SelectSeq(path, LAMBDA part : part # ""))

ResolveParent(v, path) ==
  IF path = Root \/ Last(path) \in {"", LongName} THEN At(0, "InvalidPath")
  ELSE ResolvePath(v, Front(path))

-----------------------------------------------------------------------------

(* create_file and create_dir *)
CreateError(v, at, name) ==
  IF at.error # Ok THEN at.error
  ELSE CASE at.inode \notin DOMAIN v.inodes -> "NotFound"
         [] at.inode \in DOMAIN v.inodes /\ ~IsDir(v, at.inode) -> "NotADirectory"
         [] OTHER -> IF Place(v, at.inode, name) # 0 THEN "AlreadyExists" ELSE Ok

Create(v, path, file_type) ==
  LET at == ResolveParent(v, path)
      error == CreateError(v, at, Last(path))
      id == v.next_inode
      entry == [name |-> Last(path), file_type |-> file_type, inode |-> id]
  IN  IF error # Ok THEN Told(v, error)
      ELSE Told([v EXCEPT !.next_inode = @ + 1,
                          !.inodes = (id :> INode(file_type, at.inode))
                                       @@ [@ EXCEPT ![at.inode].children = Append(@, entry)]],
                Ok)

(* open: the descriptor that was closed last is used again *)
OpenAt(v, id, flags) ==
  LET again == v.free_fds # <<>>
      fd == IF again THEN Last(v.free_fds) ELSE v.next_fd
  IN  [v EXCEPT !.open_files = (fd :> [inode_id |-> id, offset |-> 0, flags |-> flags]) @@ @,
                !.free_fds = IF again THEN Front(@) ELSE @,
                !.next_fd = IF again THEN @ ELSE @ + 1]

Truncated(v, id, flags) ==
  IF "TRUNCATE" \in flags /\ Writable(flags)
    THEN [v EXCEPT !.inodes[id].data = <<>>, !.inodes[id].size = 0] ELSE v

(* EXCLUSIVE is named in a comment and never looked at *)
Open(v, path, flags) ==
  LET at == ResolvePath(v, path)
      made == Create(v, path, "Regular")
  IN  CASE at.error = Ok ->
             IF IsDir(v, at.inode) /\ "DIRECTORY" \notin flags THEN Told(v, "IsADirectory")
             ELSE Told(OpenAt(Truncated(v, at.inode, flags), at.inode, flags), Ok)
        [] at.error = "NotFound" ->
             IF "CREATE" \notin flags THEN Told(v, "NotFound")
             ELSE IF made.out # Ok THEN made
             ELSE Told(OpenAt(made.fs, v.next_inode, flags), Ok)
        [] OTHER -> Told(v, at.error)

Close(v, fd) ==
  IF fd \notin DOMAIN v.open_files THEN Told(v, "NotOpen")
  ELSE Told([v EXCEPT !.open_files = [f \in DOMAIN @ \ {fd} |-> @[f]],
                      !.free_fds = Append(@, fd)], Ok)

(* What read, write and seek refuse; a directory that was removed while it *)
(* is open is not found                                                    *)
UseError(v, fd, allowed(_)) ==
  IF fd \notin DOMAIN v.open_files THEN "NotOpen"
  ELSE IF ~allowed(v.open_files[fd].flags) THEN "PermissionDenied"
  ELSE IF v.open_files[fd].inode_id \notin DOMAIN v.inodes THEN "NotFound" ELSE Ok

TransferError(v, fd, allowed(_)) ==
  IF UseError(v, fd, allowed) # Ok THEN UseError(v, fd, allowed)
  ELSE IF IsDir(v, v.open_files[fd].inode_id) THEN "IsADirectory" ELSE Ok

Least(a, b) == IF a < b THEN a ELSE b

Read(v, fd, length) ==
  IF TransferError(v, fd, Readable) # Ok THEN Told(v, TransferError(v, fd, Readable))
  ELSE LET file == v.open_files[fd]
           end == Least(file.offset + length, Len(v.inodes[file.inode_id].data))
       IN  Told([v EXCEPT !.open_files[fd].offset = IF end > @ THEN end ELSE @], Ok)

(* write puts ones behind the offset, and zeros before it where the file   *)
(* was shorter                                                             *)
Write(v, fd, length) ==
  IF TransferError(v, fd, Writable) # Ok THEN Told(v, TransferError(v, fd, Writable))
  ELSE LET file == v.open_files[fd]
           old == v.inodes[file.inode_id].data
           offset == IF "APPEND" \in file.flags THEN Len(old) ELSE file.offset
           end == IF offset + length > Len(old) THEN offset + length ELSE Len(old)
           new == [i \in 1 .. end |-> IF i \in offset + 1 .. offset + length THEN 1
                                      ELSE IF i <= Len(old) THEN old[i] ELSE 0]
       IN  Told([v EXCEPT !.inodes[file.inode_id].data = new,
                          !.inodes[file.inode_id].size = Len(new),
                          !.open_files[fd].offset = offset + length], Ok)

Seek(v, fd, from, delta) ==
  IF UseError(v, fd, LAMBDA f : TRUE) # Ok THEN Told(v, UseError(v, fd, LAMBDA f : TRUE))
  ELSE LET file == v.open_files[fd]
           offset == CASE from = "Start" -> delta
                       [] from = "Current" -> file.offset + delta
                       [] from = "End" -> Len(v.inodes[file.inode_id].data) + delta
       IN  IF offset < 0 THEN Told(v, "InvalidOffset")
           ELSE Told([v EXCEPT !.open_files[fd].offset = offset], Ok)

-----------------------------------------------------------------------------
(* remove_file and remove_dir                                              *)

InUse(v, id) == \E fd \in DOMAIN v.open_files : v.open_files[fd].inode_id = id

RemoveFileError(v, entry) ==
  IF entry.file_type = "Directory" THEN "IsADirectory"
  ELSE IF InUse(v, entry.inode) THEN "IoError" ELSE Ok

RemoveDirError(v, entry) ==
  IF entry.file_type # "Directory" THEN "NotADirectory"
  ELSE IF v.inodes[entry.inode].children # <<>> THEN "DirectoryNotEmpty" ELSE Ok

RemoveEntry(v, path, RemoveError(_, _)) ==
  LET at == ResolveParent(v, path)
      place == Place(v, at.inode, Last(path))
      entry == v.inodes[at.inode].children[place]
  IN  IF at.error # Ok THEN Told(v, at.error)
      ELSE IF place = 0 THEN Told(v, "NotFound")
      ELSE IF RemoveError(v, entry) # Ok THEN Told(v, RemoveError(v, entry))
      ELSE Told([v EXCEPT !.inodes = [i \in DOMAIN @ \ {entry.inode} |->
                                        IF i = at.inode
                                          THEN [@[i] EXCEPT !.children = RemoveAt(@, place)]
                                          ELSE @[i]]], Ok)

RemoveFile(v, path) == RemoveEntry(v, path, RemoveFileError)
RemoveDir(v, path) == RemoveEntry(v, path, RemoveDirError)

(* list_dir and stat *)
ListDir(v, path) ==
  LET at == ResolvePath(v, path)
  IN  Told(v, IF at.error # Ok THEN at.error
              ELSE IF IsDir(v, at.inode) THEN Ok ELSE "NotADirectory")

Stat(v, path) == Told(v, ResolvePath(v, path).error)

UsedSize(v) == FoldSet(LAMBDA i, n : n + Len(v.inodes[i].data), 0, DOMAIN v.inodes)

-----------------------------------------------------------------------------
(* The owners of file systems                                              *)

Init == fs = [o \in Others \cup {Shared} |-> NewRoot]

Bounded(v) ==
  /\ v.next_inode <= MaxInodes /\ v.next_fd <= MaxFds
  /\ \A fd \in DOMAIN v.open_files : v.open_files[fd].offset <= MaxSize
  /\ \A i \in DOMAIN v.inodes : Len(v.inodes[i].data) <= MaxSize

Calls(o, told) ==
  /\ Bounded(told.fs)
  /\ fs' = [fs EXCEPT ![o] = told.fs]

Fds == 0 .. MaxFds

(* What AgentFileSystem passes on to a file system *)
SharedCall(o) ==
  \/ \E path \in Paths, flags \in FlagSets : Calls(o, Open(fs[o], path, flags))
  \/ \E fd \in Fds : Calls(o, Close(fs[o], fd))
  \/ \E fd \in Fds : Calls(o, Read(fs[o], fd, 1))
  \/ \E fd \in Fds : Calls(o, Write(fs[o], fd, 1))
  \/ \E path \in Paths : Calls(o, Create(fs[o], path, "Regular"))
  \/ \E path \in Paths : Calls(o, ListDir(fs[o], path))

AgentCall(o) ==
  \/ SharedCall(o)
  \/ \E path \in Paths : Calls(o, Create(fs[o], path, "Directory"))

(* What only the owner of a VirtualFileSystem may call *)
OwnerCall(o) ==
  \/ \E fd \in Fds, from \in {"Start", "Current", "End"}, delta \in -1 .. 1 :
       (from = "Start" => delta >= 0) /\ Calls(o, Seek(fs[o], fd, from, delta))
  \/ \E path \in Paths : Calls(o, RemoveFile(fs[o], path))
  \/ \E path \in Paths : Calls(o, RemoveDir(fs[o], path))
  \/ \E path \in Paths : Calls(o, Stat(fs[o], path))

(* A second one is refused, and so is any call for an agent without one *)
CreateAgentFs(a) == a \notin DOMAIN fs /\ fs' = (a :> NewRoot) @@ fs
RemoveAgentFs(a) == a \in DOMAIN fs /\ fs' = [o \in DOMAIN fs \ {a} |-> fs[o]]

VfsNext == \E o \in Others : AgentCall(o) \/ OwnerCall(o)

AgentNext ==
  \/ SharedCall(Shared)
  \/ \E a \in Agents : CreateAgentFs(a) \/ RemoveAgentFs(a)
  \/ \E a \in Agents \cap DOMAIN fs : AgentCall(a)

-----------------------------------------------------------------------------

(* The types of the variables. *)
TypeOK ==
  /\ Others \cup {Shared} \subseteq DOMAIN fs
  /\ DOMAIN fs \subseteq Others \cup {Shared} \cup Agents
  /\ \A o \in DOMAIN fs : fs[o].next_inode \in 1 .. MaxInodes /\ fs[o].next_fd \in 0 .. MaxFds

(* The entries of directories and the inodes agree: each inode but the     *)
(* root has one entry, in the directory it calls its parent and under a    *)
(* name no other entry there has, of its own type; and it was made after   *)
(* that directory, so that there are no cycles.                            *)
Tree(v) ==
  /\ 0 \in DOMAIN v.inodes /\ v.inodes[0].parent = NoParent
  /\ \A i \in DOMAIN v.inodes :
       LET children == v.inodes[i].children
       IN  /\ children # <<>> => IsDir(v, i)
           /\ \A p, q \in DOMAIN children :
                p # q => children[p].name # children[q].name /\ children[p].inode # children[q].inode
           /\ \A p \in DOMAIN children :
                /\ children[p].inode \in DOMAIN v.inodes
                /\ v.inodes[children[p].inode].parent = i
                /\ v.inodes[children[p].inode].file_type = children[p].file_type
  /\ \A i \in DOMAIN v.inodes \ {0} :
       LET parent == v.inodes[i].parent
       IN  /\ parent \in 0 .. i - 1 /\ parent \in DOMAIN v.inodes
           /\ \E p \in DOMAIN v.inodes[parent].children : v.inodes[parent].children[p].inode = i

(* An open file keeps its inode - only a directory may go under an open    *)
(* descriptor -, a descriptor is open or free and not both, and the sizes  *)
(* that stat and stats report are those of the contents.                   *)
FilesIntact ==
  \A o \in DOMAIN fs :
    LET v == fs[o]
        free == ToSet(v.free_fds)
    IN  /\ Tree(v)
        /\ \A fd \in DOMAIN v.open_files :
             \/ v.open_files[fd].inode_id \in DOMAIN v.inodes
             \/ "DIRECTORY" \in v.open_files[fd].flags
        /\ IsInjective(v.free_fds) /\ free \cap DOMAIN v.open_files = {}
        /\ free \cup DOMAIN v.open_files = 0 .. v.next_fd - 1
        /\ \A i \in DOMAIN v.inodes : v.inodes[i].size = Len(v.inodes[i].data)

=============================================================================

------------------------------ MODULE MCManagers -----------------------------
(***************************************************************************)
(* The managers of services, rights and files on small instances: the      *)
(* registry, the manager and the health monitor of services, each behind   *)
(* its global lock, the capability tokens, the audit log, the file         *)
(* descriptors, the POSIX system calls, the file systems of agents, the    *)
(* configuration, the logs and the kernel's shell.                         *)
(* They share no state, so that in a behaviour only one of them moves:     *)
(* `part', chosen at the start, says which; in the part "manager again"    *)
(* the callers register services a second time.                            *)
(***************************************************************************)
EXTENDS CapabilityToken, ServiceManager, AuditChain, PosixSyscall, FdTable, Stores

VARIABLES
  part,
  fs,
  history, aliases, env, entered

shellvars == <<history, aliases, env, entered>>
storevars == <<configvars, logvars, eventvars, shellvars>>
servicevars == <<registryvars, managervars, monitorvars>>
guardvars == <<tokenvars, auditvars>>
filevars == <<fdvars, posixvars, fs>>
mcvars == <<part, servicevars, guardvars, filevars, storevars>>

NameType == [n1 |-> "Driver", n2 |-> "Ai"]

(* Services that start early or late, alone or after others, by themselves *)
(* or by hand                                                              *)
Config(auto, max, order, deps) ==
  [auto_start |-> auto, max_restart_count |-> max, start_order |-> order,
   dependencies |-> deps]

ServiceConfigs ==
  {Config(TRUE, 1, 1, {}), Config(TRUE, 2, 2, {1}),
   Config(FALSE, 1, 0, {2}), Config(TRUE, 1, 3, {1, 2})}

ManagerAgain == INSTANCE ServiceManager WITH
  Reregister <- TRUE, Configs <- {c \in Configs : c.max_restart_count = 1}

(* Descriptors for reading and writing, and for appending *)
Modes(read, write, append) == [read |-> read, write |-> write, append |-> append]

FdFlags == {Modes(TRUE, TRUE, FALSE), Modes(FALSE, TRUE, TRUE)}

(* All paths of up to two parts from "", ".." and "a", and longer ones *)
ShortPaths ==
  UNION {[1 .. n -> {"", "..", "a"}] : n \in 1 .. 2}
    \cup {<<"", "..", "a">>, <<"", "a", "..">>, <<"a", "..", "a">>, <<"..", "a", "">>,
          <<"", "", "a">>, <<"", "a", "a">>, <<"a", "", "">>, <<"", "..", "..">>,
          <<"", ".">>, <<".", "a">>, <<"", "a", ".", "a">>, <<"", "a", "a", "a">>}

(* A file system of its owner; and those of agents beside the shared one *)
Files == INSTANCE UserFiles WITH
  Agents <- {}, Others <- {"vfs"},
  Paths <- {<<>>, <<"">>, <<"d">>, <<"d", "", "f">>, <<"d", "">>, <<"f">>, <<"long", "f">>},
  LongName <- "long",
  FlagSets <- {{"READ"}, {"WRITE", "CREATE", "TRUNCATE"}, {"READ", "APPEND", "DIRECTORY"}},
  MaxInodes <- 3, MaxFds <- 2, MaxSize <- 1

AgentFiles == INSTANCE UserFiles WITH
  Agents <- {"a"}, Others <- {}, Paths <- {<<"d">>, <<"d", "f">>, <<"f">>}, LongName <- "long",
  FlagSets <- {{"READ", "WRITE", "CREATE"}}, MaxInodes <- 3, MaxFds <- 1, MaxSize <- 1

(* A key and one below it; sinks and modules of their own *)
KeysUsed == {<<"tcp">>, <<"tcp", "max_connections">>}
PatternsUsed == {<<"tcp">>, <<"*">>}

(* Lines with quotes, bars and operators, of aliases that name commands,   *)
(* each other or nothing                                                   *)
Lines(S, n) == UNION {[1 .. m -> S] : m \in 0 .. n}

Shell == INSTANCE KernelShell WITH
  Inputs <- {<<>>, <<" ", "ls">>, <<"cat", " ">>, <<"a", " ", "'">>, <<"a">>, <<"b", "|", "a">>,
             <<"echo", " ", "x", "|", "a">>},
  AliasNames <- {<<"a">>, <<"b">>}, AliasValues <- {<<>>, <<"b">>, <<"cat", " ", "f">>},
  EnvKeys <- {"PATH"}, EnvValues <- {"v"}, MAX_HISTORY_SIZE <- 2, MaxEntered <- 3,
  Texts <- Lines({"x", " ", "'", "\"", "|"}, 3),
  Words <- Lines({"x", " ", "'", ">"}, 2) \ {<<>>}

ASSUME
  /\ Files!ConstantsOK /\ AgentFiles!ConstantsOK
  /\ Shell!ConstantsOK

ServiceParts == {"registry", "manager", "manager again", "monitor"}
PosixParts == {"paths", "descriptors", "brk"}
UserParts == {"user files", "agent files"}
StoreParts == {"configuration", "log", "events"}
ShellParts == {"shell", "lines"} \* nothing moves in "lines"

MCInit ==
  /\ part \in ServiceParts \cup {"tokens", "audit", "files"} \cup PosixParts
             \cup UserParts \cup StoreParts \cup ShellParts
  /\ RegistryInit
  /\ ServicesInit
  /\ MonitorInit
  /\ TokensInit
  /\ AuditInit
  /\ FdInit
  /\ PosixInit
  /\ IF part = "user files" THEN Files!Init ELSE AgentFiles!Init
  /\ Init
  /\ Shell!Init

(* Bounds: one service is registered twice; the second file stays empty and *)
(* is not opened for appending; one namespace has a watcher                 *)
ServiceNext ==
  \/ /\ part = "registry" /\ RegistryNext
     /\ UNCHANGED <<managervars, monitorvars>>
  \/ /\ part = "manager" /\ ServicesNext
     /\ UNCHANGED <<registryvars, monitorvars>>
  \/ /\ part = "manager again" /\ ManagerAgain!ServicesNext
     /\ Len(start_order') <= Cardinality(DOMAIN configs') + 1
     /\ UNCHANGED <<registryvars, monitorvars>>
  \/ /\ part = "monitor" /\ MonitorNext
     /\ UNCHANGED <<registryvars, managervars>>

StoreNext ==
  \/ /\ part = "configuration" /\ ConfigNext
     /\ Cardinality({ns \in DOMAIN stores' : stores'[ns].callbacks # {}}) <= 1
     /\ UNCHANGED <<logvars, eventvars, shellvars>>
  \/ part = "log" /\ LogNext /\ UNCHANGED <<configvars, eventvars, shellvars>>
  \/ part = "events" /\ EventNext /\ UNCHANGED <<configvars, logvars, shellvars>>
  \/ part = "shell" /\ Shell!Next /\ UNCHANGED <<configvars, logvars, eventvars>>

MCNext ==
  /\ UNCHANGED part
  /\ \/ ServiceNext /\ UNCHANGED <<guardvars, filevars, storevars>>
     \/ /\ part = "tokens" /\ TokensNext
        /\ UNCHANGED <<servicevars, auditvars, filevars, storevars>>
     \/ /\ part = "audit" /\ AuditNext
        /\ UNCHANGED <<servicevars, tokenvars, filevars, storevars>>
     \/ /\ part = "files" /\ FdNext
        /\ file_size'["f2"] = 0
        /\ \A i \in OpenFds' :
             descriptors'[i].inode = "f2" => ~descriptors'[i].flags.append
        /\ UNCHANGED <<servicevars, guardvars, posixvars, fs, storevars>>
     \/ /\ \/ part = "paths" /\ FileCalls
           \/ part = "descriptors" /\ DescriptorCalls
           \/ part = "brk" /\ Brk
        /\ UNCHANGED <<servicevars, guardvars, fdvars, fs, storevars>>
     \/ /\ \/ part = "user files" /\ Files!VfsNext
           \/ part = "agent files" /\ AgentFiles!AgentNext
        /\ UNCHANGED <<servicevars, guardvars, fdvars, posixvars, storevars>>
     \/ StoreNext /\ UNCHANGED <<servicevars, guardvars, filevars>>

MCSpec == MCInit /\ [][MCNext]_mcvars

-----------------------------------------------------------------------------

(* The types of the parts' variables; restarts are bounded, also those     *)
(* that fail.                                                              *)
TypesOK ==
  CASE part = "registry"                    -> RegistryInv
    [] part \in {"manager", "manager again"} -> ServicesInv
    [] part = "monitor"                     -> MonitorTypeOK
    [] part = "tokens"                      -> TokensInv
    [] part = "audit"                       -> AuditInv
    [] part = "files"                       -> FdInv
    [] part \in PosixParts                   -> PosixTypeOK /\ HeapInv
    [] part = "user files"                   -> Files!TypeOK
    [] part = "agent files"                  -> AgentFiles!TypeOK
    [] part \in StoreParts                   -> TypeOK
    [] part \in ShellParts                   -> Shell!TypeOK

(* Tables kept in step by hand: a name is in the registry's index exactly  *)
(* when a service of that name is in its table, under that service's id;   *)
(* the start order has every service once, by the start_order of its       *)
(* configuration, if none was registered again; between calls the health   *)
(* of a service tells whether its failures have reached the limit; mounts  *)
(* shadow the root, cannot be removed nor mounted over, and the functions  *)
(* on paths agree about them; get_nested finds exactly what is stored      *)
(* under the whole path or what a chain of objects leads to; quotes in the *)
(* shell's lines hide what they should hide, and bars split lines.         *)
(* Through system calls alone no descriptor is given back; in the file     *)
(* systems of agents entries and inodes agree, and an open file has its    *)
(* inode.  The log's buffer, its sinks and statistics and the life cycle   *)
(* log agree on what was recorded, and the shell's history has the latest  *)
(* lines that could be parsed.                                             *)
TablesInStep ==
  CASE part = "registry"      -> IndexInverse
    [] part = "manager"       -> OrderSorted
    [] part = "monitor"       -> StatusMatchesCount
    [] part = "paths"         -> NamesAgree
    [] part = "descriptors"   -> DescriptorsAccounted
    [] part \in UserParts     -> Files!FilesIntact
    [] part = "configuration" -> NestedExact
    [] part \in {"log", "events"} -> LogsExact
    [] part = "shell"         -> Shell!HistoryExact
    [] part = "lines"         -> Shell!LinesExact
    [] OTHER                  -> TRUE

=============================================================================

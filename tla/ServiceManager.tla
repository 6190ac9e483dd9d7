--------------------------- MODULE ServiceManager ----------------------------
(***************************************************************************)
(* Starting, stopping and restarting services, kernel/src/svc_manager/     *)
(* manager.rs.  The manager is reached through the lock of SVC_MANAGER, so *)
(* that each operation is one step; it is made of many small sections, and *)
(* one that fails half-way keeps what it has done.                         *)
(*                                                                         *)
(* Behind it, the health monitor, svc_manager/monitor.rs, which counts the *)
(* failures of services in three tables with a lock each; a call locks     *)
(* them one after the other.  The global HEALTH_MONITOR puts one more lock *)
(* around it: MonitorLock says whether the callers use it.  One service is *)
(* modelled: services share nothing else.                                  *)
(*                                                                         *)
(* Beside them, the registry, kernel/src/service/registry.rs: a table of   *)
(* services and an index of their names, with a lock each.  register and   *)
(* unregister lock them one after the other, and find_by_name lets go of   *)
(* the index before it looks in the table.  The global SERVICE_REGISTRY    *)
(* puts one more lock around both: RegistryLock says whether callers use   *)
(* it.  What is stored of a service beside its name, type, state and       *)
(* restarts is returned as it was.  None of the three calls another.       *)
(***************************************************************************)
EXTENDS Integers, SequencesExt

CONSTANTS
  Services,
  Configs,      \* the configurations callers register
  Reregister,   \* callers register a service again
  Threads,      \* callers of the monitor and of the registry
  Limits,       \* values of max_failures
  MonitorLock,
  MaxCount,     \* bound: failures counted
  Names,
  TypeOf,       \* the type of the service that registers under a name
  States,       \* states that are set
  RegistryLock,
  MaxIds,       \* bound: ids ever taken
  MaxRestarts   \* bound: restarts of one service that the registry counts

ASSUME ServicesAssumption ==
  /\ Reregister \in BOOLEAN
  /\ \A c \in Configs : /\ c.auto_start \in BOOLEAN
                        /\ c.max_restart_count \in Nat
                        /\ c.start_order \in Nat
                        /\ c.dependencies \subseteq Services
  /\ Limits \subseteq Nat \ {0}
  /\ MonitorLock \in BOOLEAN
  /\ MaxCount \in Nat

ServiceStateEnum ==
  {"Registered", "Initializing", "Running", "Stopping", "Stopped", "Failed"}

ASSUME RegistryAssumption ==
  /\ States \subseteq ServiceStateEnum /\ DOMAIN TypeOf = Names
  /\ RegistryLock \in BOOLEAN /\ MaxIds \in Nat /\ MaxRestarts \in Nat

VARIABLES
  configs,      \* service -> configuration, of the registered services
  snapshots,    \* service -> its state and restart count
  start_order,  \* the registered services in the order to start them
  health_status,  \* "Unknown" also when the table has no entry
  failure_count,  \* 0 also when the table has no entry
  max_failures,   \* DefaultLimit when the table has no entry
  monitor_call,   \* the locals of each thread's call, Idle between calls
  reported,       \* history: health_status was last set by report_health
  services,       \* the registry's table: id -> ServiceInfo
  name_index,     \* name -> id
  registry_id,    \* next_id
  registry_call   \* the locals of each thread's call, Idle between calls

managervars == <<configs, snapshots, start_order>>
monitorvars == <<health_status, failure_count, max_failures, monitor_call, reported>>
registryvars == <<services, name_index, registry_id, registry_call>>

Idle == [op |-> "idle"]

Registered == DOMAIN configs

ServicesInit ==
  /\ configs = <<>>
  /\ snapshots = <<>>
  /\ start_order = <<>>

With(f, s, v) == [x \in DOMAIN f \cup {s} |-> IF x = s THEN v ELSE f[x]]

(* Mutated form of InsertPosition: services are appended. *)
InsertPositionLast(cs, s) == Len(start_order) + 1

(* Before the first service that does not start earlier *)
InsertPosition(cs, s) ==
  LET later == {i \in DOMAIN start_order :
                  cs[start_order[i]].start_order >= cs[s].start_order}
  IN IF later = {} THEN Len(start_order) + 1
     ELSE CHOOSE i \in later : \A j \in later : i <= j

RegisterConfig(s, config) ==
  /\ s \in Registered => Reregister
  /\ configs' = With(configs, s, config)
  /\ snapshots' = With(snapshots, s, [state |-> "Stopped", restart_count |-> 0])
  /\ start_order' = InsertAt(start_order, InsertPosition(configs', s), s)

Running(snaps, s) == s \in DOMAIN snaps /\ snaps[s].state = "Running"

(* Mutated form of CanStart: the dependencies need only be registered. *)
CanStartRegistered(snaps, s) ==
  /\ s \in Registered
  /\ ~Running(snaps, s)
  /\ configs[s].dependencies \subseteq Registered

(* ServiceNotFound, AlreadyRunning and DependencyUnmet otherwise *)
CanStart(snaps, s) ==
  /\ s \in Registered
  /\ ~Running(snaps, s)
  /\ \A d \in configs[s].dependencies : Running(snaps, d)

Started(snaps, s) == [snaps EXCEPT ![s].state = "Running"]

Stopped(snaps, s) == [snaps EXCEPT ![s].state = "Stopped"]

StartService(s) ==
  /\ CanStart(snapshots, s)
  /\ snapshots' = Started(snapshots, s)
  /\ UNCHANGED <<configs, start_order>>

StopService(s) ==
  /\ s \in Registered
  /\ snapshots' = Stopped(snapshots, s)
  /\ UNCHANGED <<configs, start_order>>

(* Mutated form of MayRestart: one restart too many. *)
MayRestartLate(s) ==
  s \in Registered /\ snapshots[s].restart_count <= configs[s].max_restart_count

(* Otherwise ServiceNotFound or StartFailed, and nothing changes *)
MayRestart(s) ==
  s \in Registered /\ snapshots[s].restart_count < configs[s].max_restart_count

(* The restart is counted and the service stopped even when it cannot be   *)
(* started again.                                                          *)
RestartService(s) ==
  /\ MayRestart(s)
  /\ LET stopped == [Stopped(snapshots, s) EXCEPT ![s].restart_count = @ + 1]
     IN snapshots' = IF CanStart(stopped, s) THEN Started(stopped, s) ELSE stopped
  /\ UNCHANGED <<configs, start_order>>

(* The auto-start services before position i *)
AutoBefore(i) ==
  {start_order[j] : j \in {k \in 1 .. i - 1 : configs[start_order[k]].auto_start}}

StartedThese(S) ==
  [s \in Registered |-> IF s \in S THEN [snapshots[s] EXCEPT !.state = "Running"]
                       ELSE snapshots[s]]

(* start_all stops where a service to be started, after those before it,   *)
(* cannot                                                                  *)
StopsAt(i) ==
  i \in DOMAIN start_order =>
    /\ configs[start_order[i]].auto_start
    /\ ~CanStart(StartedThese(AutoBefore(i)), start_order[i])

(* The auto-start services in start order, until one of them fails *)
StartAll ==
  \E n \in 1 .. Len(start_order) + 1 :
    /\ StopsAt(n) /\ \A i \in 1 .. n - 1 : ~StopsAt(i)
    /\ snapshots' = StartedThese(AutoBefore(n))
    /\ UNCHANGED <<configs, start_order>>

StopAll ==
  /\ snapshots' = [s \in Registered |->
                     IF s \in Range(start_order)
                     THEN [snapshots[s] EXCEPT !.state = "Stopped"] ELSE snapshots[s]]
  /\ UNCHANGED <<configs, start_order>>

ServicesNext ==
  \/ \E s \in Services, config \in Configs : RegisterConfig(s, config)
  \/ \E s \in Services : StartService(s)
  \/ \E s \in Services : StopService(s)
  \/ \E s \in Services : RestartService(s)
  \/ StartAll
  \/ StopAll

ServicesSpec == ServicesInit /\ [][ServicesNext]_managervars

-----------------------------------------------------------------------------
(* The health monitor *)

DefaultLimit == 3
Statuses == {"Healthy", "Degraded", "Unhealthy", "Unknown"}

Calls ==
  {Idle}
  \cup [op : {"reset_count", "set_limit"}, limit : Limits]
  \cup [op : {"count"}, limit : Limits \cup {DefaultLimit}]
  \cup [op : {"mark_unhealthy"}]
  \cup [op : {"mark_healthy"}]

MonitorInit ==
  /\ health_status = "Unknown"
  /\ failure_count = 0
  /\ max_failures = DefaultLimit
  /\ monitor_call = [t \in Threads |-> Idle]
  /\ reported = FALSE

SetCall(t, c) == monitor_call' = [monitor_call EXCEPT ![t] = c]

Begin(t) ==
  /\ monitor_call[t] = Idle
  /\ MonitorLock => \A u \in Threads : monitor_call[u] = Idle

SetStatus(status, byReport) == health_status' = status /\ reported' = byReport

Register(t, limit) ==
  /\ Begin(t)
  /\ SetStatus("Unknown", FALSE)
  /\ SetCall(t, [op |-> "reset_count", limit |-> limit])
  /\ UNCHANGED <<failure_count, max_failures>>

RegisterResets(t) ==
  /\ monitor_call[t].op = "reset_count"
  /\ failure_count' = 0
  /\ SetCall(t, [op |-> "set_limit", limit |-> monitor_call[t].limit])
  /\ UNCHANGED <<health_status, max_failures, reported>>

RegisterLimits(t) ==
  /\ monitor_call[t].op = "set_limit"
  /\ max_failures' = monitor_call[t].limit
  /\ SetCall(t, Idle)
  /\ UNCHANGED <<health_status, failure_count, reported>>

ReportHealth(t, status) ==
  /\ Begin(t)
  /\ SetStatus(status, TRUE)
  /\ UNCHANGED <<failure_count, max_failures, monitor_call>>

FailureLoadsLimit(t) ==
  /\ Begin(t)
  /\ SetCall(t, [op |-> "count", limit |-> max_failures])
  /\ UNCHANGED <<health_status, failure_count, max_failures, reported>>

FailureCounts(t) ==
  /\ monitor_call[t].op = "count"
  /\ failure_count < MaxCount
  /\ failure_count' = failure_count + 1
  /\ SetCall(t, IF failure_count' >= monitor_call[t].limit THEN [op |-> "mark_unhealthy"]
                ELSE Idle)
  /\ UNCHANGED <<health_status, max_failures, reported>>

FailureMarks(t) ==
  /\ monitor_call[t].op = "mark_unhealthy"
  /\ SetStatus("Unhealthy", FALSE)
  /\ SetCall(t, Idle)
  /\ UNCHANGED <<failure_count, max_failures>>

SuccessResets(t) ==
  /\ Begin(t)
  /\ failure_count' = 0
  /\ SetCall(t, [op |-> "mark_healthy"])
  /\ UNCHANGED <<health_status, max_failures, reported>>

SuccessMarks(t) ==
  /\ monitor_call[t].op = "mark_healthy"
  /\ SetStatus("Healthy", FALSE)
  /\ SetCall(t, Idle)
  /\ UNCHANGED <<failure_count, max_failures>>

MonitorNext ==
  \/ \E t \in Threads, limit \in Limits : Register(t, limit)
  \/ \E t \in Threads : RegisterResets(t)
  \/ \E t \in Threads : RegisterLimits(t)
  \/ \E t \in Threads, status \in Statuses : ReportHealth(t, status)
  \/ \E t \in Threads : FailureLoadsLimit(t)
  \/ \E t \in Threads : FailureCounts(t)
  \/ \E t \in Threads : FailureMarks(t)
  \/ \E t \in Threads : SuccessResets(t)
  \/ \E t \in Threads : SuccessMarks(t)

-----------------------------------------------------------------------------
(* The registry *)

ServiceIds == 1 .. MaxIds
RegistryCalls ==
  {Idle} \cup [op : {"check", "insert", "index", "get"}, id : ServiceIds, name : Names]
         \cup [op : {"unindex"}, name : Names]

RegistryInit ==
  /\ services = <<>>
  /\ name_index = <<>>
  /\ registry_id = 1
  /\ registry_call = [t \in Threads |-> Idle]

ServiceInfo(name) ==
  [name |-> name, service_type |-> TypeOf[name], state |-> "Registered", restart_count |-> 0]

Without(f, x) == Restrict(f, DOMAIN f \ {x})

RegistryBegin(t) ==
  /\ registry_call[t] = Idle
  /\ RegistryLock => \A u \in Threads : registry_call[u] = Idle

SetRegistryCall(t, c) == registry_call' = [registry_call EXCEPT ![t] = c]

RegisterTakesId(t, name) ==
  /\ RegistryBegin(t)
  /\ registry_id <= MaxIds
  /\ registry_id' = registry_id + 1
  /\ SetRegistryCall(t, [op |-> "check", id |-> registry_id, name |-> name])
  /\ UNCHANGED <<services, name_index>>

(* ServiceAlreadyExists when the name is in the index; the id is spent *)
RegisterChecks(t) ==
  /\ registry_call[t].op = "check"
  /\ SetRegistryCall(t, IF registry_call[t].name \in DOMAIN name_index THEN Idle
                ELSE [registry_call[t] EXCEPT !.op = "insert"])
  /\ UNCHANGED <<services, name_index, registry_id>>

RegisterInserts(t) ==
  /\ registry_call[t].op = "insert"
  /\ services' = With(services, registry_call[t].id, ServiceInfo(registry_call[t].name))
  /\ SetRegistryCall(t, [registry_call[t] EXCEPT !.op = "index"])
  /\ UNCHANGED <<name_index, registry_id>>

RegisterIndexes(t) ==
  /\ registry_call[t].op = "index"
  /\ name_index' = With(name_index, registry_call[t].name, registry_call[t].id)
  /\ SetRegistryCall(t, Idle)
  /\ UNCHANGED <<services, registry_id>>

UnregisterRemoves(t, id) ==
  /\ RegistryBegin(t)
  /\ id \in DOMAIN services
  /\ services' = Without(services, id)
  /\ SetRegistryCall(t, [op |-> "unindex", name |-> services[id].name])
  /\ UNCHANGED <<name_index, registry_id>>

UnregisterUnindexes(t) ==
  /\ registry_call[t].op = "unindex"
  /\ name_index' = Without(name_index, registry_call[t].name)
  /\ SetRegistryCall(t, Idle)
  /\ UNCHANGED <<services, registry_id>>

FindLooksUp(t, name) ==
  /\ RegistryBegin(t)
  /\ name \in DOMAIN name_index
  /\ SetRegistryCall(t, [op |-> "get", id |-> name_index[name], name |-> name])
  /\ UNCHANGED <<services, name_index, registry_id>>

FindGets(t) ==
  /\ registry_call[t].op = "get"
  /\ SetRegistryCall(t, Idle)
  /\ UNCHANGED <<services, name_index, registry_id>>

(* Any state may follow any other *)
UpdateState(t, id, state) ==
  /\ RegistryBegin(t)
  /\ id \in DOMAIN services
  /\ services' = [services EXCEPT ![id].state = state]
  /\ UNCHANGED <<name_index, registry_id, registry_call>>

(* max_restart is not looked at *)
IncrementRestart(t, id) ==
  /\ RegistryBegin(t)
  /\ id \in DOMAIN services
  /\ services[id].restart_count < MaxRestarts
  /\ services' = [services EXCEPT ![id].restart_count = @ + 1]
  /\ UNCHANGED <<name_index, registry_id, registry_call>>

FindByType(type) == {id \in DOMAIN services : services[id].service_type = type}
RunningCount == Cardinality({id \in DOMAIN services : services[id].state = "Running"})
TotalCount == Cardinality(DOMAIN services)

RegistryNext ==
  \/ \E t \in Threads, name \in Names : RegisterTakesId(t, name)
  \/ \E t \in Threads : RegisterChecks(t)
  \/ \E t \in Threads : RegisterInserts(t)
  \/ \E t \in Threads : RegisterIndexes(t)
  \/ \E t \in Threads, id \in ServiceIds : UnregisterRemoves(t, id)
  \/ \E t \in Threads : UnregisterUnindexes(t)
  \/ \E t \in Threads, name \in Names : FindLooksUp(t, name)
  \/ \E t \in Threads : FindGets(t)
  \/ \E t \in Threads, id \in ServiceIds, state \in States : UpdateState(t, id, state)
  \/ \E t \in Threads, id \in ServiceIds : IncrementRestart(t, id)

RegistrySpec == RegistryInit /\ [][RegistryNext]_registryvars

-----------------------------------------------------------------------------

ServicesTypeOK ==
  /\ Registered \subseteq Services
  /\ \A s \in Registered : configs[s] \in Configs
  /\ DOMAIN snapshots = Registered
  /\ \A s \in Registered :
       snapshots[s] \in [state : {"Stopped", "Running"}, restart_count : Nat]
  /\ start_order \in Seq(Registered)

(* start_order has every registered service once, ordered by the           *)
(* start_order of its configuration.                                       *)
OrderSorted ==
  /\ Range(start_order) = Registered
  /\ \A i, j \in DOMAIN start_order :
       i < j => /\ start_order[i] # start_order[j]
                /\ configs[start_order[i]].start_order <= configs[start_order[j]].start_order

(* No service is restarted more often than its configuration allows, also  *)
(* when restarts fail half-way.                                            *)
RestartsBounded ==
  \A s \in Registered : snapshots[s].restart_count <= configs[s].max_restart_count

(* A service comes up only when all its dependencies are up, one by one or *)
(* all together in start_all.                                              *)
StartedAfterDependencies ==
  [][\A s \in Registered : Running(snapshots', s) /\ ~Running(snapshots, s) =>
       \A d \in configs[s].dependencies : Running(snapshots', d)]_managervars

ServicesInv == ServicesTypeOK /\ RestartsBounded

MonitorTypeOK ==
  /\ health_status \in Statuses
  /\ failure_count \in 0 .. MaxCount
  /\ max_failures \in Limits \cup {DefaultLimit}
  /\ monitor_call \in [Threads -> Calls]
  /\ reported \in BOOLEAN

AtRest == \A t \in Threads : monitor_call[t] = Idle

(* Between calls, unless it was set by report_health, the status tells     *)
(* whether the failures have reached the limit: Unhealthy exactly then.    *)
StatusMatchesCount ==
  AtRest /\ ~reported => (health_status = "Unhealthy" <=> failure_count >= max_failures)

RegistryTypeOK ==
  /\ DOMAIN services \subseteq 1 .. registry_id - 1
  /\ \A id \in DOMAIN services :
       /\ services[id] \in [name : Names, service_type : Range(TypeOf),
                            state : ServiceStateEnum, restart_count : 0 .. MaxRestarts]
       /\ services[id].service_type = TypeOf[services[id].name]
  /\ DOMAIN name_index \subseteq Names
  /\ \A name \in DOMAIN name_index : name_index[name] \in 1 .. registry_id - 1
  /\ registry_id \in 1 .. MaxIds + 1
  /\ registry_call \in [Threads -> RegistryCalls]
  /\ \A t \in Threads :
       registry_call[t].op \in {"check", "insert", "index"} => registry_call[t].id < registry_id

RegistryAtRest == \A t \in Threads : registry_call[t] = Idle

(* Between calls table and index are inverse to each other: every service  *)
(* is found by its name, and nothing else is.  So there is at most one     *)
(* service of a name, of each type as many as there are names of it in the *)
(* index, and a lookup by name finds the service under the id it has read. *)
IndexInverse ==
  /\ RegistryAtRest =>
       /\ \A id \in DOMAIN services :
            /\ services[id].name \in DOMAIN name_index
            /\ name_index[services[id].name] = id
       /\ \A name \in DOMAIN name_index : name_index[name] \in DOMAIN services
       /\ RunningCount <= TotalCount /\ TotalCount = Cardinality(DOMAIN name_index)
       /\ \A type \in Range(TypeOf) :
            Cardinality(FindByType(type))
              = Cardinality({n \in DOMAIN name_index : TypeOf[n] = type})
  /\ \A t \in Threads : registry_call[t].op = "get" =>
       /\ registry_call[t].id \in DOMAIN services
       /\ services[registry_call[t].id].name = registry_call[t].name

(* Why: only the call under way knows of a service not yet in the index,   *)
(* or of a name in it whose service is gone.                               *)
Indexing(id) ==
  \E t \in Threads : registry_call[t].op = "index" /\ registry_call[t].id = id

Unindexing(name) ==
  \E t \in Threads : registry_call[t].op = "unindex" /\ registry_call[t].name = name

CallAgrees(c) ==
  /\ c.op \in {"check", "insert"} => c.id \notin DOMAIN services
  /\ c.op \in {"insert", "index"} => c.name \notin DOMAIN name_index
  /\ c.op \in {"index", "get"} => c.id \in DOMAIN services /\ services[c.id].name = c.name
  /\ c.op = "unindex" => \A id \in DOMAIN services : services[id].name # c.name

IndexLags ==
  /\ \A t, u \in Threads : registry_call[t] # Idle /\ registry_call[u] # Idle => t = u
  /\ \A id \in DOMAIN services :
       Indexing(id) \/ ( /\ services[id].name \in DOMAIN name_index
                        /\ name_index[services[id].name] = id )
  /\ \A name \in DOMAIN name_index :
       Unindexing(name) \/ ( /\ name_index[name] \in DOMAIN services
                            /\ services[name_index[name]].name = name )
  /\ \A t \in Threads : CallAgrees(registry_call[t])

RegistryInv == RegistryTypeOK /\ (RegistryLock => IndexLags)

=============================================================================

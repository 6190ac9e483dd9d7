-------------------------------- MODULE Stores --------------------------------
(***************************************************************************)
(* What the kernel keeps for everybody: the configuration of               *)
(* kernel/src/config/{store,manager}.rs, the log of kernel/src/logger/     *)
(* {record,sink,manager}.rs and the life cycle events of                   *)
(* kernel/src/service/lifecycle.rs.  They share no state.                  *)
(*                                                                         *)
(* set stores the value and calls the callbacks in two lock sections, so   *)
(* that it is two steps; with ConfigLock a caller holds CONFIG_MANAGER over *)
(* both, as the global functions do.  Calls of the log and of the events   *)
(* are behind LOG_MANAGER and LIFECYCLE_MANAGER and are one step each.     *)
(***************************************************************************)
EXTENDS Integers, Sequences, FiniteSets, SequencesExt

CONSTANTS
  ConfigThreads, ConfigLock,
  Keys,          \* sequences of the parts between the dots
  Patterns,      \* keys, or <<"*">>
  Callbacks,     \* the functions passed to watch
  MaxSets, MaxWatches,
  Modules,       \* module paths with a level of their own; "" is none
  Sinks,         \* names of registered sinks
  Capacity,      \* of the ring buffer (4096)
  MaxLogs,
  EventServices,
  max_log,       \* of the life cycle log (1024)
  MaxEvents

(* What the code guarantees of the constants *)
ASSUME StoresAssumption ==
  /\ ConfigLock \in BOOLEAN
  /\ {MaxSets, MaxWatches, MaxLogs, MaxEvents} \subseteq Nat
  /\ Capacity \in Nat \ {0} /\ max_log \in Nat \ {0}
  /\ "" \in Modules
  /\ Keys \subseteq Seq(STRING) /\ Patterns \subseteq Seq(STRING)

VARIABLES
  stores,         \* per namespace: its data and its callbacks, as pairs with their
                  \* pattern; to be called twice in a call tells nothing more
  setting,        \* per thread: the notification it still has to do
  told,           \* per callback: the values it was last called with
  sets,           \* history: how often set has stored
  reload_pending,
  levels,         \* the global level and those of modules
  ring,           \* records, write_pos and count
  sinks,          \* registered sinks
  stats, sequence,
  logged,         \* history: the records that passed, and how many came
  event_log,
  events          \* history: every event recorded

configvars == <<stores, setting, told, sets, reload_pending>>
logvars == <<levels, ring, sinks, stats, sequence, logged>>
eventvars == <<event_log, events>>
vars == <<configvars, logvars, eventvars>>

-----------------------------------------------------------------------------
(* Configuration values *)

NoFields == [k \in {} |-> 0]
Value(type, n, fields) == [type |-> type, n |-> n, fields |-> fields]
Integer(n) == Value("Integer", n, NoFields)
Object(fields) == Value("Object", 0, fields)
ConfigValue == {Integer(1), Object([max_connections |-> Integer(2)])}

AsType(value, type) == {v \in {value} : v.type = type}

Put(table, key, value) == [k \in DOMAIN table \cup {key} |-> IF k = key THEN value ELSE table[k]]
Overlay(new, table) ==
  [k \in DOMAIN new \cup DOMAIN table |-> IF k \in DOMAIN new THEN new[k] ELSE table[k]]
Erased(table, key) == [k \in DOMAIN table \ {key} |-> table[k]]

-----------------------------------------------------------------------------
(* A store *)

NewStore == [data |-> NoFields, callbacks |-> {}]
DefaultStores == {"system", "network", "security", "agent"}
NoCall == [op |-> "idle"]

ConfigInit ==
  /\ stores = [ns \in DefaultStores |-> NewStore]
  /\ setting = [t \in ConfigThreads |-> NoCall]
  /\ told = [c \in Callbacks |-> NoFields]
  /\ sets = 0
  /\ reload_pending = FALSE

Ok(value) == [ok |-> TRUE, value |-> value]
Error(err) == [ok |-> FALSE, err |-> err]

Get(data, key) == IF key \in DOMAIN data THEN Ok(data[key]) ELSE Error("KeyNotFound")

GetTyped(data, key, type) ==
  IF key \in DOMAIN data /\ AsType(data[key], type) = {} THEN Error("TypeMismatch") ELSE Get(data, key)

(* From a value to one of its fields *)
NextPart(found, part) ==
  IF ~found.ok THEN found
  ELSE IF found.value.type # "Object" THEN Error("InvalidPath")
  ELSE IF part \in DOMAIN found.value.fields THEN Ok(found.value.fields[part])
  ELSE Error("KeyNotFound")

(* The full path is looked up first *)
GetNested(data, path) ==
  IF path = <<>> THEN Error("InvalidPath")
  ELSE IF path \in DOMAIN data THEN Ok(data[path])
  ELSE FoldLeft(NextPart, Get(data, <<path[1]>>), Tail(path))

Export(data) == {<<key, data[key]>> : key \in DOMAIN data}
Snapshot(ns) == stores[ns].data

(* Who may begin a call on the configuration *)
MayBegin(t) == setting[t] = NoCall /\ (ConfigLock => \A u \in ConfigThreads : setting[u] = NoCall)

(* set, its first section: an empty key is refused *)
Set(t, ns, key, value) ==
  /\ MayBegin(t) /\ sets < MaxSets
  /\ ns \in DOMAIN stores /\ key # <<>>
  /\ stores' = [stores EXCEPT ![ns].data = Put(@, key, value)]
  /\ setting' = [setting EXCEPT ![t] = [op |-> "notify", ns |-> ns, key |-> key, value |-> value]]
  /\ sets' = sets + 1
  /\ UNCHANGED <<told, reload_pending>>

(* Mutated form of Matches: only the pattern itself. *)
MatchesSame(pattern, key) == pattern = key \/ pattern = <<"*">>

Matches(pattern, key) == IsPrefix(pattern, key) \/ pattern = <<"*">>

Called(ns, key) == {w[2] : w \in {x \in stores[ns].callbacks : Matches(x[1], key)}}

NotifyCallbacks(t) ==
  /\ setting[t] # NoCall
  /\ LET c == setting[t]
     IN told' = [f \in Callbacks |-> IF c.ns \in DOMAIN stores /\ f \in Called(c.ns, c.key)
                                     THEN Put(told[f], <<c.ns, c.key>>, c.value) ELSE told[f]]
  /\ setting' = [setting EXCEPT ![t] = NoCall]
  /\ UNCHANGED <<stores, sets, reload_pending>>

Delete(t, ns, key) ==
  /\ MayBegin(t)
  /\ ns \in DOMAIN stores /\ key \in DOMAIN stores[ns].data
  /\ stores' = [stores EXCEPT ![ns].data = Erased(@, key)]
  /\ UNCHANGED <<setting, told, sets, reload_pending>>

Clear(t, ns) ==
  /\ MayBegin(t) /\ ns \in DOMAIN stores
  /\ stores' = [stores EXCEPT ![ns].data = NoFields]
  /\ UNCHANGED <<setting, told, sets, reload_pending>>

(* restore(snapshot) of a snapshot of any namespace; nobody is told *)
Restore(t, ns, from) ==
  /\ MayBegin(t) /\ {ns, from} \subseteq DOMAIN stores
  /\ stores' = [stores EXCEPT ![ns].data = Snapshot(from)]
  /\ UNCHANGED <<setting, told, sets, reload_pending>>

Watch(t, ns, pattern, callback) ==
  /\ MayBegin(t) /\ ns \in DOMAIN stores
  /\ Cardinality(stores[ns].callbacks) < MaxWatches
  /\ stores' = [stores EXCEPT ![ns].callbacks = @ \cup {<<pattern, callback>>}]
  /\ UNCHANGED <<setting, told, sets, reload_pending>>

Unwatch(t, ns, pattern) ==
  /\ MayBegin(t) /\ ns \in DOMAIN stores
  /\ stores' = [stores EXCEPT ![ns].callbacks = {w \in @ : w[1] # pattern}]
  /\ UNCHANGED <<setting, told, sets, reload_pending>>

-----------------------------------------------------------------------------
(* The manager's own operations take it exclusively *)

Exclusive(t) == ConfigLock /\ MayBegin(t)

CreateNamespace(t, ns) ==
  /\ Exclusive(t) /\ ns \notin DOMAIN stores
  /\ stores' = Put(stores, ns, NewStore)
  /\ UNCHANGED <<setting, told, sets, reload_pending>>

RemoveNamespace(t, ns) ==
  /\ Exclusive(t) /\ ns \in DOMAIN stores
  /\ stores' = Erased(stores, ns)
  /\ UNCHANGED <<setting, told, sets, reload_pending>>

MarkReload(t) == Exclusive(t) /\ reload_pending' = TRUE /\ UNCHANGED <<stores, setting, told, sets>>
Reload(t) == Exclusive(t) /\ reload_pending' = FALSE /\ UNCHANGED <<stores, setting, told, sets>>

(* The defaults of a namespace, of those keys that Keys has; each is set, and *)
(* its callbacks called, before the next                                      *)
Defaults(ns) ==
  CASE ns = "system"   -> [k \in {<<"kernel_version">>, <<"max_tasks">>, <<"debug_enabled">>} \cap Keys |-> Integer(1)]
    [] ns = "network"  -> [k \in {<<"tcp", "max_connections">>, <<"udp", "buffer_size">>, <<"hostname">>} \cap Keys |-> Integer(1)]
    [] ns = "security" -> [k \in {<<"audit_enabled">>, <<"max_login_attempts">>} \cap Keys |-> Integer(1)]
    [] OTHER           -> [k \in {<<"max_agents">>, <<"default_timeout">>} \cap Keys |-> Integer(1)]

InitDefaults(t) ==
  /\ Exclusive(t)
  /\ stores' = [ns \in DOMAIN stores |->
                  IF ns \in DefaultStores
                  THEN [stores[ns] EXCEPT !.data = Overlay(Defaults(ns), @)] ELSE stores[ns]]
  /\ told' = [f \in Callbacks |->
                Overlay([p \in {q \in (DefaultStores \cap DOMAIN stores) \X Keys :
                                  q[2] \in DOMAIN Defaults(q[1]) /\ f \in Called(q[1], q[2])} |->
                           Defaults(p[1])[p[2]]],
                        told[f])]
  /\ UNCHANGED <<setting, sets, reload_pending>>

ConfigNext ==
  \E t \in ConfigThreads :
    \/ \E ns \in {"network", "extra"} :
         \/ \E key \in Keys, value \in ConfigValue : Set(t, ns, key, value)
         \/ \E key \in Keys : Delete(t, ns, key)
         \/ \E pattern \in Patterns :
              (\E c \in Callbacks : Watch(t, ns, pattern, c)) \/ Unwatch(t, ns, pattern)
         \/ Clear(t, ns)
         \/ \E from \in {"network", "extra"} \ {ns} : Restore(t, ns, from)
    \/ CreateNamespace(t, "extra")
    \/ RemoveNamespace(t, "extra")
    \/ NotifyCallbacks(t)
    \/ MarkReload(t)
    \/ Reload(t)
    \/ InitDefaults(t)

ConfigSpec == ConfigInit /\ [][ConfigNext]_configvars

-----------------------------------------------------------------------------
(* The log.  A sink that is registered is a MultiSink of two filtered VGA  *)
(* sinks.                                                                  *)

LogLevel == 0 .. 5

LogStats == [counts |-> [l \in LogLevel |-> 0], dropped_count |-> 0]
TotalLogged == FoldFunction(LAMBDA n, m : n + m, 0, stats.counts)

NewRing == [records |-> [i \in 0 .. Capacity - 1 |-> <<>>], write_pos |-> 0, count |-> 0]

LogInit ==
  /\ levels = [global |-> 0, modules |-> NoFields]
  /\ ring = NewRing
  /\ sinks = NoFields
  /\ stats = LogStats
  /\ sequence = 0
  /\ logged = [passed |-> <<>>, came |-> 0]

ReadAll(r) ==
  [i \in 1 .. r.count |->
     r.records[IF r.count < Capacity THEN i - 1 ELSE (r.write_pos + i - 1) % Capacity]]

ReadByLevel(r, level) == SelectSeq(ReadAll(r), LAMBDA record : record.level = level)

RingWrite(r, record) ==
  [records   |-> [r.records EXCEPT ![r.write_pos] = record],
   write_pos |-> (r.write_pos + 1) % Capacity,
   count     |-> IF r.count < Capacity THEN r.count + 1 ELSE r.count]

(* A filter and the output behind it *)
FilterWrite(sink, record) ==
  IF record.level >= sink.min_level THEN [sink EXCEPT !.output = Append(@, record)] ELSE sink
MultiWrite(multi, record) == [i \in DOMAIN multi |-> FilterWrite(multi[i], record)]

Dropped(level, module) ==
  \/ level < levels.global
  \/ module # "" /\ module \in DOMAIN levels.modules /\ level < levels.modules[module]

(* A record without a time gets the sequence number, which starts at 0 *)
LogRecord(level, module, time) ==
  /\ logged.came < MaxLogs
  /\ IF Dropped(level, module)
     THEN /\ stats' = [stats EXCEPT !.dropped_count = @ + 1]
          /\ logged' = [logged EXCEPT !.came = @ + 1]
          /\ UNCHANGED <<sequence, ring, sinks>>
     ELSE LET record == [level |-> level, module |-> module,
                         timestamp |-> IF time = 0 THEN sequence ELSE time]
          IN /\ sequence' = IF time = 0 THEN sequence + 1 ELSE sequence
             /\ stats' = [stats EXCEPT !.counts[level] = @ + 1]
             /\ ring' = RingWrite(ring, record)
             /\ sinks' = [name \in DOMAIN sinks |-> MultiWrite(sinks[name], record)]
             /\ logged' = [passed |-> Append(logged.passed, record), came |-> logged.came + 1]
  /\ UNCHANGED levels

(* Where the history of a sink begins *)
NewSink(min_level) == [min_level |-> min_level, output |-> <<>>, since |-> Len(logged.passed)]

(* Bound: sinks come early *)
RegisterSink(name, low, high) ==
  /\ name \notin DOMAIN sinks /\ Len(logged.passed) < MaxLogs
  /\ sinks' = Put(sinks, name, <<NewSink(low), NewSink(high)>>)
  /\ UNCHANGED <<levels, ring, stats, sequence, logged>>

UnregisterSink(name) ==
  /\ name \in DOMAIN sinks
  /\ sinks' = Erased(sinks, name)
  /\ UNCHANGED <<levels, ring, stats, sequence, logged>>

SetGlobalLevel(level) ==
  levels' = [levels EXCEPT !.global = level] /\ UNCHANGED <<ring, sinks, stats, sequence, logged>>

SetModuleLevel(module, level) ==
  /\ levels' = [levels EXCEPT !.modules = Put(@, module, level)]
  /\ UNCHANGED <<ring, sinks, stats, sequence, logged>>

RemoveModuleLevel(module) ==
  /\ module \in DOMAIN levels.modules
  /\ levels' = [levels EXCEPT !.modules = Erased(@, module)]
  /\ UNCHANGED <<ring, sinks, stats, sequence, logged>>

(* The history variable of what came starts again with the statistics *)
ResetStats ==
  /\ stats' = LogStats
  /\ logged.came = MaxLogs /\ Len(logged.passed) < 2 * MaxLogs
  /\ logged' = [logged EXCEPT !.came = 0]
  /\ UNCHANGED <<levels, ring, sinks, sequence>>

LogNext ==
  \/ \E level \in {1, 4}, module \in Modules : LogRecord(level, module, 0)
  \/ LogRecord(4, "", 7)
  \/ \E name \in Sinks : RegisterSink(name, 0, 4) \/ UnregisterSink(name)
  \/ \E level \in {0, 4} : SetGlobalLevel(level)
  \/ \E module \in Modules \ {""} : SetModuleLevel(module, 4) \/ RemoveModuleLevel(module)
  \/ ResetStats

-----------------------------------------------------------------------------
(* Life cycle events *)

LifecycleEvent ==
  {"Registered", "Initializing", "Started", "Stopping", "Stopped", "Failed", "Restarted"}

EventInit == event_log = <<>> /\ events = <<>>

RecordEvent(service_id, event) ==
  LET record == [service_id |-> service_id, event |-> event]
  IN /\ Len(events) < MaxEvents
     /\ event_log' = Append(IF Len(event_log) >= max_log THEN Tail(event_log) ELSE event_log, record)
     /\ events' = Append(events, record)

GetEvents(service_id) == SelectSeq(event_log, LAMBDA r : r.service_id = service_id)

GetRecentEvents(count) ==
  SubSeq(event_log, (IF Len(event_log) > count THEN Len(event_log) - count ELSE 0) + 1, Len(event_log))

ShouldRestart(restart_count, max_restart) == restart_count < max_restart

EventNext == \E s \in EventServices, e \in {"Started", "Failed"} : RecordEvent(s, e)

Init == ConfigInit /\ LogInit /\ EventInit

-----------------------------------------------------------------------------

Namespaces == DefaultStores \cup {"extra"}
ConfigData == UNION {[ks -> ConfigValue] : ks \in SUBSET Keys}
StoreType == [data : ConfigData, callbacks : SUBSET (Patterns \X Callbacks)]
Settings == {NoCall} \cup [op : {"notify"}, ns : Namespaces, key : Keys, value : ConfigValue]

ConfigTypeOK ==
  /\ DOMAIN stores \subseteq Namespaces /\ stores \in [DOMAIN stores -> StoreType]
  /\ setting \in [ConfigThreads -> Settings]
  /\ DOMAIN told = Callbacks
  /\ reload_pending \in BOOLEAN

(* The inductive invariant of the configuration: behind the lock of        *)
(* CONFIG_MANAGER at most one set is under way, and the key has its value. *)
ConfigInv ==
  /\ ConfigTypeOK
  /\ ConfigLock =>
       \A t \in ConfigThreads : setting[t] # NoCall =>
         LET c == setting[t]
         IN /\ \A u \in ConfigThreads \ {t} : setting[u] = NoCall
            /\ c.ns \in DOMAIN stores
            /\ <<c.key, c.value>> \in Export(Snapshot(c.ns))

TypeOK ==
  /\ ConfigInv
  /\ ring.write_pos \in 0 .. Capacity - 1 /\ ring.count \in 0 .. Capacity
  /\ \A r \in ToSet(event_log) : r.service_id \in EventServices /\ r.event \in LifecycleEvent

Watches(pattern, key) ==
  \/ pattern = <<"*">>
  \/ Len(pattern) <= Len(key) /\ \A i \in 1 .. Len(pattern) : key[i] = pattern[i]

ToldOnReturn ==
  ConfigLock =>
    \A t \in ConfigThreads :
      setting[t] # NoCall /\ setting'[t] = NoCall =>
        LET c == setting[t]
        IN \A w \in stores[c.ns].callbacks : Watches(w[1], c.key) =>
             /\ c.key \in DOMAIN stores'[c.ns].data
             /\ <<c.ns, c.key>> \in DOMAIN told'[w[2]]
             /\ told'[w[2]][<<c.ns, c.key>>] = stores'[c.ns].data[c.key]

(* Behind the lock of CONFIG_MANAGER every callback that watches a key has *)
(* been called with the value the key has when set returns.                *)
WatcherCurrent == [][ToldOnReturn]_configvars

(* get_nested finds a value exactly when it is stored under the whole path *)
(* or a chain of objects leads to it from the first part; the typed reads  *)
(* tell missing keys from other types.                                     *)
NestedExact ==
  \A ns \in DOMAIN stores, path \in Keys \cup {<<>>} :
    LET data == stores[ns].data
        found == GetNested(data, path)
        chain(v) == Len(path) = 2 /\ <<path[1]>> \in DOMAIN data
                    /\ data[<<path[1]>>].type = "Object" /\ path[2] \in DOMAIN data[<<path[1]>>].fields
                    /\ v = data[<<path[1]>>].fields[path[2]]
    IN /\ found.ok => \/ <<path, found.value>> \in Export(data)
                      \/ path \notin DOMAIN data /\ chain(found.value)
       /\ path \in DOMAIN data => found = Get(data, path)
       /\ (\E v \in ConfigValue \cup {Integer(2)} : chain(v)) => found.ok
       /\ GetTyped(data, path, "Integer").ok = (path \in DOMAIN data /\ data[path].type = "Integer")

LastOf(n, s) == SubSeq(s, IF Len(s) > n THEN Len(s) - n + 1 ELSE 1, Len(s))

(* The ring buffer and the life cycle log have the latest records, from    *)
(* old to new, every sink those of its level since it was registered, and  *)
(* the statistics account for every record since they were reset.          *)
LogsExact ==
  /\ ReadAll(ring) = LastOf(Capacity, logged.passed)
  /\ \A level \in LogLevel :
       ReadByLevel(ring, level) = SelectSeq(LastOf(Capacity, logged.passed), LAMBDA r : r.level = level)
  /\ \A name \in DOMAIN sinks : \A i \in DOMAIN sinks[name] :
       LET s == sinks[name][i]
       IN s.output = SelectSeq(SubSeq(logged.passed, s.since + 1, Len(logged.passed)),
                               LAMBDA r : r.level >= s.min_level)
  /\ TotalLogged + stats.dropped_count = logged.came
  /\ event_log = LastOf(max_log, events)
  /\ \A n \in 0 .. max_log : GetRecentEvents(n) = LastOf(n, event_log)
  /\ \A s \in EventServices : \A r \in ToSet(GetEvents(s)) : r \in ToSet(events)

=============================================================================

SPECIFICATION MCSpec
CONSTANTS
  Threads = {t1, t2}
  Owners = {"o1", "o2"}
  MaxDelegates = 2
  MaxTokens = 4
  Services = {1, 2, 3}
  Configs <- ServiceConfigs
  Reregister = FALSE
  Limits = {1, 2}
  MonitorLock = TRUE
  MaxCount = 4
  Names = {"n1", "n2"}
  TypeOf <- NameType
  States = {"Running"}
  RegistryLock = TRUE
  MaxIds = 4
  MaxRestarts = 1
  Callers = {t1, t2}
  Paths <- ShortPaths
  MAX_FDS = 2
  HeapMax = 2
  MaxBrk = 3
  MaxPid = 1
  MaxSize = 1
  MaxOpened = 3
  MaxMounts = 2
  Bytes = 2
  FdThreads = {t1, t2}
  FdInodes = {"f1", "f2"}
  OpenModes <- FdFlags
  MaxFds = 2
  Lengths = {1}
  Share = FALSE
  MaxFileSize = 2
  Auditors = {t1, t2}
  max_records = 3
  AuditLock = TRUE
  MaxRecords = 6
  ConfigThreads = {t1, t2}
  ConfigLock = TRUE
  Keys <- KeysUsed
  Patterns <- PatternsUsed
  Callbacks = {1}
  MaxSets = 2
  MaxWatches = 1
  Modules = {"", "m"}
  Sinks = {"s"}
  Capacity = 2
  MaxLogs = 2
  EventServices = {1, 2}
  max_log = 2
  MaxEvents = 4
INVARIANTS TypesOK TablesInStep LogLinked HeapTopInRange
PROPERTIES StartedAfterDependencies TokensBounded DescriptorsExact WatcherCurrent
CHECK_DEADLOCK FALSE

SPECIFICATION MCSpec
CONSTANTS
  Node = {1, 2, 3}
  Elements <- Values
  NoValue <- EmptyValue
  Kinds = {"register"}
  Timestamps = {0, 1, 2}
  MaxUpdates = 2
  MaxMessages = 2
  MaxQueue = 1
  Local = 1
  Timeouts = {1, 2}
  MaxTime = 4
  Threads = {"t1", "t2"}
  MAX_SOCKETS = 2
  MaxFds = 2
  Addrs = {"a"}
  Lengths = {1}
  MaxBuffered = 1
  Interfaces = {1, 2}
  Hosts = {"localhost"}
  Ports = {0, 7}
  MaxConns = 3
  MaxBytes = 1
  BusThreads = {"t1", "t2"}
  BusDevices = {1, 2}
  Latencies = {0, 1}
  SeenTimes = {0, 11}
  MaxBusIds = 3
  FirstStamp = 10
INVARIANTS TypesOK Converges ClocksShowCausality SocketTableExact NetworkExact
CHECK_DEADLOCK FALSE

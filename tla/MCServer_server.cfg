SPECIFICATION MCSpec
CONSTANTS
  Worker = {w1, w2}
  Conn = {1, 2}
  Task = {1, 2}
  ClientData = {1, 2}
  NoTask = NoTask
  NoData = NoData
  Capacity = 1
  FD = {1, 2}
  MaxSignals = 1
INVARIANTS
  NoLostWakeup
  ConnectionAccounted
  
  FaultsExplained
PROPERTIES
  RequestEnds
  ShutdownEnds
\* The server may stop: it ends, faults, or waits for clients that do not come.
CHECK_DEADLOCK FALSE

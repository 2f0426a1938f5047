SPECIFICATION FairSpec
CONSTANTS
  MaxTasks = 1
  MaxTestTasks = 0
  l1 = l1
  l2 = l2
  d1 = d1
  d2 = d2
  Outbounds = {o1}
  NoOutbound = NoOutbound
  Devices = {d1, d2}
  NoDevice = NoDevice
  Faults <- NoFaults
  Requests = {r1, r2}
  Loops = {l1, l2}
  NoRequest = NoRequest
  DeviceOf <- OneLoopPerDevice
  Workers = {w1}
  NoWorker = NoWorker
  JobAttempts = 2
  MaxStalls = 1
PROPERTIES
  EveryTaskEnds
CHECK_DEADLOCK FALSE

\* One request at a time, two loops on the device, two runs of the job, all faults.
SPECIFICATION FairSpec
CONSTANTS
  MaxTasks = 1
  MaxTestTasks = 0
  l1 = l1
  l2 = l2
  d1 = d1
  d2 = d2
  Outbounds = {o1}
  NoOutbound = NoOutbound
  Devices = {d1}
  NoDevice = NoDevice
  Faults <- AllFaults
  Requests = {r1}
  Loops = {l1, l2}
  NoRequest = NoRequest
  DeviceOf <- TwoLoopsOneDevice
  Workers = {w1, w2}
  NoWorker = NoWorker
  JobAttempts = 3
  MaxStalls = 1
INVARIANTS
  CompletedIsHandled
  PressedAtMostOnce
PROPERTIES
  EveryJobEnds
  ImplementsLifecycle
CHECK_DEADLOCK FALSE

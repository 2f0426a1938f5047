SPECIFICATION Spec
CONSTANTS
  MaxTasks = 1
  MaxTestTasks = 1
  l1 = l1
  l2 = l2
  d1 = d1
  d2 = d2
  Outbounds = {o1}
  NoOutbound = NoOutbound
  Devices = {d1, d2}
  NoDevice = NoDevice
  Faults = {"job_error"}
  Requests = {r1}
  Loops = {l1}
  NoRequest = NoRequest
  DeviceOf <- SingleLoop
  Workers = {w1}
  NoWorker = NoWorker
  JobAttempts = 2
  MaxStalls = 1
PROPERTIES
  BlockedHasNoTask
CHECK_DEADLOCK FALSE

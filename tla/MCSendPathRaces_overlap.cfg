SPECIFICATION RSpec
CONSTANTS
  MaxTasks = 1
  MaxTestTasks = 1
  l1 = l1
  l2 = l2
  d1 = d1
  d2 = d2
  Outbounds = {o1}
  NoOutbound = NoOutbound
  Devices = {d1, d2}
  NoDevice = NoDevice
  Faults = {"timeout", "drop", "crash", "exec_error", "post_ack", "restart"}
  Requests = {r1, r2}
  Loops = {l1, l2}
  NoRequest = NoRequest
  DeviceOf <- OneLoopPerDevice
  Workers = {w1}
  NoWorker = NoWorker
  JobAttempts = 2
  MaxStalls = 1
SYMMETRY RequestSymmetry
INVARIANTS
  TypeOK
  SuccessWasPressed
  RunningHasOpenAttempt
  PressesAreRecorded
  PressedOncePerLoop
  SendersWereGranted
  GrantedOnceUnlessAcksMeet
PROPERTIES
  LifecycleUnlessHandlersMeet
CHECK_DEADLOCK FALSE

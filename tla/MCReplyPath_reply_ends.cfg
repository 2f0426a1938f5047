\* Two intake runs race over one sender or, after a stall, over one event; a flush
\* run may throw.
SPECIFICATION FairSpec
CONSTANTS
  e1 = e1
  e2 = e2
  e3 = e3
  hello = hello
  bye = bye
  ann = ann
  MaxMessages = 3
  Slots = {f1}
  NoHolder = NoHolder
  Gone = Gone
  Bodies = {hello, bye}
  ReplyBodies = {bye}
  DedupeOn = TRUE
  NoBody = NoBody
  Blank = Blank
  FaultPlans = {{"flush_error"}, {"stall"}}
  Events = {e1, e2}
  NoEvent = NoEvent
  Intakes = {w1, w2}
  NoSender = NoSender
  JobAttempts = 3
  BodyOf <- MCBodyOf
  SenderOf <- MCSenderOf
  NatureOf <- MixedNatures
INVARIANTS
  OneMessagePerEvent
PROPERTIES
  LockIsFreed
  EveryEventEnds
CHECK_DEADLOCK FALSE

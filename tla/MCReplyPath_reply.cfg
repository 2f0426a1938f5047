\* One intake run, two flush runs, one fault of any kind.
SPECIFICATION Spec
CONSTANTS
  e1 = e1
  e2 = e2
  e3 = e3
  hello = hello
  bye = bye
  ann = ann
  MaxMessages = 3
  Slots = {f1, f2}
  NoHolder = NoHolder
  Gone = Gone
  Bodies = {hello, bye}
  ReplyBodies = {bye}
  DedupeOn = TRUE
  NoBody = NoBody
  Blank = Blank
  FaultPlans = {{"intake_error"}, {"restart"}, {"left_lock", "slow", "ageing"},
    {"left_lock", "flush_error"}, {"left_lock", "outage"}, {"left_lock", "stall"},
    {"left_lock", "send", "ageing"}, {"left_lock", "list_ttl"}}
  Events = {e1, e2}
  NoEvent = NoEvent
  Intakes = {w1}
  NoSender = NoSender
  JobAttempts = 3
  BodyOf <- MCBodyOf
  SenderOf <- MCSenderOf
  NatureOf <- MCNatureOf
INVARIANTS
  TypeOK
  AnswersUnderLock
  OneMessagePerEvent
  OutboxAddsUp
  OnlyUserTextIsCollected
PROPERTIES
  NoImmediateRepeat
  NothingIsTakenTwice
  ImplementsLease
CHECK_DEADLOCK FALSE

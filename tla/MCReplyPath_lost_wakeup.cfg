\* No fault at all.
SPECIFICATION FairSpec
CONSTANTS
  e1 = e1
  e2 = e2
  e3 = e3
  hello = hello
  bye = bye
  ann = ann
  MaxMessages = 2
  Slots = {f1}
  NoHolder = NoHolder
  Gone = Gone
  Bodies = {hello, bye}
  ReplyBodies = {bye}
  DedupeOn = TRUE
  NoBody = NoBody
  Blank = Blank
  FaultPlans = {{}}
  Events = {e1, e2}
  NoEvent = NoEvent
  Intakes = {w1}
  NoSender = NoSender
  JobAttempts = 3
  BodyOf <- MCBodyOf
  SenderOf <- MCSenderOf
  NatureOf <- MCNatureOf
PROPERTIES
  EveryMessageIsTaken
CHECK_DEADLOCK FALSE

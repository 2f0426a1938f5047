\* No fault at all; the robot has two things to say.
SPECIFICATION Spec
CONSTANTS
  e1 = e1
  e2 = e2
  e3 = e3
  hello = hello
  bye = bye
  ann = ann
  MaxMessages = 3
  Slots = {f1}
  NoHolder = NoHolder
  Gone = Gone
  Bodies = {hello, bye}
  ReplyBodies = {hello, bye}
  DedupeOn = TRUE
  NoBody = NoBody
  Blank = Blank
  FaultPlans = {{}}
  Events = {e1, e2, e3}
  NoEvent = NoEvent
  Intakes = {w1}
  NoSender = NoSender
  JobAttempts = 3
  BodyOf <- MCBodyOf
  SenderOf <- MCSenderOf
  NatureOf <- MCNatureOf
PROPERTIES
  NoSecondInTheWindow
CHECK_DEADLOCK FALSE

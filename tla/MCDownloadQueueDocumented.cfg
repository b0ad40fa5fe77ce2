SPECIFICATION FairQueueSpec
CONSTANTS
  Worker = {w1, w2}
  Submissions = 2
  Events = 1
  EventCap = 1
PROPERTIES
  OrderOrEndAsDocumented
CHECK_DEADLOCK FALSE

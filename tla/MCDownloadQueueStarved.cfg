SPECIFICATION FairQueueSpec
CONSTANTS
  Worker = {w1}
  Submissions = 2
  Events = 3
  EventCap = 1
PROPERTIES
  NoStarvation
CHECK_DEADLOCK FALSE

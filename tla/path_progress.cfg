SPECIFICATION FairSpec
CONSTANTS
  Requests = {r1, r2}
  Workers = {w1, w2}
  MaxQueue = 2
  LargeResults = TRUE
  Deaths = {"idle", "polling", "unpickling", "running"}
  Free = Free
  Lost = Lost
  NoTask = NoTask
CHECK_DEADLOCK FALSE
PROPERTIES
  EveryCallIsAnswered
  QueuedTaskLeavesQueue
  BlockedSenderFinishes

SPECIFICATION FairSpec
CONSTANTS
  Requests = {r1, r2}
  Workers = {w1}
  MaxQueue = 1
  LargeResults = TRUE
  Deaths = {"sending"}
  Free = Free
  Lost = Lost
  NoTask = NoTask
PROPERTY EveryCallIsAnswered

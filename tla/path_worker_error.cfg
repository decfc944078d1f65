SPECIFICATION Spec
CONSTANTS
  Requests = {r1, r2}
  Workers = {w1}
  MaxQueue = 1
  LargeResults = FALSE
  Deaths = {}
  Free = Free
  Lost = Lost
  NoTask = NoTask
INVARIANT DeadWorkerWakesItsCaller

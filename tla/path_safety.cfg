SPECIFICATION Spec
CONSTANTS
  Requests = {r1, r2, r3}
  Workers = {w1, w2}
  MaxQueue = 2
  LargeResults = TRUE
  Deaths = {"idle", "polling", "unpickling", "running", "sending"}
  Free = Free
  Lost = Lost
  NoTask = NoTask
CHECK_DEADLOCK FALSE
SYMMETRY Symmetry
INVARIANTS
  TypeOK
  TaskIsInOnePlace
  OnlyUnclaimedEndsStayOpen
PROPERTY ImplementsLifecycle

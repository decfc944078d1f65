SPECIFICATION Spec
CONSTANTS
  Pids = {p1, p2, p3}
  N = 2
  InitialStartup = 1
  FullStartup = 2
  CheckInterval = 1
  StallTimeout = 2
  IdleInterval = 1
  Closed = Closed
  Unused = Unused
SYMMETRY Symmetry
INVARIANTS
  TypeOK
  EveryProcessHasOneSlot
  HealthAnswerMatchesPool
  CompletedCycleRestoresPool
  SurvivorsStandBehindAClosedSlot
PROPERTIES
  ServesOnlyWhenAllReady
  StalledWorkerIsSilentOrUnread

SPECIFICATION FairSpec
CONSTANTS
  Pids = {p1, p2}
  N = 2
  InitialStartup = 1
  FullStartup = 2
  CheckInterval = 1
  StallTimeout = 2
  IdleInterval = 1
  Closed = Closed
  Unused = Unused
PROPERTY ReadyWaitEnds

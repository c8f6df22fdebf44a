\* A leader and a forked process that may be killed, one trace, under fairness.
CONSTANTS
  Procs = {p1, p2}
  Leader = p1
  MaxConns = 1
  MaxTraces <- MCLeaderOne
  Owners = {o1}
  MayCrash = {p2}
  Capacity = 1
  Conns <- MCConns
  BadNames = {}
  StopMsg = StopMsg
  Idle = Idle
SPECIFICATION FairSpec
CHECK_DEADLOCK FALSE
INVARIANTS WrittenIsComplete
PROPERTIES FlushReturns StopAgentReturns ClosedIsWritten

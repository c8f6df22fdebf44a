\* Does stop_agent return if a client was killed before its flush?
CONSTANTS
  Procs = {p1, p2}
  Leader = p1
  MaxConns = 1
  MaxTraces <- MCOneEach
  Owners = {o1}
  MayCrash = {p2}
  Capacity = 1
  Conns <- MCConns
  BadNames = {}
  StopMsg = StopMsg
  Idle = Idle
SPECIFICATION FairSpec
CHECK_DEADLOCK FALSE
PROPERTIES StopAgentAlwaysReturns

\* Is what a client has flushed in the output?
CONSTANTS
  Procs = {p1}
  Leader = p1
  MaxConns = 1
  MaxTraces <- MCOneEach
  Owners = {o1}
  MayCrash = {}
  Capacity = 2
  Conns <- MCConns
  BadNames = {}
  StopMsg = StopMsg
  Idle = Idle
SPECIFICATION FairSpec
CHECK_DEADLOCK FALSE
PROPERTIES FlushedIsWritten

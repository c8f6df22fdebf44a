\* Does an agent that is serving write its output after the HUP?
CONSTANTS
  Procs = {p1}
  Leader = p1
  MaxConns = 1
  MaxTraces <- MCOneEach
  Owners = {o1}
  MayCrash = {}
  Capacity = 1
  Conns <- MCConns
  BadNames = {}
  StopMsg = StopMsg
  Idle = Idle
SPECIFICATION FairSpec
CHECK_DEADLOCK FALSE
PROPERTIES HupWrites

\* A forked process inherits the constants its parent has announced.
CONSTANTS
  Procs = {p1, p2}
  Leader = p1
  MaxConns = 1
  MaxTraces <- MCOneEach
  Owners = {o1}
  MayCrash = {}
  Capacity = 1
  Conns <- MCConns
  BadNames = {}
  StopMsg = StopMsg
  Idle = Idle
SPECIFICATION Spec
CHECK_DEADLOCK FALSE
INVARIANTS CollectorSurvives

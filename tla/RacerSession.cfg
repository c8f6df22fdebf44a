\* One process over two sessions, with a crash: every order of start, stop,
\* flush and failed connects, against the agent in every phase.
CONSTANTS
  Procs = {p1}
  Leader = p1
  MaxConns = 2
  MaxTraces <- MCThreeEach
  Owners = {o1}
  MayCrash = {p1}
  Capacity = 2
  Conns <- MCConns
  BadNames = {}
  StopMsg = StopMsg
  Idle = Idle
SPECIFICATION Spec
CHECK_DEADLOCK FALSE
INVARIANTS TypeOK InOrder NothingLost HookHasQueue DeathsAreExplained

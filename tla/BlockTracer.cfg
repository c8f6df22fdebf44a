\* Two fibers call methods with a block, the block and the block inside it,
\* with and without blocks of their own, in sessions that start and stop.
CONSTANTS
  b = b
  c = c
  Fibers = {f1, f2}
  Blocks = {b, c}
  Inner <- MCInner
  Within <- MCWithin
  NoBlock = NoBlock
  None = None
  MaxCalls = 4
SPECIFICATION Spec
SYMMETRY Symmetry
CHECK_DEADLOCK FALSE
INVARIANTS TypeOK OwnedOnce MethodTpsAlive  FirstCallIsRecorded

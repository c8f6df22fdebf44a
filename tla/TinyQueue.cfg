\* Two pushing threads and two popping threads over two nodes: nodes are freed
\* and reused, both consumers can wait at once.  Fairness rules symmetry out.
CONSTANTS
  Producers = {p1, p2}
  Consumers = {c1, c2}
  Messages = {m1, m2, m3}
  Nodes = {n1, n2}
  NULL = NULL
  NoMsg = NoMsg
SPECIFICATION FairSpec
INVARIANTS TypeOK ListShape MemoryOK NoLostWakeup
PROPERTIES IsFifo LinkedIsTaken PushReturns
CHECK_DEADLOCK FALSE

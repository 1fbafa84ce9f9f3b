\* A failed unlock may leave the lock counted for ever, with every thread
\* waiting: the system may stop.
CONSTANTS
  t1 = t1
  t2 = t2
  t3 = t3
  none = none
  Threads = {t1, t2, t3}
  NoThread = none
  MaxFaults = 1
  Nodes = {1, 2, 3, 4}
  Predefined <- MCPredefined
  Root = 0
  NoNode = 9
  Names = {"a", "b"}
  Walks <- MCWalks
  MaxSleeps = 1
SPECIFICATION MCSpec
INVARIANTS PointersLive IterationsComplete LookupsSound WipeEnds MutualExclusion
PROPERTIES FrameLeavesNothing SomebodyGetsIn
CHECK_DEADLOCK FALSE

SPECIFICATION Spec
CONSTANTS
  g = g
  a2 = a2
  b2 = b2
  a3 = a3
  c3 = c3
  a4 = a4
  f4 = f4
  unknown = unknown
  k1 = k1
  k2 = k2
  s1 = s1
  s2 = s2
  Block = {g, a2, a3, a4}
  Genesis = g
  Unknown = unknown
  Key = {k1}
  Content <- MCContent
  DistanceFits <- MCPairs
  DifficultyFits <- MCPairs
  Lag = 2
  BlockTtl = 3
  LockTtl = 4
  StaleAfter = 5
  Slot = {s1}
  Own = {}
  ChainMax = 2
  MaxTime = 0
  MaxRestarts = 1
  MaxPurges = 0
INVARIANTS TwoLinkedBlocksOpenGate
CHECK_DEADLOCK FALSE

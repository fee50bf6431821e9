SPECIFICATION Spec
CONSTANTS
  g = g
  x = x
  y = y
  none = none
  eth = eth
  r1 = r1
  r2 = r2
  w1 = w1
  w2 = w2
  Block = {g, x, y}
  Genesis = g
  None = none
  Call = {r1}
  Chain = {eth}
  Worker = {w1, w2}
  Prev <- MCPrev
  Headers <- MCHeaders
  MaxHeight = 4
  MaxListed = 1
  MaxCount = 2
  Window = 1
  MaxMoves = 2
  MaxWorks = 2
  DefaultLimit = 1
  ConfigLimit = 2
  MaxForks = 3
INVARIANTS TypeOK SolutionFitsBlock OneBlockPerWork FreshOrCarried PoolIsReplaced
PROPERTIES ImplementsWorkBoard
SYMMETRY Alike
VIEW Ahead
CHECK_DEADLOCK FALSE

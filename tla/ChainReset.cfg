SPECIFICATION Spec
CONSTANTS
  g = g
  a1 = a1
  a2 = a2
  b1 = b1
  b2 = b2
  b3 = b3
  c2 = c2
  x = x
  y = y
  z = z
  none = none
  Block = {g, a1, a2, b1, b2, b3, c2}
  Genesis = g
  None = none
  Coin = {x, y, z}
  Bad = {}
  Parent <- MCParent
  Height <- MCHeight
  Chainwork <- MCChainwork
  Creates <- MCCreates
  Spends <- MCSpends
  Path <- MCPath
  Unspent <- MCUnspent
  Jobs <- MCJobsReset
  MaxQueue = 1
  MaxOrphans = 1
  Faults = FALSE
PROPERTIES ResetLeavesMainOnly

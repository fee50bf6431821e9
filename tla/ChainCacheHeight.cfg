SPECIFICATION Spec
CONSTANTS
  g = g
  a = a
  b1 = b1
  c1 = c1
  y = y
  z = z
  none = none
  unread = unread
  r1 = r1
  Block = {g, a, b1, c1}
  Genesis = g
  None = none
  Unread = unread
  Coin = {y, z}
  Bad = {}
  Parent <- MCParent
  Height <- MCHeight
  Chainwork <- MCHeight
  Creates <- MCCreates
  Spends <- MCSpends
  Path <- MCPath
  Unspent <- MCUnspent
  Readers = {r1}
  CoinCache = 1
  EntryCache = 1
  MaxStates = 4
INVARIANTS HeightCacheOnMain

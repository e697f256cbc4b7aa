SPECIFICATION LapFreeSpec
CONSTANTS
  Producers = {p, w}
  Consumers = {w, c}
  Items = {x, y}
  Capacity = 4
  MaxPushes = 5
  Null = Null
  p = p
  w = w
  c = c
  x = x
  y = y
INVARIANTS TypeOK SlotExclusive DeliversInOrder SizeInRange EmptyIsHonest
PROPERTIES FailedPopSawEmpty ImplementsFifo
SYMMETRY ItemSymmetry

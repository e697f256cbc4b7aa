SPECIFICATION Spec
CONSTANTS
  Producers = {a}
  Consumers = {a, c}
  Items = {x}
  Capacity = 4
  MaxPushes = 4
  Null = Null
  a = a
  c = c
  x = x
INVARIANTS OnlyReadyNodes

SPECIFICATION FairSpec
CONSTANTS
  Producers = {a, b}
  Consumers = {a, b}
  Items = {x}
  Capacity = 4
  MaxPushes = 5
  Null = Null
  a = a
  b = b
  x = x
PROPERTIES CallsReturn

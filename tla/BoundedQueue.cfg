SPECIFICATION FairSpec
CONSTANTS
  Producers = {p1}
  Consumers = {c1, c2}
  Items = {i1, i2}
  NoItem = NoItem
  Size = 2
INVARIANT TypeOK WakeupsSuffice
PROPERTY ImplementsChannel BlockedInsertReturns

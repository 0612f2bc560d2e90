SPECIFICATION LossySpec
CONSTANTS
  Workers = {w1, w2}
  Producers = {p1}
  Pollers = {}
  Addresses = {}
  NoAddress = NoAddress
  Priorities = {1}
  MaxPriority = 2
  MaxRows = 1
  MaxFaults = 1
  MaxCrashes = 0
INVARIANTS DeliveredOnce

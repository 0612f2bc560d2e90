SPECIFICATION FairSpec
CONSTANTS
  Workers = {w1, w2}
  Producers = {p1}
  Pollers = {}
  Addresses = {}
  NoAddress = NoAddress
  Priorities = {1}
  MaxPriority = 2
  MaxRows = 2
  MaxFaults = 1
  MaxCrashes = 1
INVARIANTS TypeOK DeliveredOnce PermitsBackClaims NoLostWakeup PermitLeakBounded
PROPERTIES EveryRowIsClaimed ImplementsWorkQueue

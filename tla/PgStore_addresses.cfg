SPECIFICATION Spec
CONSTANTS
  Workers = {w1, w2}
  Producers = {p1}
  Pollers = {q1}
  Addresses = {a1}
  NoAddress = NoAddress
  Priorities = {1, 2}
  MaxPriority = 2
  MaxRows = 2
  MaxFaults = 1
  MaxCrashes = 0
SYMMETRY Users
INVARIANTS OneFailureRow OutcomeOnRecord
PROPERTIES CompleteMeansFinished

SPECIFICATION Spec
CONSTANTS
  Specs <- MCSpecs
  Grid = 20
  Cap = 2
  MaxLag = 2
INVARIANT
  KindMatchesPayload
\* The generator ends.
CHECK_DEADLOCK FALSE

SPECIFICATION FairSpec
CONSTANTS
  Specs <- MCSpecs
  Grid = 20
  Cap = 2
  MaxLag = 2
INVARIANTS
  MixIsProportional
  SkewIsExact
  ErrorsCompose
  StreamFollowsCurve
  OverrunIsBounded
  NoneSkippedSilently
PROPERTIES
  GeneratorCloses
\* The generator ends.
CHECK_DEADLOCK FALSE

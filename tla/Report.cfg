SPECIFICATION Spec
CONSTANT
  Dirs <- MCDirs
INVARIANTS
  ReportIsComplete
  PercentilesAreNearestRank
  MediansSplitTheRuns
  ExtremesAreExtreme
\* The report ends.
CHECK_DEADLOCK FALSE

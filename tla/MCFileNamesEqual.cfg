\* relativize given a path that equals a load-path directory without a
\* trailing separator (/a, with /a or //a in the load path).
CONSTANTS
  False = False
  InitSize <- MCInitSize
  Links <- MCLinks
  Cwds <- MCCwds
  MaxChanges = 1
  Paths <- MCPathsEqual
  InPaths <- MCInPaths
SPECIFICATION Spec
CHECK_DEADLOCK FALSE
INVARIANT RelativizeCorrect

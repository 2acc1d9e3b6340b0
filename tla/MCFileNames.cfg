\* readlink, getcwd and relativize, each called once, with the link and the
\* working directory changing under them.  No load-path directory without a
\* trailing separator equals the canonical path.  The procedures return, so
\* the system stops.
CONSTANTS
  False = False
  InitSize <- MCInitSize
  Links <- MCLinks
  Cwds <- MCCwds
  MaxChanges = 1
  Paths <- MCPaths
  InPaths <- MCInPaths
SPECIFICATION Spec
CHECK_DEADLOCK FALSE
INVARIANT NamesComplete
INVARIANT RelativizeCorrect
PROPERTY Terminates

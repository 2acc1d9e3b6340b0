\* open with O_RDONLY | O_APPEND.
CONSTANTS
  p1 = p1
  p2 = p2
  p3 = p3
  NoFile = NoFile
  Ports <- MCPorts
  MaxFd <- MCMaxFd
  MaxOpens <- MCMaxOpens
  Flags <- MCFlagsAppend
  Shared = FALSE
  CloseUnder = FALSE
SPECIFICATION Spec
SYMMETRY MCSymmetry
INVARIANT PortModeAgrees

\* fdopen may make a second port on a descriptor a port uses.
CONSTANTS
  p1 = p1
  p2 = p2
  p3 = p3
  NoFile = NoFile
  Ports <- MCPorts
  MaxFd <- MCMaxFd
  MaxOpens <- MCMaxOpens
  Flags <- MCFlags
  Shared = TRUE
  CloseUnder = FALSE
SPECIFICATION Spec
SYMMETRY MCSymmetry
INVARIANT PortFileIntegrity

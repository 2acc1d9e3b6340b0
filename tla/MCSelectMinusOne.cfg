\* select given the integer -1 among its reads or excepts: set_element files
\* it as a port with a ready buffer.
CONSTANTS
  p1 = p1
  p2 = p2
  Ports = {p1, p2}
  Ints <- MCIntsMinusOne
  PortFd <- MCPortFd
  Fds = {0, 1, 2}
  Open = {0, 1, 2}
  FdSetSize = 4
  Args <- MCArgsMinusOne
  Timeouts <- MCTimeouts
SPECIFICATION Spec
CHECK_DEADLOCK FALSE
INVARIANT SelectSound

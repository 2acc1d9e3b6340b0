\* select given a port and the integer of its descriptor in one list: a port
\* whose buffer is ready is answered once for its buffer and once for its
\* descriptor.
CONSTANTS
  p1 = p1
  p2 = p2
  Ports = {p1, p2}
  Ints <- MCIntsShared
  PortFd <- MCPortFd
  Fds = {0, 1, 2}
  Open = {0, 1, 2}
  FdSetSize = 4
  Args <- MCArgsShared
  Timeouts <- MCTimeouts
SPECIFICATION Spec
CHECK_DEADLOCK FALSE
INVARIANT SelectSound

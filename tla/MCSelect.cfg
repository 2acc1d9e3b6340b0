\* One call of select with every argument list of up to two reads, one write
\* and one except whose members are on distinct descriptors, every buffer
\* state and every kind of timeout.  The call ends, so the system stops.
CONSTANTS
  p1 = p1
  p2 = p2
  Ports = {p1, p2}
  Ints <- MCInts
  PortFd <- MCPortFd
  Fds = {0, 1, 2, 3}
  Open = {0, 1, 2}
  FdSetSize = 4
  Args <- MCArgs
  Timeouts <- MCTimeouts
SPECIFICATION Spec
CHECK_DEADLOCK FALSE
INVARIANT SelectComplete
PROPERTY NoLostWakeup

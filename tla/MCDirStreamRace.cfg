\* Two threads share a stream; one may close it while the other reads.
CONSTANTS
  t1 = t1
  t2 = t2
  s1 = s1
  s2 = s2
  None = None
  Threads <- MCTwo
  NEntries <- MCNEntries
  Streams <- MCStreams
  CloseFails = FALSE
SPECIFICATION Spec
SYMMETRY MCSymmetry
\* After the GC has freed the stream nothing more happens.
CHECK_DEADLOCK FALSE
INVARIANT SafeDirAccess

\* Descriptors held by copy-file when it raises.
CONSTANTS
  MaxSize <- MCMaxSize
  BufSize <- MCBufSize
  MaxIntr <- MCMaxIntr
  CowArgs <- MCCowArgs
  Shrinks = FALSE
SPECIFICATION Spec
CHECK_DEADLOCK FALSE
INVARIANT NoDescriptorLeak

\* copy-file while another process may truncate the source.
CONSTANTS
  MaxSize <- MCMaxSize
  BufSize <- MCBufSize
  MaxIntr <- MCMaxIntr
  CowArgs <- MCCowArgs
  Shrinks = TRUE
SPECIFICATION Spec
\* copy-file returns or raises and then does nothing more.
CHECK_DEADLOCK FALSE
INVARIANT CopyExact
PROPERTY Terminates

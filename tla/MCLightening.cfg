\* The JIT core on every target of the size tables, with fixed and growable
\* arenas.  A compilation stops when it is closed or has failed.
CONSTANTS
  l1 = l1
  l2 = l2
  NoLabel = NoLabel
  Labels <- MCLabels
  Ops <- MCOps
  BranchOps <- MCBranchOps
  ArenaSizes <- MCArenaSizes
  MaxInsns <- MCMaxInsns
  BigEndian = FALSE
SYMMETRY MCSymmetry
SPECIFICATION Spec
CHECK_DEADLOCK FALSE
INVARIANT InstrMaxBound

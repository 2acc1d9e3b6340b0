----------------------------- MODULE MCFdTable -----------------------------
(* FdTable with four descriptors, three ports and two opened files.      *)
EXTENDS FdTable, TLC

CONSTANTS p1, p2, p3

MCPorts == {p1, p2, p3}
MCMaxFd == 4
MCMaxOpens == 2

\* A read-only open, and write-only and read-write opens with O_APPEND or
\* O_CREAT: every access mode, and both flags that flags_to_mode tests.
MCFlags == {O_RDONLY, O_WRONLY | O_APPEND, O_RDWR | O_APPEND, O_RDWR | O_CREAT}

\* The same, and a read-only open with O_APPEND.
MCFlagsAppend == MCFlags \cup {O_RDONLY | O_APPEND}
MCSymmetry == Permutations(MCPorts)
=============================================================================

---------------------------- MODULE MCDirStream ----------------------------
(* DirStream with two streams over a directory of three entries.           *)
EXTENDS DirStream, TLC

CONSTANTS t1, t2, s1, s2

MCOne == {t1}
MCTwo == {t1, t2}
MCStreams == {s1, s2}
MCNEntries == 3
MCSymmetry == Permutations(MCStreams) \cup Permutations(MCTwo)
=============================================================================

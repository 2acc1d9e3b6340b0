---------------------------- MODULE MCLightening ----------------------------
EXTENDS Lightening, TLC

CONSTANTS l1, l2

MCLabels == {l1, l2}

(* prolog and epilog are the largest rows; ldxr_l is missing (0) on 32-bit *)
(* s390; beqi and jmpi are a conditional and an unconditional branch.      *)
MCOps == {"prolog", "addi", "ldxr_l"}

MCBranchOps == {"beqi", "jmpi"}

(* A zero-sized arena, and one that a prolog fills.                        *)
MCArenaSizes == {0, 64}

MCMaxInsns == 4

MCSymmetry == Permutations(MCLabels)
=============================================================================

----------------------------- MODULE MCDynStack -----------------------------
(***************************************************************************)
(* Model-checking instances of DynStack.  Each cfg picks which kinds of    *)
(* entries its callers push: one fluid with two values, one prompt tag,    *)
(* one dynamic-wind thunk pair and one winder datum, so that equal entries *)
(* pushed twice compare equal as same_entries sees them.                   *)
(***************************************************************************)
EXTENDS DynStack, TLC

CONSTANTS f1, v1, v2, k1, t1, d1, d2, dflt

MCFluids == {f1}
MCValues == {v1, v2}
MCKeys   == {k1}
MCThunks == {t1}
MCData   == {d1, d2}
MCNone   == {}

\* Every table of the one fluid: with-dynamic-state may be given a state
\* that agrees with the current one, one that does not, or one that does
\* not bind the fluid at all.
MCStates == [MCFluids -> MCValues \cup {Unbound}]

MCAnyFlag  == BOOLEAN
MCFlagOff  == {FALSE}

\* The thread starts with only the bottom header allocated, so that the
\* first push takes the "capacity < 4" branch of dynstack_ensure_space and
\* later ones the doubling branch.
MCInitCapacity == 2

\* Three entries hold a frame, a binding and a prompt at once; two boxes let
\* a captured binding coexist with a new one; one continuation of each kind
\* is enough to capture, leave and reinstate a context.
MCMaxBoxes == 2
MCOneBox   == 1
MCMaxDepth == 3
MCMaxConts == 1
MCNoConts  == 0
MCOneStateBox == 1
MCNoStateBoxes == 0

MCSymmetry == Permutations(MCValues)
=============================================================================

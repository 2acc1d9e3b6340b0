----------------------------- MODULE MCOptions -----------------------------
(***************************************************************************)
(* Model-checking instance of Options: a group with one option of each     *)
(* type, the naturals 0 and 1 and one other object as values, and one      *)
(* symbol that names no option.                                            *)
(***************************************************************************)
EXTENDS Options

CONSTANTS b, n, s, x, u, t1, t2

MCTable   == <<b, n, s>>
MCType    == [o \in {b, n, s} |-> IF o = b THEN "boolean" ELSE IF o = n THEN "integer" ELSE "scm"]
MCValues  == {0, 1, x}
\* Two threads need only a boolean and an integer option to lose an update.
MCTableRace  == <<b, n>>
MCTypeRace   == [o \in {b, n} |-> IF o = b THEN "boolean" ELSE "integer"]
MCValuesRace == {0, 1}

MCOne     == {t1}
MCTwo     == {t1, t2}
=============================================================================

---------------------------- MODULE OptionsSpec ----------------------------
(***************************************************************************)
(* What an options interface procedure promises, from the comments of      *)
(* libguile/options.c: an "option setting" is a list of symbols and of     *)
(* symbols followed by a value; a boolean option is true exactly when its  *)
(* symbol is present; a call with a setting alters the options according  *)
(* to it, and only if the whole list was processed successfully; with      *)
(* dry_run nothing changes.  Each call takes effect at one instant.        *)
(***************************************************************************)
EXTENDS Integers, Sequences

CONSTANTS
  Names,     \* the option symbols of one group
  Type,      \* Type[n]: "boolean", "integer" or "scm"
  Values,    \* the values an option may be given
  Threads,   \* threads calling the options interface procedure
  None       \* no call in progress

VARIABLES
  opts,      \* opts[n]: the value of option n (1/0 for booleans)
  req        \* req[t]: t's call in progress, [set |-> setting, dry |-> flag], or None

vars == <<opts, req>>

(* A well-formed setting: every non-boolean symbol is followed by a value, *)
(* a natural number for an integer option.                                 *)
RECURSIVE WellFormed(_)
WellFormed(s) ==
  \/ s = <<>>
  \/ /\ Head(s) \in Names
     /\ IF Type[Head(s)] = "boolean" THEN WellFormed(Tail(s))
        ELSE /\ Len(s) >= 2
             /\ Type[Head(s)] = "integer" => s[2] \in Nat
             /\ WellFormed(Tail(Tail(s)))

(* The (symbol, value) pairs of a well-formed setting, in order.           *)
RECURSIVE Pairs(_)
Pairs(s) ==
  IF s = <<>> THEN <<>>
  ELSE IF Type[Head(s)] = "boolean"
       THEN <<[name |-> Head(s), value |-> 1]>> \o Pairs(Tail(s))
       ELSE <<[name |-> Head(s), value |-> s[2]]>> \o Pairs(Tail(Tail(s)))

(* The options a well-formed setting s describes, starting from o: absent  *)
(* booleans are false, absent other options keep their value, and a later  *)
(* occurrence of a symbol overrides an earlier one.                        *)
Meaning(s, o) ==
  LET ps == Pairs(s)
      at(n) == {i \in DOMAIN ps : ps[i].name = n}
      last(n) == CHOOSE i \in at(n) : \A j \in at(n) : j <= i
  IN [n \in Names |->
        IF at(n) /= {} THEN ps[last(n)].value
        ELSE IF Type[n] = "boolean" THEN 0 ELSE o[n]]

Init ==
  /\ opts \in [Names -> Values]
  /\ req = [t \in Threads |-> None]

(* A call starts with some setting (a list of symbols and values).         *)
Begin(t) ==
  /\ req[t] = None
  /\ req' \in [Threads -> {None} \cup [set : Seq(Names \cup Values), dry : BOOLEAN]]
  /\ req'[t] /= None
  /\ \A u \in Threads \ {t} : req'[u] = req[u]
  /\ UNCHANGED opts

(* The call takes effect: all of the setting, or (malformed, or dry run)   *)
(* nothing.                                                                *)
Finish(t) ==
  /\ req[t] /= None
  /\ opts' = IF WellFormed(req[t].set) /\ ~req[t].dry
             THEN Meaning(req[t].set, opts) ELSE opts
  /\ req' = [req EXCEPT ![t] = None]

Next == \E t \in Threads : Begin(t) \/ Finish(t)

Spec == Init /\ [][Next]_vars
=============================================================================

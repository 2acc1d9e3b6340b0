------------------------------ MODULE Options ------------------------------
(***************************************************************************)
(* scm_options_try and change_option_setting, libguile/options.c: the     *)
(* options array of one group, shared by every thread, and the calls that  *)
(* set it.  A call copies the current values into new_vals (booleans       *)
(* cleared), walks the argument list one symbol (and value) at a time, and *)
(* only when the whole list was processed copies new_vals back, unless     *)
(* dry_run.  Nothing serialises calls of different threads.                *)
(***************************************************************************)
EXTENDS Integers, Sequences, SequencesExt

CONSTANTS
  Table,     \* the options array: the option symbols, in order
  Type,      \* Type[n]: SCM_OPTION_BOOLEAN, _INTEGER or _SCM, as strings
  Values,    \* the values a caller may pass (naturals and other objects)
  Threads,   \* threads calling the options interface procedure
  Unknown,   \* a symbol that names no option
  MaxArgs,   \* bound: length of an argument list
  None

ASSUME /\ IsInjective(Table)
       /\ Type \in [ToSet(Table) -> {"boolean", "integer", "scm"}]
       /\ Unknown \notin ToSet(Table) /\ MaxArgs \in Nat /\ {0, 1} \subseteq Values

VARIABLES
  val,       \* val[n]: options[i].val of the option named n
  pc,        \* pc[t]: "idle" or "parse" (inside change_option_setting)
  setting,   \* setting[t]: the argument list t's call was given
  args,      \* args[t]: the part of it not yet processed
  newv,      \* newv[t]: t's new_vals
  dry        \* dry[t]: the dry_run flag of t's call

vars == <<val, pc, setting, args, newv, dry>>

Names == ToSet(Table)

Tokens == Names \cup {Unknown} \cup Values

(* Argument lists callers may pass: proper lists of symbols and values.    *)
ArgLists == UNION {[1..k -> Tokens] : k \in 0..MaxArgs}

(* Faulty variant: lists every boolean, set or not.                        *)
Setting_allbools(o) ==
  FoldLeft(LAMBDA ls, n : IF Type[n] = "boolean" THEN <<n>> \o ls ELSE <<n, o[n]>> \o ls,
           <<>>, Table)

(* get_option_setting: walking the array, cons each boolean that is set,  *)
(* and each other option's value and then its symbol, onto the list.       *)
Setting(o) ==
  FoldLeft(LAMBDA ls, n : IF Type[n] = "boolean"
                          THEN IF o[n] /= 0 THEN <<n>> \o ls ELSE ls
                          ELSE <<n, o[n]>> \o ls,
           <<>>, Table)

Init ==
  /\ val \in [Names -> Values]
  /\ \A o \in Names : /\ Type[o] = "boolean" => val[o] \in {0, 1}
                      /\ Type[o] = "integer" => val[o] \in Nat
  /\ pc = [t \in Threads |-> "idle"]
  /\ setting = [t \in Threads |-> <<>>]
  /\ args = [t \in Threads |-> <<>>]
  /\ newv = [t \in Threads |-> val]
  /\ dry = [t \in Threads |-> FALSE]

(* Faulty variant: new_vals copies booleans too instead of clearing them.  *)
Call_keepbool(t, a, d) ==
  /\ pc[t] = "idle"
  /\ pc' = [pc EXCEPT ![t] = "parse"]
  /\ setting' = [setting EXCEPT ![t] = a]
  /\ args' = [args EXCEPT ![t] = a]
  /\ newv' = [newv EXCEPT ![t] = val]
  /\ dry' = [dry EXCEPT ![t] = d]
  /\ UNCHANGED val

(* scm_options_try with a list: old_setting = get_option_setting (its      *)
(* value is returned to the caller), then change_option_setting starts:    *)
(* new_vals holds 0 for booleans and the current value of the others.      *)
Call(t, a, d) ==
  /\ pc[t] = "idle"
  /\ pc' = [pc EXCEPT ![t] = "parse"]
  /\ setting' = [setting EXCEPT ![t] = a]
  /\ args' = [args EXCEPT ![t] = a]
  /\ newv' = [newv EXCEPT ![t] = [n \in Names |-> IF Type[n] = "boolean" THEN 0 ELSE val[n]]]
  /\ dry' = [dry EXCEPT ![t] = d]
  /\ UNCHANGED val

(* The error exits of the loop: scm_misc_error on an unknown symbol,       *)
(* scm_car on the end of the list, scm_to_size_t on a non-natural.  The    *)
(* options are left alone.                                                 *)
Raise(t) ==
  /\ pc' = [pc EXCEPT ![t] = "idle"]
  /\ UNCHANGED <<val, setting, args, newv, dry>>

(* Faulty variant: stores an integer option's value without scm_to_size_t. *)
ParseArg_nocheck(t) ==
  LET a == args[t]
      n == Head(a)
  IN /\ pc[t] = "parse" /\ a /= <<>>
     /\ CASE n \notin Names -> Raise(t)
          [] Type[n] = "boolean" ->
               /\ newv' = [newv EXCEPT ![t][n] = 1]
               /\ args' = [args EXCEPT ![t] = Tail(a)]
               /\ UNCHANGED <<val, pc, setting, dry>>
          [] Len(a) < 2 -> Raise(t)
          [] OTHER ->
               /\ newv' = [newv EXCEPT ![t][n] = a[2]]
               /\ args' = [args EXCEPT ![t] = Tail(Tail(a))]
               /\ UNCHANGED <<val, pc, setting, dry>>

(* One round of the while loop: find the option named by the head of args *)
(* and store 1, or the value after it, in new_vals.                        *)
ParseArg(t) ==
  LET a == args[t]
      n == Head(a)
  IN /\ pc[t] = "parse" /\ a /= <<>>
     /\ CASE n \notin Names -> Raise(t)
          [] Type[n] = "boolean" ->
               /\ newv' = [newv EXCEPT ![t][n] = 1]
               /\ args' = [args EXCEPT ![t] = Tail(a)]
               /\ UNCHANGED <<val, pc, setting, dry>>
          [] Len(a) < 2 \/ (Type[n] = "integer" /\ a[2] \notin Nat) -> Raise(t)
          [] OTHER ->
               /\ newv' = [newv EXCEPT ![t][n] = a[2]]
               /\ args' = [args EXCEPT ![t] = Tail(Tail(a))]
               /\ UNCHANGED <<val, pc, setting, dry>>

(* The end of the list: unless dry_run, copy new_vals into the options.    *)
Commit(t) ==
  /\ pc[t] = "parse" /\ args[t] = <<>>
  /\ val' = IF dry[t] THEN val ELSE newv[t]
  /\ pc' = [pc EXCEPT ![t] = "idle"]
  /\ UNCHANGED <<setting, args, newv, dry>>

Next ==
  \E t \in Threads :
    \/ \E a \in ArgLists, d \in BOOLEAN : Call(t, a, d)
    \/ ParseArg(t)
    \/ Commit(t)

Spec == Init /\ [][Next]_vars

-----------------------------------------------------------------------------
(* Properties.                                                             *)

(* Each option holds a value of its type: 0 or 1, a natural, any object.  *)
OfType(o, v) ==
  CASE Type[o] = "boolean" -> v \in {0, 1}
    [] Type[o] = "integer" -> v \in Nat
    [] OTHER               -> v \in Tokens

TypeOK ==
  /\ val \in [Names -> Tokens] /\ \A o \in Names : OfType(o, val[o])
  /\ pc \in [Threads -> {"idle", "parse"}]
  /\ setting \in [Threads -> ArgLists] /\ args \in [Threads -> ArgLists]
  /\ newv \in [Threads -> [Names -> Tokens]]
  /\ dry \in [Threads -> BOOLEAN]

OS == INSTANCE OptionsSpec WITH
        opts <- val,
        req <- [t \in Threads |->
                  IF pc[t] = "idle" THEN None
                  ELSE [set |-> setting[t], dry |-> dry[t]]],
        Values <- Tokens

(* change_option_setting keeps the promise of the comments of options.c:   *)
(* each call alters the options at one instant exactly as its setting      *)
(* says, and a malformed setting or a dry run alters nothing.              *)
OptionsAtomic == OS!Spec

(* The old setting a call returns restores the options when passed back:   *)
(* get_option_setting lists every set boolean and every other option with  *)
(* its value, in a form change_option_setting accepts.                     *)
SettingRoundTrip ==
  /\ OS!WellFormed(Setting(val))
  /\ \A o \in {val, [n \in Names |-> 0]} : OS!Meaning(Setting(val), o) = val
=============================================================================

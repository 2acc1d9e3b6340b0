----------------------------- MODULE FluidScope -----------------------------
(***************************************************************************)
(* What a with-fluid binding promises, stated as "deep binding": every     *)
(* binding established by with-fluids is a heap cell of its own, the value *)
(* of a fluid is the cell of its innermost binding on the dynamic stack    *)
(* (or the thread's base cell when it has none), fluid-set! writes that    *)
(* cell, and nothing else (unwinding, rewinding, capturing or reinstating  *)
(* continuations) ever changes a cell.  This is the promise of the comment *)
(* at libguile/dynstack.c:177-179: "all continuations that capture this    *)
(* dynamic scope capture the same binding".                                *)
(*                                                                         *)
(* with-dynamic-state opens an extent with a fluid table of its own: its  *)
(* base values start as the state it was given, fluid-set! of a fluid not  *)
(* bound inside the extent writes that table, and bindings outside it are *)
(* invisible until it is left.  Leaving and re-entering the extent (by a   *)
(* continuation) finds the table as it was left.                           *)
(*                                                                         *)
(* A table may leave a fluid unbound (a state captured before the fluid    *)
(* was first used there); reading it then gives the fluid's default, and  *)
(* a binding of the fluid in the extent (with-fluids, or a rewind of one)  *)
(* establishes it in the table at its default.                             *)
(*                                                                         *)
(* The dynamic stack is a sequence of entry records; only the entries of   *)
(* type "fluid" (fields fluid and box) and "state" (field sbox) matter     *)
(* here, every other entry is opaque.                                      *)
(***************************************************************************)
EXTENDS Integers, Sequences, SequencesExt, FiniteSets

CONSTANTS
  Fluids,   \* the fluids
  Values,   \* the values a fluid may hold
  Boxes,    \* the heap cells that with-fluids may allocate
  SBoxes,   \* the fluid tables that with-dynamic-state may allocate
  NoVal,    \* the content of a cell not yet allocated
  Unbound,  \* a table's entry for a fluid it does not bind
  Default   \* the value of a fluid that its table does not bind

VARIABLES
  stack,    \* the dynamic stack, bottom first
  cell,     \* cell[b]: the value held by binding cell b
  global,   \* global[f]: the base cell of f, used outside every binding
  scell     \* scell[s]: the base table of dynamic-state extent s

vars == <<stack, cell, global, scell>>

IsBinding(e, f) == e.type = "fluid" /\ e.fluid = f

IsState(e) == e.type = "state"

(* The value of f on stack s: the cell of its innermost binding inside the *)
(* innermost dynamic-state extent, else that extent's table, else the     *)
(* base cell.                                                              *)
ValueIn(s, f) ==
  LET x == SelectLastInSeq(s, IsState)
      b == SelectLastInSeq(s, LAMBDA e : IsBinding(e, f))
  IN IF b > x THEN cell[s[b].box]
     ELSE IF x = 0 THEN global[f] ELSE scell[s[x].sbox][f]

(* A value read as the program sees it: an unbound entry is the default. *)
Read(v, dflt) == IF v = Unbound THEN dflt ELSE v

(* Position i of s counts as an assignment of f: a binding of f, or the    *)
(* entry of an extent whose enclosing table has f bound.                   *)
Assigns(s, i, f) ==
  \/ IsBinding(s[i], f)
  \/ IsState(s[i]) /\ ValueIn(SubSeq(s, 1, i - 1), f) /= Unbound

(* What fluid-ref* (f, d + 1) answers: the value f had outside the         *)
(* (d + 1)-th innermost of its assignments by a binding or by the table    *)
(* of an enclosing extent, or the default dflt when there are not that     *)
(* many.                                                                   *)
RECURSIVE OldValueIn(_, _, _, _)
OldValueIn(s, f, d, dflt) ==
  LET at == {i \in DOMAIN s : Assigns(s, i, f)}
      p == IF at = {} THEN 0 ELSE Max(at)
      below == SubSeq(s, 1, p - 1)
  IN IF p = 0 THEN dflt
     ELSE IF d = 0 THEN Read(ValueIn(below, f), dflt)
     ELSE OldValueIn(below, f, d - 1, dflt)

OldValue(f, d, dflt) == OldValueIn(stack, f, d, dflt)

Init ==
  /\ stack = <<>>
  /\ cell = [b \in Boxes |-> NoVal]
  /\ global \in [Fluids -> Values \cup {Unbound}]
  /\ scell = [x \in SBoxes |-> NoVal]

(* fluid-set!: writes the cell that ValueIn (stack, f) reads.             *)
SetFluid(f, v) ==
  LET x == SelectLastInSeq(stack, IsState)
      b == SelectLastInSeq(stack, LAMBDA e : IsBinding(e, f))
  IN /\ CASE b > x  -> cell' = [cell EXCEPT ![stack[b].box] = v] /\ UNCHANGED <<global, scell>>
          [] x = 0  -> global' = [global EXCEPT ![f] = v] /\ UNCHANGED <<cell, scell>>
          [] OTHER  -> scell' = [scell EXCEPT ![stack[x].sbox][f] = v] /\ UNCHANGED <<cell, global>>
     /\ UNCHANGED stack

(* The table of the innermost extent with f established at its default.   *)
Establish(f) ==
  LET x == SelectLastInSeq(stack, IsState)
  IN IF x = 0 THEN /\ global' = [global EXCEPT ![f] = Read(@, Default)]
                   /\ UNCHANGED scell
     ELSE /\ scell' = [scell EXCEPT ![stack[x].sbox][f] = Read(@, Default)]
          /\ UNCHANGED global

(* with-fluids: a fresh cell holding v, bound on top of the stack; the     *)
(* extent's table now has f.                                               *)
Bind(f, v) ==
  \E b \in Boxes :
    /\ cell[b] = NoVal
    /\ cell' = [cell EXCEPT ![b] = v]
    /\ stack' = Append(stack, [type |-> "fluid", fluid |-> f, box |-> b])
    /\ Establish(f)

(* with-dynamic-state: a fresh table holding the state t, entered on top   *)
(* of the stack.                                                           *)
EnterState(t) ==
  \E x \in SBoxes :
    /\ scell[x] = NoVal
    /\ scell' = [scell EXCEPT ![x] = t]
    /\ stack' = Append(stack, [type |-> "state", sbox |-> x])
    /\ UNCHANGED <<cell, global>>

(* The tables a rewind may establish f in: those of the extents on the    *)
(* new stack s that hold a binding of f (0 stands for the base table).     *)
ExtentsBinding(s, f) ==
  {SelectLastInSeq(SubSeq(s, 1, i), IsState) : i \in {j \in DOMAIN s : IsBinding(s[j], f)}}

(* t2 is t1 with some of the fluids in fs established at their default.   *)
EstablishedFrom(t1, t2, fs) ==
  \A f \in Fluids : t2[f] = t1[f] \/ (f \in fs /\ t1[f] = Unbound /\ t2[f] = Default)

(* Any other change of the stack: pops, unwinds, rewinds.  Every binding   *)
(* and extent on the new stack is an existing cell or table, and no cell   *)
(* changes; a table changes only by establishing a fluid that a rewound    *)
(* binding on the new stack binds in its extent.                           *)
Restructure ==
  /\ \A i \in DOMAIN stack' :
       /\ stack'[i].type = "fluid" => cell[stack'[i].box] /= NoVal
       /\ IsState(stack'[i]) => scell[stack'[i].sbox] /= NoVal
  /\ EstablishedFrom(global, global', {f \in Fluids : 0 \in ExtentsBinding(stack', f)})
  /\ \A x \in SBoxes :
       \/ scell'[x] = scell[x]
       \/ \E i \in DOMAIN stack' :
            /\ IsState(stack'[i]) /\ stack'[i].sbox = x
            /\ scell[x] /= NoVal
            /\ EstablishedFrom(scell[x], scell'[x], {f \in Fluids : i \in ExtentsBinding(stack', f)})
  /\ UNCHANGED cell

Next ==
  \/ \E f \in Fluids, v \in Values : SetFluid(f, v)
  \/ \E f \in Fluids, v \in Values : Bind(f, v)
  \/ \E t \in [Fluids -> Values \cup {Unbound}] : EnterState(t)
  \/ Restructure

Spec == Init /\ [][Next]_vars
=============================================================================

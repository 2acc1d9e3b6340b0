----------------------------- MODULE Lightening -----------------------------
(***************************************************************************)
(* The lightening JIT core as spec.md describes it (sections 3, 4 and 7):  *)
(* a jit_state is opened on an arena, emits abstract instructions, binds   *)
(* labels and ends.  The lightening sources are not part of this tree; the *)
(* per-opcode worst-case sizes are the real tables of lib/jit_*-sz.c       *)
(* (module JitSizes), and the target is chosen once, at jit_begin.         *)
(*                                                                         *)
(* Emission reserves max_bytes (op) in the arena (growing it by doubling,  *)
(* or failing with OutOfSpace if it is caller-fixed), then writes an       *)
(* encoding of at most that many bytes.  A branch to an unbound label      *)
(* takes its worst-case form and a relocation; binding the label patches   *)
(* every relocation against it.  Positions are arena offsets.              *)
(***************************************************************************)
EXTENDS Integers, Sequences, JitSizes

CONSTANTS
  Ops,         \* straight-line opcodes the caller emits (names of OpNames)
  BranchOps,   \* branch opcodes with a label operand
  Labels,      \* labels of the function being compiled
  ArenaSizes,  \* sizes of the arena the caller may pass to jit_begin
  MaxInsns,    \* bound: instructions emitted in one compilation
  NoLabel

ASSUME /\ Ops \cup BranchOps \subseteq {OpNames[i] : i \in DOMAIN OpNames}
       /\ ArenaSizes \subseteq Nat /\ MaxInsns \in Nat

VARIABLES
  st,        \* the jit_state: "unopened", "open", "closed" or "failed"
  target,    \* the table variant selected at jit_begin
  growable,  \* the arena policy: may reserve reallocate?
  limit,     \* limit - base: the arena's capacity
  cursor,    \* cursor - base: offset () of the next byte
  lab,       \* lab[l]: the offset label l is bound to, or -1 (Unbound)
  code,      \* the instructions emitted: [op, site, label, disp]
  relocs     \* indices of the branches whose displacement is still pending

vars == <<st, target, growable, limit, cursor, lab, code, relocs>>

Unbound == -1

(* The capacity after growth: doubled until need fits.                     *)
RECURSIVE Grow(_, _)
Grow(c, need) == IF need <= c THEN c ELSE Grow(2 * c, need)

(* Lengths an encoding may have, given its worst case n.                   *)
EncLens(n) == {1, n}

Init ==
  /\ st = "unopened" /\ target \in Variants /\ growable \in BOOLEAN
  /\ limit \in ArenaSizes /\ cursor = 0
  /\ lab = [l \in Labels |-> Unbound] /\ code = <<>> /\ relocs = {}

(* jit_begin (j, arena_base, arena_size): fails on a zero-sized arena.     *)
Begin ==
  /\ st = "unopened"
  /\ st' = IF limit = 0 THEN "failed" ELSE "open"
  /\ UNCHANGED <<target, growable, limit, cursor, lab, code, relocs>>

(* reserve (n): OutOfSpace if cursor + n > limit in a fixed arena; a       *)
(* growable one doubles until the bytes fit.  Result: [ok, limit].         *)
Reserve(n) ==
  IF cursor + n > limit
  THEN IF growable THEN [ok |-> TRUE, limit |-> Grow(limit, cursor + n)]
       ELSE [ok |-> FALSE, limit |-> limit]
  ELSE [ok |-> TRUE, limit |-> limit]

(* Emission of an instruction of worst case n whose encoding takes one of  *)
(* lens bytes; a max_bytes of 0 marks an opcode the target lacks           *)
(* (UnsupportedOnTarget).  Every failure abandons the compilation.         *)
Fails(n) == n = 0 \/ ~Reserve(n).ok

Write(n, lens, rec) ==
  IF Fails(n)
  THEN st' = "failed" /\ UNCHANGED <<limit, cursor, code>>
  ELSE /\ limit' = Reserve(n).limit
       /\ \E e \in lens : cursor' = cursor + e
       /\ code' = Append(code, rec)
       /\ UNCHANGED st

(* emit (op, operands): valid only while open.                             *)
Emit(op) ==
  /\ st = "open" /\ Len(code) < MaxInsns
  /\ Write(MaxBytes(target, op), EncLens(MaxBytes(target, op)),
           [op |-> op, site |-> cursor, label |-> NoLabel, disp |-> 0])
  /\ UNCHANGED <<target, growable, lab, relocs>>

(* A branch to l: if l is bound the displacement is known now; otherwise   *)
(* the worst-case form is written and a relocation recorded.               *)
Branch(op, l) ==
  /\ st = "open" /\ Len(code) < MaxInsns
  /\ LET n == MaxBytes(target, op)
         bound == lab[l] /= Unbound
     IN /\ Write(n, IF bound THEN EncLens(n) ELSE {n},
                 [op |-> op, site |-> cursor, label |-> l,
                  disp |-> IF bound THEN lab[l] - cursor ELSE 0])
        /\ relocs' = IF bound \/ Fails(n) THEN relocs ELSE relocs \cup {Len(code) + 1}
  /\ UNCHANGED <<target, growable, lab>>

(* bind (l): Unbound -> Bound at the current offset, patching every        *)
(* relocation registered against l in one pass.                            *)
Bind(l) ==
  /\ st = "open" /\ lab[l] = Unbound
  /\ lab' = [lab EXCEPT ![l] = cursor]
  /\ LET mine == {i \in relocs : code[i].label = l}
     IN /\ code' = [i \in DOMAIN code |->
                      IF i \in mine THEN [code[i] EXCEPT !.disp = cursor - code[i].site]
                      ELSE code[i]]
        /\ relocs' = relocs \ mine
  /\ UNCHANGED <<st, target, growable, limit, cursor>>

(* end (): Open -> Closed, the code handed over; a pending relocation is   *)
(* UnboundLabelAtFinalize, and nothing is handed over.                     *)
End ==
  /\ st = "open"
  /\ st' = IF relocs = {} THEN "closed" ELSE "failed"
  /\ UNCHANGED <<target, growable, limit, cursor, lab, code, relocs>>

Next ==
  \/ Begin \/ End
  \/ \E op \in Ops : Emit(op)
  \/ \E op \in BranchOps, l \in Labels : Branch(op, l)
  \/ \E l \in Labels : Bind(l)

Spec == Init /\ [][Next]_vars

-----------------------------------------------------------------------------
(* Properties.                                                             *)

(* The bytes each instruction took, up to the next one or the cursor.      *)
Written(i) == (IF i < Len(code) THEN code[i + 1].site ELSE cursor) - code[i].site

(* Size-bound: no instruction emitted takes more than its max_bytes, and   *)
(* the selected target's published worst cases never exceed its           *)
(* JIT_INSTR_MAX, so reserving JIT_INSTR_MAX before any instruction is     *)
(* always enough.  The table, fixed for the session, is checked in the     *)
(* states before the first emission, for every target.                     *)
InstrMaxBound ==
  /\ code = <<>> =>
       \A i \in DOMAIN SizeTable(target) : SizeTable(target)[i] <= JIT_INSTR_MAX[target]
  /\ \A i \in DOMAIN code : Written(i) <= MaxBytes(target, code[i].op)
=============================================================================

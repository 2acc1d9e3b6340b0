------------------------------ MODULE DynStack ------------------------------
(***************************************************************************)
(* The per-thread dynamic stack of libguile/dynstack.c: the stack of       *)
(* frames, winders, fluid bindings, prompts and dynamic-wind entries that  *)
(* non-local exits unwind and continuations capture and rewind, and the    *)
(* dynamic-state entries of with-dynamic-state.                            *)
(*                                                                         *)
(* An entry is a record; its "type" is the SCM_DYNSTACK_TYPE_* of its tag  *)
(* and its other fields are the words stored after the tag.  Two entries   *)
(* are the same entry exactly when tag and words are equal, as             *)
(* same_entries compares them.  The words of the C layout are kept as the  *)
(* height and capacity counted in scm_t_bits, which is what                *)
(* dynstack_ensure_space computes with.  Procedures the stack calls out to *)
(* (dynwind enter/leave thunks, with-fluid swaps, and                      *)
(* scm_set_current_dynamic_state, which installs a state's fluid table and *)
(* returns a copy of the one it replaces) are modelled by their effect on  *)
(* the fluid values and on a count of entered extents; winder procedures   *)
(* and the VM registers in prompts are abstracted away.                    *)
(***************************************************************************)
EXTENDS Integers, Sequences, SequencesExt, FiniteSets

CONSTANTS
  Fluids,        \* fluids that with-fluids may bind
  Values,        \* values a fluid may hold
  States,        \* dynamic states (fluid tables) with-dynamic-state may be given
  FluidDefault,  \* SCM_I_FLUID_DEFAULT: what a fluid a table does not bind reads as
  Unbound,       \* a table's entry for a fluid it does not bind (SCM_UNDEFINED)
  Keys,          \* prompt tags
  Thunks,        \* the (enter, leave) thunk pairs of dynamic-wind
  Data,          \* the data pointers of winders
  FrameFlags,    \* the SCM_F_DYNSTACK_FRAME_REWINDABLE settings callers use
  WinderFlags,   \* the SCM_F_DYNSTACK_WINDER_EXPLICIT settings callers use
  PromptFlags,   \* the SCM_F_DYNSTACK_PROMPT_ESCAPE_ONLY settings callers use
  NoVal,         \* content of a heap box not yet allocated
  InitCapacity,  \* words allocated to the thread's dynstack at start
  MaxBoxes,      \* bound: with-fluid value boxes allocated in a run
  MaxStateBoxes, \* bound: with-dynamic-state state boxes allocated in a run
  MaxDepth,      \* bound: entries on the dynamic stack
  MaxFullConts,  \* bound: full continuations kept for reinstating
  MaxPartConts,  \* bound: delimited continuations kept for reinstating
  AllowReentry   \* may a delimited continuation be reinstated inside itself?

ASSUME /\ InitCapacity \in Nat /\ InitCapacity >= 2
       /\ MaxBoxes \in Nat /\ MaxStateBoxes \in Nat /\ MaxDepth \in Nat
       /\ States \subseteq [Fluids -> Values \cup {Unbound}]
       /\ MaxFullConts \in Nat /\ MaxPartConts \in Nat
       /\ AllowReentry \in BOOLEAN
       /\ FrameFlags \subseteq BOOLEAN /\ WinderFlags \subseteq BOOLEAN
       /\ PromptFlags \subseteq BOOLEAN

VARIABLES
  stack,    \* the live entries, bottom first
  cap,      \* SCM_DYNSTACK_CAPACITY: limit - base, in words
  fluids,   \* the current value of each fluid in the thread's dynamic state
  fbox,     \* fbox[b]: the heap variable made by scm_make_variable for a with-fluid
  sbox,     \* sbox[x]: the heap variable holding a with-dynamic-state's other table
  wc,       \* wc[t]: calls of t's enter thunk minus calls of its leave thunk
  runs,     \* runs[d]: calls of the unwinder procedure on d, for d in onceData
  usedData, \* data a winder has been pushed with (each datum is pushed once)
  onceData, \* data whose unwinder was pushed inside a non-rewindable frame
  conts,    \* dynstacks captured by scm_dynstack_capture_all
  pconts,   \* dynstacks captured from a prompt by abort-to-prompt
  raising   \* a wind failed and the error is propagating

vars == <<stack, cap, fluids, fbox, sbox, wc, runs, usedData, onceData, conts, pconts, raising>>

Boxes == 1..MaxBoxes

SBoxes == 1..MaxStateBoxes

-----------------------------------------------------------------------------
(* Entries and their sizes (dynstack.c:46-69 and dynstack.h).              *)

SCM_DYNSTACK_HEADER_LEN == 2

FrameE(rw)         == [type |-> "frame", rewindable |-> rw]
WinderE(t, ex, d)  == [type |-> t, explicit |-> ex, data |-> d]
FluidE(f, b)       == [type |-> "fluid", fluid |-> f, box |-> b]
PromptE(k, esc)    == [type |-> "prompt", key |-> k, escapeOnly |-> esc]
DynwindE(t)        == [type |-> "dynwind", thunks |-> t]
DynStateE(x)       == [type |-> "state", sbox |-> x]

Entries ==
  {FrameE(rw) : rw \in BOOLEAN}
  \cup {WinderE(t, ex, d) : t \in {"unwinder", "rewinder"}, ex \in BOOLEAN, d \in Data}
  \cup {FluidE(f, b) : f \in Fluids, b \in Boxes}
  \cup {PromptE(k, esc) : k \in Keys, esc \in BOOLEAN}
  \cup {DynwindE(t) : t \in Thunks}
  \cup {DynStateE(x) : x \in SBoxes}

(* Words after the tag: PROMPT_WORDS, WINDER_WORDS, WITH_FLUID_WORDS, ...  *)
EntryLen(e) ==
  [frame |-> 0, unwinder |-> 2, rewinder |-> 2, fluid |-> 2,
   prompt |-> 6, dynwind |-> 2, state |-> 1][e.type]

(* SCM_DYNSTACK_HEIGHT: top - base.  The first entry starts one header     *)
(* above base, and every entry takes a header and its words.               *)
Height(s) ==
  FoldLeft(LAMBDA h, e : h + SCM_DYNSTACK_HEADER_LEN + EntryLen(e),
           SCM_DYNSTACK_HEADER_LEN, s)

-----------------------------------------------------------------------------
(* The stack operations, as functions of a machine record m with fields    *)
(* stack, cap, fluids, fbox, sbox, wc, runs and failed.                    *)

(* dynstack_ensure_space: the capacity after making room for n words.     *)
RECURSIVE GrowCapacity(_, _)
GrowCapacity(c, need) ==
  IF c < need THEN GrowCapacity(IF c < 4 THEN 8 ELSE c * 2, need) ELSE c

(* Faulty variant: forgets the header of the new top in n.               *)
dynstack_ensure_space_noheader(c, height, n) == GrowCapacity(c, height + n)

dynstack_ensure_space(c, height, n) ==
  GrowCapacity(c, height + n + SCM_DYNSTACK_HEADER_LEN)

(* push_dynstack_entry: grow unless SCM_DYNSTACK_HAS_SPACE, then push.     *)
push_dynstack_entry(m, e) ==
  LET h == Height(m.stack)
  IN [m EXCEPT
        !.cap = IF m.cap - h >= EntryLen(e) + SCM_DYNSTACK_HEADER_LEN
                THEN m.cap
                ELSE dynstack_ensure_space(m.cap, h, EntryLen(e)),
        !.stack = Append(m.stack, e)]

(* scm_swap_fluid as called on a with-fluid entry: exchange the fluid's    *)
(* current value with the content of the entry's box.  fluid_ref answers   *)
(* the fluid's default when the table does not bind it, and fluid_set_x    *)
(* binds it.                                                               *)
SwapFluid(m, e) ==
  [m EXCEPT !.fluids[e.fluid] = m.fbox[e.box],
            !.fbox[e.box] = IF m.fluids[e.fluid] = Unbound THEN FluidDefault
                            ELSE m.fluids[e.fluid]]

(* scm_variable_set_x (box, scm_set_current_dynamic_state (scm_variable_ref *)
(* (box))) on a dynamic-state entry: install the boxed table and box the   *)
(* one it replaces.                                                        *)
SwapState(m, e) ==
  [m EXCEPT !.fluids = m.sbox[e.sbox], !.sbox[e.sbox] = m.fluids]

(* Faulty variant: rewinds a frame whatever its REWINDABLE flag.          *)
wind_1_anyframe(m, e) ==
  push_dynstack_entry(
    CASE e.type = "fluid"   -> SwapFluid(m, e)
      [] e.type = "dynwind" -> [m EXCEPT !.wc[e.thunks] = @ + 1]
      [] e.type = "state"   -> SwapState(m, e)
      [] OTHER              -> m,
    e)

(* scm_dynstack_wind_1: run the entry's rewind effect, then push a copy.   *)
(* A frame that is not rewindable raises an error before anything is       *)
(* pushed.                                                                 *)
scm_dynstack_wind_1(m, e) ==
  IF e.type = "frame" /\ ~e.rewindable
  THEN [m EXCEPT !.failed = TRUE]
  ELSE push_dynstack_entry(
         CASE e.type = "fluid"   -> SwapFluid(m, e)
           [] e.type = "dynwind" -> [m EXCEPT !.wc[e.thunks] = @ + 1]
           [] e.type = "state"   -> SwapState(m, e)
           [] OTHER              -> m,
         e)

(* WINDER_PROC (words) (WINDER_DATA (words)) of an unwinder.              *)
RunUnwinder(m, e) ==
  IF e.data \in onceData THEN [m EXCEPT !.runs[e.data] = @ + 1] ELSE m

(* Faulty variants: unwind_1 without the leave call of a dynwind entry,   *)
(* and without the swap of a with-fluid entry.                             *)
unwind_1_noleave(m) ==
  LET e  == Last(m.stack)
      m1 == [m EXCEPT !.stack = Front(m.stack)]
  IN CASE e.type = "fluid"    -> SwapFluid(m1, e)
       [] e.type = "unwinder" -> RunUnwinder(m1, e)
       [] e.type = "state"    -> SwapState(m1, e)
       [] OTHER               -> m1

unwind_1_noswap(m) ==
  LET e  == Last(m.stack)
      m1 == [m EXCEPT !.stack = Front(m.stack)]
  IN CASE e.type = "dynwind"  -> [m1 EXCEPT !.wc[e.thunks] = @ - 1]
       [] e.type = "unwinder" -> RunUnwinder(m1, e)
       [] e.type = "state"    -> SwapState(m1, e)
       [] OTHER               -> m1

(* scm_dynstack_unwind_1: pop the top entry and run its unwind effect.     *)
scm_dynstack_unwind_1(m) ==
  LET e  == Last(m.stack)
      m1 == [m EXCEPT !.stack = Front(m.stack)]
  IN CASE e.type = "fluid"    -> SwapFluid(m1, e)
       [] e.type = "dynwind"  -> [m1 EXCEPT !.wc[e.thunks] = @ - 1]
       [] e.type = "unwinder" -> RunUnwinder(m1, e)
       [] e.type = "state"    -> SwapState(m1, e)
       [] OTHER               -> m1

(* scm_dynstack_wind: wind the entries of s in order, stopping at the      *)
(* first error.                                                            *)
RECURSIVE scm_dynstack_wind(_, _)
scm_dynstack_wind(m, s) ==
  IF s = <<>> \/ m.failed THEN m
  ELSE scm_dynstack_wind(scm_dynstack_wind_1(m, Head(s)), Tail(s))

(* scm_dynstack_unwind: unwind_1 while the stack is above n entries.       *)
RECURSIVE scm_dynstack_unwind(_, _)
scm_dynstack_unwind(m, n) ==
  IF Len(m.stack) > n THEN scm_dynstack_unwind(scm_dynstack_unwind_1(m), n)
  ELSE m

(* shared_prefix_length, counted in entries: the longest common prefix of  *)
(* two stacks under same_entries.                                          *)
shared_prefix_length(a, b) ==
  LET n == Min({Len(a), Len(b)})
  IN CHOOSE j \in 0..n :
       /\ \A i \in 1..j : a[i] = b[i]
       /\ (j = n \/ a[j + 1] /= b[j + 1])

(* scm_dynstack_find_prompt: position of the innermost prompt tagged k,    *)
(* or 0.                                                                   *)
scm_dynstack_find_prompt(s, k) ==
  LET at == {i \in DOMAIN s : s[i].type = "prompt" /\ s[i].key = k}
  IN IF at = {} THEN 0 ELSE Max(at)

(* Faulty variant: counts every dynamic-state entry, without the          *)
(* !SCM_UNBNDP test on its boxed table.                                    *)
RECURSIVE find_old_fluid_value_anystate(_, _, _, _)
find_old_fluid_value_anystate(i, fl, depth, dflt) ==
  IF i = 0 THEN dflt
  ELSE LET e == stack[i] IN
       CASE e.type = "fluid" /\ e.fluid = fl ->
              IF depth = 0 THEN fbox[e.box]
              ELSE find_old_fluid_value_anystate(i - 1, fl, depth - 1, dflt)
         [] e.type = "state" ->
              IF depth = 0 THEN sbox[e.sbox][fl]
              ELSE find_old_fluid_value_anystate(i - 1, fl, depth - 1, dflt)
         [] OTHER -> find_old_fluid_value_anystate(i - 1, fl, depth, dflt)

(* scm_dynstack_find_old_fluid_value, walking down from the entry at i: a  *)
(* with-fluid entry of fl counts one binding, and so does a dynamic-state  *)
(* entry whose boxed table binds fl (scm_dynamic_state_ref does not answer *)
(* SCM_UNDEFINED); the depth-th one answers with its box's value of fl.    *)
RECURSIVE scm_dynstack_find_old_fluid_value(_, _, _, _)
scm_dynstack_find_old_fluid_value(i, fl, depth, dflt) ==
  IF i = 0 THEN dflt
  ELSE LET e == stack[i] IN
       CASE e.type = "fluid" /\ e.fluid = fl ->
              IF depth = 0 THEN fbox[e.box]
              ELSE scm_dynstack_find_old_fluid_value(i - 1, fl, depth - 1, dflt)
         [] e.type = "state" /\ sbox[e.sbox][fl] /= Unbound ->
              IF depth = 0 THEN sbox[e.sbox][fl]
              ELSE scm_dynstack_find_old_fluid_value(i - 1, fl, depth - 1, dflt)
         [] OTHER -> scm_dynstack_find_old_fluid_value(i - 1, fl, depth, dflt)

(* scm_dynstack_unwind_frame: pop winders up to and including the          *)
(* innermost frame, running the unwinders flagged explicit.                *)
RECURSIVE scm_dynstack_unwind_frame(_)
scm_dynstack_unwind_frame(m) ==
  LET e  == Last(m.stack)
      m1 == [m EXCEPT !.stack = Front(m.stack)]
  IN IF e.type = "frame" THEN m1
     ELSE scm_dynstack_unwind_frame(
            IF e.type = "unwinder" /\ e.explicit THEN RunUnwinder(m1, e) ELSE m1)

-----------------------------------------------------------------------------
(* The thread's state as a machine record, and back.                       *)

Machine ==
  [stack |-> stack, cap |-> cap, fluids |-> fluids, fbox |-> fbox, sbox |-> sbox,
   wc |-> wc, runs |-> runs, failed |-> FALSE]

Install(m) ==
  /\ stack' = m.stack
  /\ cap' = m.cap
  /\ fluids' = m.fluids
  /\ fbox' = m.fbox
  /\ sbox' = m.sbox
  /\ wc' = m.wc
  /\ runs' = m.runs
  /\ raising' = m.failed

AllocatedBoxes == {b \in Boxes : fbox[b] /= NoVal}

Pushable == ~raising /\ Len(stack) < MaxDepth

(* Position of the innermost frame, 0 if none.                             *)
InnermostFrame == LET at == {i \in DOMAIN stack : stack[i].type = "frame"}
                  IN IF at = {} THEN 0 ELSE Max(at)

(* The dynwind discipline of the C callers: winders are pushed, and        *)
(* scm_dynwind_end called, only while everything above the innermost frame *)
(* was pushed by the same C extent, that is, is a winder.                  *)
InWindersOfFrame ==
  /\ InnermostFrame > 0
  /\ \A j \in InnermostFrame + 1..Len(stack) : stack[j].type \in {"unwinder", "rewinder"}

(* Winder pushes: a fresh datum, noted when the frame is not rewindable.   *)
PushWinder(t, ex, d) ==
  /\ Pushable
  /\ InWindersOfFrame
  /\ d \notin usedData
  /\ Install(push_dynstack_entry(Machine, WinderE(t, ex, d)))
  /\ usedData' = usedData \cup {d}
  /\ onceData' = IF stack[InnermostFrame].rewindable THEN onceData
                 ELSE onceData \cup {d}
  /\ UNCHANGED <<conts, pconts>>

(* scm_dynstack_pop: drop the top entry without running anything.          *)
scm_dynstack_pop(m) == [m EXCEPT !.stack = Front(m.stack)]

(* scm_dynstack_wind_prompt: push a prompt copied from a captured stack,   *)
(* its frame offsets rebased (the offsets are abstracted away).            *)
scm_dynstack_wind_prompt(m, e) == push_dynstack_entry(m, e)

(* Reinstating a delimited continuation winds its captured entries,        *)
(* prompts through scm_dynstack_wind_prompt and the rest through           *)
(* scm_dynstack_wind_1.                                                    *)
RECURSIVE ReinstatePrompted(_, _)
ReinstatePrompted(m, s) ==
  IF s = <<>> \/ m.failed THEN m
  ELSE ReinstatePrompted(IF Head(s).type = "prompt"
                         THEN scm_dynstack_wind_prompt(m, Head(s))
                         ELSE scm_dynstack_wind_1(m, Head(s)),
                         Tail(s))

-----------------------------------------------------------------------------
(* Actions: one per operation on the thread's dynamic stack.               *)

Init ==
  /\ stack = <<>>
  /\ cap = InitCapacity
  /\ fluids \in [Fluids -> Values \cup {Unbound}]
  /\ fbox = [b \in Boxes |-> NoVal]
  /\ sbox = [x \in SBoxes |-> NoVal]
  /\ wc = [t \in Thunks |-> 0]
  /\ runs = [d \in Data |-> 0]
  /\ usedData = {}
  /\ onceData = {}
  /\ conts = {}
  /\ pconts = {}
  /\ raising = FALSE

(* scm_dynstack_push_frame (scm_dynwind_begin).                            *)
PushFrame(rw) ==
  /\ Pushable
  /\ Install(push_dynstack_entry(Machine, FrameE(rw)))
  /\ UNCHANGED <<usedData, onceData, conts, pconts>>

(* scm_dynstack_push_rewinder.                                             *)
PushRewinder(ex, d) == PushWinder("rewinder", ex, d)

(* scm_dynstack_push_unwinder.                                             *)
PushUnwinder(ex, d) == PushWinder("unwinder", ex, d)

(* Faulty variant: swaps before the box is made, so the fluid takes the   *)
(* content of an unallocated box.                                          *)
PushFluidSwapFirst(f, v) ==
  /\ Pushable
  /\ AllocatedBoxes /= Boxes
  /\ LET b == CHOOSE x \in Boxes \ AllocatedBoxes : TRUE
     IN Install([SwapFluid(push_dynstack_entry(Machine, FluidE(f, b)), FluidE(f, b))
                 EXCEPT !.fbox[b] = v])
  /\ UNCHANGED <<usedData, onceData, conts, pconts>>

(* scm_dynstack_push_fluid: box the new value, push, then swap so that the *)
(* fluid holds the new value and the box the old one.                      *)
PushFluid(f, v) ==
  /\ Pushable
  /\ AllocatedBoxes /= Boxes
  /\ LET b  == CHOOSE x \in Boxes \ AllocatedBoxes : TRUE
         m1 == [Machine EXCEPT !.fbox[b] = v]
     IN Install(SwapFluid(push_dynstack_entry(m1, FluidE(f, b)), FluidE(f, b)))
  /\ UNCHANGED <<usedData, onceData, conts, pconts>>

(* scm_dynstack_push_prompt (call-with-prompt).                            *)
PushPrompt(k, esc) ==
  /\ Pushable
  /\ Install(push_dynstack_entry(Machine, PromptE(k, esc)))
  /\ UNCHANGED <<usedData, onceData, conts, pconts>>

(* dynamic-wind: the enter thunk runs, then scm_dynstack_push_dynwind.     *)
PushDynwind(t) ==
  /\ Pushable
  /\ Install(push_dynstack_entry([Machine EXCEPT !.wc[t] = @ + 1], DynwindE(t)))
  /\ UNCHANGED <<usedData, onceData, conts, pconts>>

(* scm_dynstack_push_dynamic_state (with-dynamic-state): box the table    *)
(* that scm_set_current_dynamic_state (t) replaces, then push the entry.   *)
PushDynamicState(t) ==
  /\ Pushable
  /\ \E x \in SBoxes : sbox[x] = NoVal
  /\ LET x  == CHOOSE y \in SBoxes : sbox[y] = NoVal
         m1 == [Machine EXCEPT !.fluids = t, !.sbox[x] = fluids]
     IN Install(push_dynstack_entry(m1, DynStateE(x)))
  /\ UNCHANGED <<usedData, onceData, conts, pconts>>

(* Normal exit from call-with-prompt: scm_dynstack_pop of the prompt.      *)
PopPrompt ==
  /\ ~raising
  /\ stack /= <<>> /\ Last(stack).type = "prompt"
  /\ Install(scm_dynstack_pop(Machine))
  /\ UNCHANGED <<usedData, onceData, conts, pconts>>

(* Normal exit from dynamic-wind: scm_dynstack_pop, then the leave thunk.  *)
PopDynwind ==
  /\ ~raising
  /\ stack /= <<>> /\ Last(stack).type = "dynwind"
  /\ LET t == Last(stack).thunks
     IN Install([scm_dynstack_pop(Machine) EXCEPT !.wc[t] = @ - 1])
  /\ UNCHANGED <<usedData, onceData, conts, pconts>>

(* scm_dynstack_unwind_fluid: normal exit from with-fluids.                *)
UnwindFluid ==
  /\ ~raising
  /\ stack /= <<>> /\ Last(stack).type = "fluid"
  /\ Install(SwapFluid(scm_dynstack_pop(Machine), Last(stack)))
  /\ UNCHANGED <<usedData, onceData, conts, pconts>>

(* scm_dynstack_unwind_dynamic_state: normal exit from with-dynamic-state. *)
UnwindDynamicState ==
  /\ ~raising
  /\ stack /= <<>> /\ Last(stack).type = "state"
  /\ Install(SwapState(scm_dynstack_pop(Machine), Last(stack)))
  /\ UNCHANGED <<usedData, onceData, conts, pconts>>

(* scm_dynstack_unwind_frame (scm_dynwind_end).  Its callers only leave    *)
(* winders above the frame; anything else is an abort() in the code.       *)
UnwindFrame ==
  /\ ~raising
  /\ InWindersOfFrame
  /\ Install(scm_dynstack_unwind_frame(Machine))
  /\ UNCHANGED <<usedData, onceData, conts, pconts>>

(* fluid-set!: the running code writes the current value of a fluid.      *)
SetFluid(f, v) ==
  /\ ~raising
  /\ fluids' = [fluids EXCEPT ![f] = v]
  /\ UNCHANGED <<stack, cap, fbox, sbox, wc, runs, usedData, onceData, conts, pconts, raising>>

(* call/cc: scm_dynstack_capture_all.                                      *)
CaptureAll ==
  /\ ~raising
  /\ Cardinality(conts) < MaxFullConts
  /\ stack \notin conts
  /\ conts' = conts \cup {stack}
  /\ UNCHANGED <<stack, cap, fluids, fbox, sbox, wc, runs, usedData, onceData, pconts, raising>>

(* Reinstating a full continuation: scm_dynstack_unwind_fork down to the   *)
(* shared prefix, then scm_dynstack_wind of the rest of the captured       *)
(* stack.                                                                  *)
ReinstateAll(k) ==
  /\ ~raising
  /\ LET j == shared_prefix_length(stack, k)
     IN Install(scm_dynstack_wind(scm_dynstack_unwind(Machine, j),
                                  SubSeq(k, j + 1, Len(k))))
  /\ UNCHANGED <<usedData, onceData, conts, pconts>>

(* abort-to-prompt: find the innermost prompt tagged k, capture the        *)
(* entries above it unless it is escape-only, and unwind it and them.      *)
AbortToPrompt(k) ==
  /\ ~raising
  /\ scm_dynstack_find_prompt(stack, k) > 0
  /\ LET p == scm_dynstack_find_prompt(stack, k)
     IN /\ Install(scm_dynstack_unwind(Machine, p - 1))
        /\ pconts' = IF stack[p].escapeOnly \/ Cardinality(pconts) >= MaxPartConts
                     THEN pconts
                     ELSE pconts \cup {SubSeq(stack, p + 1, Len(stack))}
  /\ UNCHANGED <<usedData, onceData, conts>>

(* Calling a delimited continuation: its entries are wound on top of the   *)
(* current stack.                                                          *)
ReinstatePartial(pk) ==
  /\ ~raising
  /\ Len(stack) + Len(pk) <= MaxDepth
  /\ AllowReentry \/ \A i \in DOMAIN pk, j \in DOMAIN stack :
                        pk[i].type \in {"fluid", "state"} => pk[i] /= stack[j]
  /\ Install(ReinstatePrompted(Machine, pk))
  /\ UNCHANGED <<usedData, onceData, conts, pconts>>

(* The error raised by a failed wind propagates to a handler's prompt, or  *)
(* out of the thread when none catches it, unwinding on its way.           *)
Throw ==
  /\ raising
  /\ \E p \in {0} \cup {i \in DOMAIN stack : stack[i].type = "prompt"} :
       Install(scm_dynstack_unwind(Machine, IF p = 0 THEN 0 ELSE p - 1))
  /\ UNCHANGED <<usedData, onceData, conts, pconts>>

Next ==
  \/ \E rw \in FrameFlags : PushFrame(rw)
  \/ \E ex \in WinderFlags, d \in Data : PushRewinder(ex, d) \/ PushUnwinder(ex, d)
  \/ \E f \in Fluids, v \in Values : PushFluid(f, v) \/ SetFluid(f, v)
  \/ \E k \in Keys, esc \in PromptFlags : PushPrompt(k, esc)
  \/ \E t \in Thunks : PushDynwind(t)
  \/ \E t \in States : PushDynamicState(t)
  \/ PopPrompt \/ PopDynwind \/ UnwindFluid \/ UnwindDynamicState \/ UnwindFrame
  \/ CaptureAll
  \/ \E k \in conts : ReinstateAll(k)
  \/ \E k \in Keys : AbortToPrompt(k)
  \/ \E pk \in pconts : ReinstatePartial(pk)
  \/ Throw

Spec == Init /\ [][Next]_vars

-----------------------------------------------------------------------------
(* Properties.                                                             *)

Table == Values \cup {FluidDefault, Unbound}

TypeOK ==
  /\ stack \in Seq(Entries) /\ Len(stack) <= MaxDepth
  /\ cap \in Nat
  /\ fluids \in [Fluids -> Table]
  /\ fbox \in [Boxes -> Values \cup {FluidDefault, NoVal}]
  /\ sbox \in [SBoxes -> [Fluids -> Table] \cup {NoVal}]
  /\ wc \in [Thunks -> Int]
  /\ runs \in [Data -> Nat]
  /\ usedData \subseteq Data /\ onceData \subseteq usedData
  /\ conts \subseteq Seq(Entries) /\ pconts \subseteq Seq(Entries)
  /\ raising \in BOOLEAN

(* The words in use never exceed the words allocated: every push, direct   *)
(* or by a rewind, grows the buffer enough in dynstack_ensure_space        *)
(* (including the header of the new top) before writing past the top.      *)
HeightWithinCapacity == Height(stack) <= cap

(* Every dynamic-wind extent that is on the stack has had its enter thunk  *)
(* run once more than its leave thunk, and every one that is not has had   *)
(* them run equally often, whatever mix of normal exits, aborts, throws    *)
(* and rewinds of full or delimited continuations led here.                *)
DynwindBalance ==
  \A t \in Thunks : wc[t] = Cardinality({i \in DOMAIN stack : stack[i] = DynwindE(t)})

(* An unwinder registered inside a non-rewindable frame (the frame of      *)
(* scm_dynwind_begin (0), as scm_dynwind_free uses) runs at most once, on  *)
(* whichever exit, normal or not, leaves its extent: no rewind of a        *)
(* continuation captured inside the extent may put it back on the stack.   *)
UnwinderRunsOnce == \A d \in onceData : runs[d] <= 1

(* The refinement mapping onto FluidScope.  The stack is cut into         *)
(* extents by its dynamic-state entries.  The table of an extent is the   *)
(* thread's fluids for the innermost one, and otherwise the box of the     *)
(* entry that opens the next one.  Within an extent, a live box holds the  *)
(* value of the binding below its entry, and the innermost binding's value *)
(* is in the extent's table; a box not on the stack holds its own          *)
(* binding's value, and a state box not on the stack the table its extent  *)
(* had when it was left.                                                   *)
StatePositions == {i \in DOMAIN stack : stack[i].type = "state"}

TableAbove(i) ==
  LET up == {j \in StatePositions : j > i}
  IN IF up = {} THEN fluids ELSE sbox[stack[Min(up)].sbox]

SameExtent(i, j) == \A q \in StatePositions : ~(i < q /\ q < j)

BindingsOf(f) == {i \in DOMAIN stack : stack[i].type = "fluid" /\ stack[i].fluid = f}

(* The value of f at the bottom of the extent opened at position p.        *)
BaseAfter(p, f) ==
  LET first == {j \in BindingsOf(f) : j > p /\ SameExtent(p, j)}
  IN IF first = {} THEN TableAbove(p)[f] ELSE fbox[stack[Min(first)].box]

LiveBoxes == {stack[i].box : i \in {j \in DOMAIN stack : stack[j].type = "fluid"}}

CellOf(b) ==
  IF b \notin LiveBoxes THEN fbox[b]
  ELSE LET i     == Max({j \in DOMAIN stack : stack[j].type = "fluid" /\ stack[j].box = b})
           above == {j \in BindingsOf(stack[i].fluid) : j > i /\ SameExtent(i, j)}
       IN IF above = {} THEN TableAbove(i)[stack[i].fluid] ELSE fbox[stack[Min(above)].box]

SCellOf(x) ==
  LET at == {i \in StatePositions : stack[i].sbox = x}
  IN IF at = {} THEN sbox[x] ELSE [f \in Fluids |-> BaseAfter(Max(at), f)]

FS == INSTANCE FluidScope WITH
        cell <- [b \in Boxes |-> CellOf(b)],
        global <- [f \in Fluids |-> BaseAfter(0, f)],
        scell <- [x \in SBoxes |-> SCellOf(x)],
        Default <- FluidDefault

(* with-fluids keeps the promise of dynstack.c:177-179: each binding is    *)
(* one cell that every continuation capturing it shares, only fluid-set!   *)
(* inside it changes it, and unwinding and rewinding never do; and         *)
(* with-dynamic-state gives its extent a table of its own, which re-entry  *)
(* through a continuation finds as it was left.                            *)
FluidRefinement == FS!Spec

(* fluid-ref* (f, d + 1) walks the stack from the top and answers with the *)
(* value f had outside its (d + 1)-th innermost binding or dynamic-state   *)
(* extent, skipping an extent whose enclosing table does not bind f, as    *)
(* FluidScope defines it, or the default past the oldest one: the swaps of *)
(* wind and unwind keep each box holding the value from below its entry,   *)
(* and a state box's table binds f exactly when that value is assigned,    *)
(* whatever mix of exits and re-entries led here.                          *)
OldFluidValue ==
  \A f \in Fluids, d \in 0..MaxDepth :
    scm_dynstack_find_old_fluid_value(Len(stack), f, d, FluidDefault)
      = FS!OldValue(f, d, FluidDefault)
=============================================================================

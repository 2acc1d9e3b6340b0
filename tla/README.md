# TLA+ models of Guile's dynamic stack, options, descriptors, file-system primitives and JIT core

This directory holds TLA+ specifications of parts of the C sources under
`src/`, the TLC configurations that check them, and `PROJECT.json`. That file
lists every component, the runs, the faulty variants (mutants) each property
must catch, the source lines each definition translates, the findings and the
hazards.

## The system

| Part | Source | What it does | Status |
|---|---|---|---|
| Dynamic stack | `libguile/dynstack.c` | Per-thread stack of frames, C winders, with-fluid bindings, prompts, dynamic-wind and dynamic-state entries. Non-local exits unwind it. `call/cc` captures it whole and delimited continuations capture it from a prompt; reinstating either rewinds it. | modelled (partly) |
| Runtime options | `libguile/options.c` | `scm_options_try`: parses an option list into a scratch array, then commits it unless `dry_run`. | modelled |
| Port/fd extensions | `libguile/ioext.c` | `redirect-port`, `dup->fdes`, `dup2`, `primitive-move->fdes`, `fdopen`. Ports are evicted from a descriptor before it is reused. | modelled |
| File-system primitives | `libguile/filesys.c` | POSIX wrappers. Modelled: `copy-file` with `sendfile`, directory streams, `open-fdes`, `open-fdes-at`, `open`, `openat` (with `flags_to_mode`), `close`/`close-fdes`, the `readlink` and `getcwd` buffer loops, `scm_i_relativize_path`, and `select`. | partly |
| Config generator | `libguile/gen-scmconfig.c` | A build-time program that prints `scmconfig.h`. | not modelled: output formatting only |
| Concurrent init test | `test-suite/standalone/test-concurrent-init.c` | Three threads enter `scm_with_guile` at once. | planned, limited to what the test expects |
| Lightening tests | `libguile/lightening/tests/*.c` | Byte swap, loads and stores with expected results. | planned |
| JIT size tables | `lib/jit_*-sz.c` | Maximum bytes per opcode and `JIT_INSTR_MAX`, one table per target. | modelled (data) |
| Lightening JIT core | described in `spec.md` only | Arena, encodings, labels and relocations, and the `jit_state` lifecycle. It sizes each emission by the tables. | modelled from the spec |

### How the dynamic stack works

The dynamic stack is a word buffer. Each entry is a two-word header followed
by its words: the tag (type, flags, length) and the offset back to the
previous entry. Pushes go through `push_dynstack_entry`, which grows the buffer
in `dynstack_ensure_space`.

- `scm_dynstack_unwind_1` pops one entry and undoes it:
  - it calls an unwinder;
  - it swaps a fluid back with its box;
  - it calls the leave thunk of a dynwind entry;
  - it exchanges the thread's fluid table with the table in a dynamic-state
    entry's box (`scm_set_current_dynamic_state`).
- `scm_dynstack_wind_1` redoes an entry of a captured stack and pushes a copy.
  It raises on a frame that is not `REWINDABLE`.
- `scm_dynstack_unwind_fork` keeps the shared prefix of the live stack and a
  captured one. Entries are compared by tag and words in `same_entries`.
- `scm_dynstack_unwind_frame` (`scm_dynwind_end`) pops the winders of the
  innermost frame. It runs only the unwinders flagged explicit.

## Modules

- **`FluidScope.tla`** is the abstract specification of fluid bindings, stated
  as deep binding. Each `with-fluids` binding is its own cell. The value of a
  fluid is the cell of its innermost binding, `fluid-set!` writes that cell,
  and no restructuring of the stack changes any cell. This is the promise of
  the comment at `dynstack.c:177-179`. `with-dynamic-state` opens an extent
  with a table of its own (`scell`). It starts as the given state, and
  `fluid-set!` of a fluid unbound inside the extent writes it. Re-entering the
  extent finds the table as it was left. A table may leave a fluid unbound;
  it then reads as the fluid's default, and a binding of the fluid in the
  extent (with-fluids, or a rewind of one) establishes it there at its
  default. `OldValue` is the reference definition of `fluid-ref*`: the value
  outside the d-th innermost binding or extent, counting an extent only when
  its enclosing table binds the fluid.
- **`DynStack.tla`** models the dynamic stack.
  - Entries are records. Record equality is `same_entries`.
  - The height and capacity are counted in words, so `dynstack_ensure_space`
    and `push_dynstack_entry` keep their arithmetic.
  - `scm_dynstack_wind_1`, `scm_dynstack_unwind_1`, `scm_dynstack_wind`,
    `scm_dynstack_unwind`, `shared_prefix_length`, `scm_dynstack_find_prompt`
    and `scm_dynstack_unwind_frame` are operators on a machine record, and
    `scm_dynstack_find_old_fluid_value` walks the stack down from the top. The
    record holds the stack, the capacity, the fluid values, the heap boxes
    (with-fluid value boxes and dynamic-state boxes),
    the dynwind enter/leave balance, the unwinder run counts and a failure
    flag.
  - There is one action per operation:
    - pushes: `PushFrame`, `PushRewinder`, `PushUnwinder`, `PushFluid`,
      `PushPrompt`, `PushDynwind`, `PushDynamicState`;
    - normal exits: `PopPrompt`, `PopDynwind`, `UnwindFluid`,
      `UnwindDynamicState`, `UnwindFrame`;
    - the callers that drive unwinding and rewinding: `CaptureAll`,
      `ReinstateAll` (unwind_fork, then wind), `AbortToPrompt` (find_prompt,
      capture above the prompt, then unwind), `ReinstatePartial` and `Throw`;
    - `SetFluid`, the running program's `fluid-set!`.
  - Every action applies the whole operation in one step. The stack is
    per-thread and its operations run to completion, except for callouts.
  - A callout is modelled by its effect:
    - a swap for fluids;
    - an exchange of whole tables for `scm_set_current_dynamic_state`
      (`fluids.c`, not in this tree). A state may leave a fluid unbound
      (`Unbound`); a with-fluid swap then boxes the fluid's default and
      binds it in the table, as `scm_swap_fluid` does through `fluid_ref`
      and `fluid_set_x`, and `find_old_fluid_value` skips a dynamic-state
      entry whose boxed table leaves the fluid unbound (`!SCM_UNBNDP`);
    - the enter/leave balance for dynwind;
    - a run count for unwinders.
  - `FS == INSTANCE FluidScope WITH ...` maps each live box to the value of
    its binding. A box lower on the stack holds the value of the binding
    below it, and the innermost binding's value is in the table of its
    extent. That table is the thread's own for the innermost extent, and
    otherwise the box of the dynamic-state entry that opens the next one.
    `FluidRefinement` asserts `FS!Spec`. `OldFluidValue` asserts that
    `find_old_fluid_value` answers `FS!OldValue` at every depth.
- **`MCDynStack.tla`** instantiates `DynStack` with model values, small sets
  and bounds. Each cfg chooses which kinds of entries the callers push.

- **`CopyFile.tla`** models `copy-file` (`scm_copy_file2`) and the
  `sendfile` it calls (`filesys.c:1292-1488`).
  - `pc` is the next statement. Each system call is one action that succeeds
    or fails as the kernel allows: `OpenOld`, `Fstat`, `OpenNew`,
    `BindAndClone`, `LseekEnd`, `LseekSet`, `Sendfile`, `ReadWrite` and
    `CloseBoth`.
  - `open` is the set of descriptors the call holds. The bytes of the
    source are their offsets, and `dst` is the sequence of offsets written.
  - `Truncate` is another process shrinking the source (constant `Shrinks`).
- **`OptionsSpec.tla`** is the abstract specification of an options interface
  procedure, from the comments at `options.c:83-97` and `170-179`. A call with
  a well-formed setting changes the options at one instant to the setting's
  `Meaning` (booleans present are 1 and absent are 0, others keep their value
  unless given, the last occurrence wins). A malformed setting or a dry run
  changes nothing. `WellFormed` and `Pairs` are `RECURSIVE`.
- **`Options.tla`** models `change_option_setting` per thread.
  - `Call` copies the options into the thread's `new_vals`, clearing
    booleans.
  - `ParseArg` is one round of the loop: an unknown symbol, a missing value
    or a non-natural integer raises.
  - `Commit` copies `new_vals` back unless `dry_run`.
  - `Setting` is `get_option_setting`, a fold over the table.
  - `OS == INSTANCE OptionsSpec WITH ...` maps a thread inside the loop to a
    pending request. `OptionsAtomic` asserts `OS!Spec`.
- **`FdTable.tla`** models the kernel's descriptor table (`file[fd]`, the
  open file description or `NoFile`) and the file ports on it (`pst`, `pfd`).
  - Each opened description records the access its `open(2)` flags give it
    (`acc`, from `flags & O_ACCMODE`). `pmode` records the mode string a port
    was made with and the description it was made on.
  - There is one action per procedure: `OpenFdes`, `OpenFdesAt`, `Open`,
    `OpenAt`, `Fdopen`, `DupFdes`,
    `DupToFdes`, `Dup2Fdes`, `PrimitiveMove`, `RedirectPort`, `CloseFd`
    (`close` on a descriptor), `CloseFdes` and `ClosePort`.
  - `scm_evict_ports` lives in `fports.c`, which is not in this tree. It is
    modelled from the docstrings of `primitive-move->fdes` and `close`: each
    port on the descriptor moves to `dup (fd)`, one after the other. `dup`
    takes the lowest free descriptor, and `EMFILE` stops the eviction part
    way through.
  - The history variable `pfile` records which description each port stands
    for. It changes only where a docstring says so: `redirect-port`, `dup2`
    onto a port's descriptor, and `close-fdes`.
  - `Open` is `scm_open`: `scm_open_fdes` (`OpenDescription`), then a file
    port whose mode is `flags_to_mode` of the flags. The flags are words of
    the Linux `O_` values, tested with `Bitwise`'s `&`.
- **`DirStream.tla`** models directory streams shared by threads
  (`filesys.c:2209-2331`).
  - Each procedure is split where another thread can run: between the OPEN
    test and the call into the `DIR`, at the mutex, and (in `closedir`)
    between `closedir(3)` and clearing the flag.
  - `Drop` and `DirFree` are the program dropping its last reference and the
    GC running `scm_dir_free`.
- **`JitSizes.tla`** transcribes the six size tables of `lib/jit_*-sz.c`
  row by row, in source order.
  - `OpNames` holds the opcode named in each row's comment.
  - `<Target>Max` is the table's `JIT_INSTR_MAX`.
  - `MaxBytes(v, op)` is the row of `op` in target `v`'s table.
  - On 64-bit PowerPC the three `htonr` rows depend on the constant
    `BigEndian` (`__BYTE_ORDER`).
- **`Lightening.tla`** models the JIT core. Its sources are not in this
  tree, so it is translated from `spec.md` sections 3, 4 and 7, and every
  entry in the map is marked `spec_modelled`.
  - State: the `jit_state` phase, the target chosen at `jit_begin`, and
    whether the arena is growable. It also holds the arena's `limit` and
    `cursor` (as offsets), the labels (`Unbound` or an offset), the emitted
    instructions, and the pending relocations.
  - `Emit` and `Branch` reserve `MaxBytes` of the opcode. A fixed arena then
    fails with `OutOfSpace`; a growable one doubles until the bytes fit.
    Next, an encoding of 1 or `max_bytes` bytes is written.
  - A row of 0 (for example `ldxr_l` on 32-bit s390) is
    `UnsupportedOnTarget`.
  - A branch to an unbound label takes its worst-case form and records a
    relocation. `Bind` patches every relocation against the label.
  - `End` fails on a pending relocation.
- **`FileNames.tla`** models three procedures of `filesys.c` that build a
  name. Strings are sequences of one-character strings.
  - `Readlink` is one round of the `readlink` loop: `do_readlink` returns -1
    or the bytes stored (at most `size`); `rv == size` doubles the buffer,
    -1 raises, and otherwise the first `rv` bytes are returned.
  - `Getcwd` is one round of the `getcwd` loop: `ERANGE` when the name and
    its NUL do not fit doubles the buffer, another error raises.
  - `Change` is another process re-pointing the link or another thread
    calling `chdir`, at most `MaxChanges` times.
  - `RelativizeCanon` and `RelativizeLoop` are `scm_i_relativize_path`:
    `canonicalize_file_name` of the path (`Canon`, on a file system without
    links), then one load-path directory per step, tested by
    `RelativizeStep` exactly as the `if` and its `||` are written.
  - `seen` is a history variable: the link and directory as the last system
    call saw them.
- **`Select.tla`** models `select` (`filesys.c:780-1068`).
  - `Fill` is everything before the system call: `set_element` (`SetFd`)
    files each member under its descriptor, or under -1 when it is a port
    whose read buffer has input or whose write buffer has room for more
    than one byte (`CanPut`). `fill_select_type` walks each list or vector
    (`Walk`), sets the descriptors (`FillSet`), conses the -1 members onto
    `ports_ready` (`FillReady`) and returns the largest descriptor
    (`FillMax`). The timeout is zero when a buffer is ready (`ZeroTimeout`);
    otherwise it comes from `secs` and `usecs`, and a bad one raises
    (`TimeoutOf`). A -1 among the excepts is consed onto NULL: `crashed`.
  - `Return` is `scm_std_select` returning and the answer being built. The
    kernel watches descriptors below `Nfds(max_fd)`, raises `EBADF` on a
    closed one, returns the ready ones once there are any or the timeout is
    finite, or is interrupted (`EINTR`, empty sets). `retrieve_select_type`
    (`Retrieve`) conses every member whose descriptor is set onto
    `ports_ready`.
  - `Arrive` is the kernel readying a listed descriptor. `kseen` is a
    history variable: the readiness the kernel saw when it returned.
- **`MCCopyFile`, `MCOptions`, `MCFdTable`, `MCDirStream`, `MCLightening`,
  `MCFileNames`, `MCSelect`**
  instantiate these modules.

## Runs

| Run | cfg | Checks | Expect |
|---|---|---|---|
| fluids | `MCDynStackFluids.cfg` | `TypeOK`, `FluidRefinement`, `OldFluidValue` | pass |
| winders | `MCDynStackWinders.cfg` | `UnwinderRunsOnce`, `DynwindBalance`, `HeightWithinCapacity` | pass |
| frame_alias | `MCDynStackFrameAlias.cfg` | `UnwinderRunsOnce` | violation |
| copyfile | `MCCopyFile.cfg` | `CopyExact`, `Terminates` | pass |
| copyfile_leak | `MCCopyFileLeak.cfg` | `NoDescriptorLeak` | violation |
| options | `MCOptions.cfg` | `TypeOK`, `SettingRoundTrip`, `OptionsAtomic` | pass |
| fdtable | `MCFdTable.cfg` | `PortFileIntegrity`, `PortModeAgrees` | pass |
| dirstream | `MCDirStreamRace.cfg` | `SafeDirAccess` | violation |
| lightening | `MCLightening.cfg` | `InstrMaxBound` | pass |
| filenames | `MCFileNames.cfg` | `NamesComplete`, `RelativizeCorrect`, `Terminates` | pass |
| filenames_equal | `MCFileNamesEqual.cfg` | `RelativizeCorrect` | violation |
| select | `MCSelect.cfg` | `SelectComplete`, `NoLostWakeup` | pass |

- **fluids**: one fluid, two values, one heap box, one state box, every
  state of the fluid (either value, or unbound), one prompt tag (not escape-only), non-rewindable
  frames, and one full and one delimited continuation. A delimited
  continuation is never reinstated while one of its own bindings or
  dynamic-state entries is on the stack; `MCDynStackReentry.cfg` allows that
  case. This run shows:
  - that bindings and dynamic-state extents refine `FluidScope` across
    aborts, throws, rewinds and failed rewinds;
  - that `fluid-ref*` (`find_old_fluid_value`) answers the value outside the
    d-th binding or extent, as `FluidScope` defines it, skipping exactly the
    extents whose enclosing table leaves the fluid unbound.
- `MCDynStackReentry.cfg` and `MCDynStackReentryState.cfg` (not listed runs)
  allow that reinstatement, of a binding and of a dynamic-state entry, and
  the refinement fails (finding 1).
- **winders**: one thunk pair, two winder data, prompts of both flags,
  frames and winders of both flags, and delimited continuations only.
  - The enter/leave balance holds in every state.
  - A buffer that starts with only the bottom header allocated grows through
    both branches of `dynstack_ensure_space`, and no push writes past it.
  - An unwinder pushed inside `scm_dynwind_begin (0)` runs at most once.
- **frame_alias** adds full continuations, and the unwinder runs twice. See
  Findings.

- **copyfile**: the source has up to 3 bytes, the fallback buffer is 2
  bytes, there is one EINTR, the source may be truncated at any step, and
  every `#:copy-on-write` value is tried. It shows:
  - `CopyExact`: a call that returns leaves the source's bytes in order, at
    least as many as the source now has;
  - `Terminates`: every call returns or raises.
- **copyfile_leak** finds a raise with both descriptors open. See Findings.
- **options**: one thread; a table of one boolean, one integer and one
  `SCM` option; values 0, 1 and a non-number; every argument list of up to 3
  tokens (an unknown symbol included), with and without `dry_run`. It shows:
  - `OptionsAtomic`: the code implements `OptionsSpec`;
  - `SettingRoundTrip`: the old setting a call returns is well formed and
    restores the options;
  - `TypeOK`: an integer option never holds a non-natural.
- `MCOptionsRace.cfg` (not a listed run) has two threads, and
  `OptionsAtomic` fails (finding 4).
- **fdtable**: 4 descriptors, 3 ports and up to 2 opened files, with the
  flags `O_RDONLY`, `O_WRONLY|O_APPEND`, `O_RDWR|O_APPEND` and
  `O_RDWR|O_CREAT`. `fdopen` makes no second port on a descriptor, and
  `close-fdes` is not used on a port's descriptor. It shows:
  - `PortFileIntegrity`: eviction keeps every port on its file across every
    procedure, including `EMFILE` part way through an eviction;
  - `PortModeAgrees`: a port made by `open` or `openat` offers exactly the
    reading and writing its description allows, as long as it stays on it.
- `MCFdTableAppend.cfg` (not a listed run) adds `O_RDONLY|O_APPEND`, and
  `PortModeAgrees` fails (finding 10).
- `MCFdTableShared.cfg` (not a listed run) lets `fdopen` make a second port
  on a port's descriptor, and `PortFileIntegrity` fails (findings 11 and 12).
- If `close-fdes` is allowed under a port (`CloseUnder = TRUE`), the
  property fails (finding 5). No run is left for that case.
- **dirstream**: two threads and two streams over a directory of three
  entries, and `SafeDirAccess` (no call reaches a freed `DIR`) fails
  (finding 6). With one thread the property would only restate that
  `closedir` clears the flag, so no passing run checks it.
- **lightening**: all six targets; arenas of 0 and 64 bytes, each fixed or
  growable; `prolog`, `addi` and `ldxr_l`; `beqi` and `jmpi` to two labels;
  up to 4 instructions. It shows `InstrMaxBound`: no instruction takes more
  than its `max_bytes`, and no row of the selected table exceeds its
  `JIT_INSTR_MAX`. The arena and relocation rules of the core are modelled
  from `spec.md` only, so no property restates them.
- **filenames**: a first buffer of 2 bytes; link targets of 2, 3 and 5
  characters; working directories `/`, `/a`, `/ab`; one re-pointing of the
  link or change of directory; `relativize` of `/a/b`, `//ab/` and `/`
  against every load path of up to 2 directories among `""`, `/`, `/a`,
  `/a/`, `//a`, `a`, `/b`. It shows:
  - `NamesComplete`: `readlink` and `getcwd` return the whole name their
    last system call saw, never a truncated one, even when it exactly fills
    the buffer;
  - `RelativizeCorrect`: for these paths, `relativize` returns the part below
    the first load-path directory that contains the path, or `#f`;
  - `Terminates`: all three calls finish.
- **select**: ports on descriptors 0 and 1, descriptor 2 open and 3 closed
  given as integers. Every list of up to two reads, one write and one
  except whose members are on distinct descriptors is tried, as a list and
  as a vector, with every buffer state and every kind of timeout. The
  kernel readies listed descriptors while the call waits. It shows:
  - `SelectComplete`: every ready member is answered, except descriptors
    after an interrupted wait;
  - `NoLostWakeup`: a call with a ready buffer, or waiting on a ready
    descriptor, returns.
- `SelectSound` (every member of an answer was given and is ready) is
  checked by no listed run: over the run's lists it would restate
  `set_element`'s `> 1` test. `MCSelectMinusOne.cfg` and
  `MCSelectShared.cfg` (not listed runs) give the integer -1, or a port and
  its descriptor in one list, and it fails (findings 8 and 9).
- **filenames_equal** adds the path `/a`, equal to the load-path directory
  `a` once canonicalised, and `relativize` raises. See Findings.

### Bounds

**DynStack:**

- The stack holds at most 3 entries. That is enough for a frame, a winder and
  a prompt, or for a prompt, a binding and a reinstated copy of it.
- There is one continuation of each kind, one tag and one fluid. The traces
  that matter need one capture and one reinstatement.
- Two data let a fresh winder follow an aliased one.
- One state box is enough for a dynamic-state entry to be left, captured
  and re-entered. A binding inside or outside it then shows which table holds
  each value. Its 1-word entry makes the height odd. The fluids run pushes
  only non-rewindable frames: with both flags and a state box, the run would
  come near the time limit. Rewindable frames are rewound in the winders run.
- The initial capacity is 2 words (only the bottom header), so the
  `capacity < 4` branch and the doubling branch are both taken.
- Symmetry over the two values is sound, because no definition distinguishes
  them.
- The winders run has no full continuations, because with them an unwinder
  runs twice (the frame_alias finding). Dynamic-wind under full
  continuations is therefore not checked.

**Other modules:**

- **CopyFile**: 3 bytes with a 2-byte buffer make the fallback loop go
  around twice and end on a short read. One EINTR is enough for a retry
  between partial transfers.
- **Options**: 3 tokens hold a boolean, an option with its value, and an
  unknown or missing value. The race needs only two options and two values.
- **FdTable**: 4 descriptors let a port, a descriptor it is moved to, and an
  eviction target coexist, and they also fill the table, so `EMFILE` occurs.
  Two opened files besides the initial one are enough for a port to be
  retargeted from one description to another; a third, with four flag
  words, takes the run past the time limit. The flags cover every branch of
  `flags_to_mode` and both `O_RDWR` tests.
  Symmetry over the ports is sound, because no definition names a port.
- **DirStream**: 3 entries let reads reach the end and rewind. Two streams
  let operations on one interleave with the other's lifecycle. Symmetry over
  streams and threads is sound.
- **Lightening**: a 64-byte arena is filled by one `prolog` (38 to 64 bytes
  depending on the target), so both `OutOfSpace` and growth past one
  doubling occur. Two labels with up to 4 instructions allow two branches to
  one label, bound before or after them. Symmetry over labels is sound.
  The ppc64 table is checked with its little-endian rows.
- **Select**: two ports and two integers give every path of `set_element`.
  Descriptor 2 as the highest, alone in a list, is what the `max_fd + 1`
  bound is about. Closed descriptor 3 gives `EBADF`. Write rooms of 0, 1
  and 2 bytes straddle the `> 1` test. At most two reads and one write and
  one except keep the 32,400 initial calls and their waits under a minute.
- **FileNames**: a 2-byte first buffer doubles to 4 and 8. A link of 2
  characters exactly fills it (the retry test `rv == size`), one of 3 needs
  one doubling, and one of 5 two. `/a` with its NUL exactly fills 2 bytes
  for `getcwd`. The load-path directories cover an empty one, a trailing
  separator, a doubled one, a relative one, a non-ancestor, and `/`.

### Fairness

- **DynStack, Options, FdTable, DirStream, Lightening**: no fairness is assumed, and
  their properties are safety properties.
- **CopyFile**: `Spec` has `WF_vars(Progress)`. The calling thread keeps
  running, so its steps are weakly fair. But finishing must not rely on a
  system call failing, so `Progress` excludes every raise except the keyword
  checks of `BindAndClone`, which follow from the arguments. Truncation by
  another process is not fair: it need not happen.
- **Select**: `Spec` has `WF_vars(Progress)`. `Progress` is `Fill` and the
  kernel's return with `EBADF` or with ready descriptors or an expired
  timeout: the kernel does answer then. Interruptions and other errors are
  not fair, and neither is a descriptor becoming ready.
- **FileNames**: `Spec` has `WF_vars(Progress)` for the same reason.
  `Progress` excludes the `readlink` and `getcwd` steps that raise. Changes
  of the link or directory are not fair.

## Findings

1. **Reentry** (`dynstack.c:196`, spec–code divergence). The comment says the
   box makes every continuation that captures a scope share one binding. But
   the fluid and the box are swapped on every wind and unwind. If a delimited
   continuation is reinstated inside its own extent, its binding is wound a
   second time and the box is swapped back. The inner code then reads the
   outer value.

   Trace: PushPrompt, PushFluid(v2), AbortToPrompt, ReinstatePartial,
   ReinstatePartial. `MCDynStackReentry.cfg` reproduces it; the project's
   run limit leaves no listed run for it.

   A `with-dynamic-state` entry goes wrong in the same way. Its second wind
   installs the table from outside the extent (PushPrompt, PushDynamicState,
   AbortToPrompt, ReinstatePartial, ReinstatePartial).
   `MCDynStackReentryState.cfg` reproduces it.

2. **Frame alias** (`dynstack.c:482`, code bug). `same_entries` compares
   words, and a frame has none. Consider a full continuation captured inside
   `scm_dynwind_begin (0)`, reinstated when an equal frame sits at the same
   height. `unwind_fork` treats that frame as shared, so `wind_1` never checks
   `REWINDABLE`. The explicit unwinder comes back onto the stack, and the next
   `scm_dynwind_end` runs it again, for example a second `free` from
   `scm_dynwind_free`.

3. **copy-file leaks descriptors** (`filesys.c:1348`, code bug). After both
   opens succeed, every raise leaves both descriptors open, because only
   the C strings are registered with the dynwind frame. The raises include
   an invalid `#:copy-on-write` value, a failed `'always` clone, an `lseek`
   failure and an error inside `sendfile`.
4. **Options lost update** (`options.c:195`, code bug). `new_vals` is a copy
   of all options taken at the start of the call, and the commit writes all
   of it back. Two threads setting options of one group lose one update.
   Trace: t1 calls with `()`; t2 sets `n` to 1 and commits; t1 commits
   `n = 0`. `MCOptionsRace.cfg` reproduces it; no listed run is left for it.
5. **primitive-move->fdes strands an evicted port** (`ioext.c:268`, code
   bug). The procedure reads `old_fd` before evicting. If `old_fd` was
   already closed by `close-fdes`, the eviction's `dup` can pick `old_fd`
   for the port on `new_fd`, and the final `close (old_fd)` closes it.
   Trace: OpenFdes, Fdopen(p2, 1), CloseFdes(0) under p1,
   PrimitiveMove(p1, 1). Setting `CloseUnder = TRUE` in `MCFdTable.cfg`
   reproduces it. The project's run limit leaves no run for it, so it is
   listed among the hazards rather than the findings.
6. **Directory-stream race** (`filesys.c:2293`, code bug). `closedir` takes
   no lock, and every procedure tests the OPEN flag before its call. Two
   threads can both pass the test. One frees the `DIR` and the other then
   reads, rewinds or closes it again. The dirstream run
   (`MCDirStreamRace.cfg`) reproduces it.
7. **relativize raises on a load-path directory equal to the path**
   (`filesys.c:2172`, code bug). When `DIR` has no trailing `/` and the
   canonical path equals it, `scm_c_string_ref (scanon, len)` is called with
   `len` equal to the string's length and raises out-of-range. The function
   should return `#f` then, as it does for a `DIR` with a trailing `/`.
   Trace: path `/a`, load path `("a")`.
8. **select dereferences NULL on a -1 except** (`filesys.c:815`, code bug).
   `set_element` files an integer -1 like a port whose buffer is ready. In
   the reads or writes, -1 is answered as ready without a select, and
   `FD_ISSET (-1)` on the way back is undefined. In the excepts it is consed
   onto the NULL `ports_ready` that `fill_select_type` is given for them:
   `(select '() '() '(-1))` crashes. `MCSelectMinusOne.cfg` reproduces it.
9. **select answers a port twice** (`filesys.c:875`, spec–code divergence).
   A port with buffered input is answered from `ports_ready`. When its
   descriptor is also in the list, as an integer or another port's, and is
   ready, `get_element` answers the port again: `(select (list p 0) ...)`
   gives `(0 p p)`. The docstring promises only the members that meet the
   requirement. `MCSelectShared.cfg` reproduces it.

10. **open gives a read-only port mode "a"** (`filesys.c:291`, spec–code
    divergence). `flags_to_mode` tests `O_APPEND` before `O_WRONLY`, so
    `(open f (logior O_RDONLY O_APPEND))` makes a port of mode `"a"` on a
    description opened for reading only: the port offers writing and no
    reading, and the first write fails with `EBADF`. The docstring says
    `O_RDONLY` opens the file read-only and `O_APPEND` appends to it. `MCFdTableAppend.cfg` reproduces it.
11. **redirect-port changes other ports** (`ioext.c:111`, spec–code
    divergence). The docstring says it has no side effects on other ports,
    but it `dup2`s onto `new`'s descriptor without evicting the other ports
    on it, which then stand for `old`'s file. Trace: OpenFdes, Fdopen(p2, 0)
    (a second port on p1's descriptor), Fdopen(p3, 1), RedirectPort(p3, p1).
    `MCFdTableShared.cfg` finds `PortFileIntegrity` violated; its shortest
    trace is finding 12's, and with `primitive-move->fdes` and `close` left
    out of `Next` it is this one.
12. **primitive-move->fdes closes a shared descriptor** (`ioext.c:281`, code
    bug). It evicts the ports on the new descriptor, but closes the old one
    even when another port still uses it. That port is left on a closed
    descriptor, which the next `open` reuses for another file. Trace:
    OpenFdes, Fdopen(p2, 0), PrimitiveMove(p1, 1).
    `MCFdTableShared.cfg` reproduces it.

## Not modelled yet, and why

- **Prompt fp/sp offsets and `scm_dynstack_relocate_prompts`** are not
  modelled. They are VM addresses, and no property here depends on them.
- **The tables of `fluids.c`** are outside this tree. A table is a function
  from fluids to values or `Unbound`, and `scm_swap_fluid`,
  `scm_set_current_dynamic_state` and `scm_dynamic_state_ref` are modelled
  by their effect on it.
- **Rewinder and unwinder side effects** are not modelled, except for
  counting the unwinder runs.
- **Caller discipline.** `UnwindFrame` takes its callers' discipline as its
  guard: only winders are pushed above a frame before `scm_dynwind_end`. The
  callers are outside this tree.

- **Shared descriptors in a listed run.** `fdopen` of a port's descriptor
  (`Shared`) breaks `PortFileIntegrity` (findings 11 and 12), so the fdtable
  run keeps one port per descriptor; the project's run limit leaves no run
  for the violation, which `MCFdTableShared.cfg` reproduces.
- **closedir(3) failing** (`CloseFails`) is modelled but not enabled in a
  run. See the hazard list.
- **mkstemp, dirname/basename** (gnulib, not in this tree) and the one-call
  wrappers (`chmod`, `mkdir`, `rename`, `stat`, ...) are not modelled.
- **Revealed counts** of ports are not modelled.
- **Operand/ABI lowering and the encoders** of lightening are not modelled.
  Their code is not in this tree. The model takes only the worst-case size of
  each encoding from the tables.
- **The lightening tests** (`bswapr_ul`, `ldxr_l`, `ldxr_us`, `stxi_c`) are
  not modelled. They check 64-bit values, and TLC's integers are 32-bit.

## Plan

1. Done: `DynStack`, `Options` and `OptionsSpec`, `FdTable`, `CopyFile`,
   `DirStream`, `JitSizes`, `Lightening`.
2. Done: dynamic-state entries and `find_old_fluid_value` in `DynStack`.
3. Done: `readlink`/`getcwd` buffer loops and `scm_i_relativize_path`
   (`FileNames`), and `select` (`Select`).
4. `JitSizes` (the `-sz` tables) and `Lightening` (lifecycle, labels and
   relocations from `spec.md`); `LighteningOps` for the tests' byte swap and
   loads/stores.

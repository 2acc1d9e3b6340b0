------------------------------ MODULE FileNames ------------------------------
(***************************************************************************)
(* The procedures of libguile/filesys.c that build a file name in a        *)
(* buffer or from a list: readlink and getcwd, which call the system into  *)
(* a buffer of "size" bytes and double it while the answer does not fit,   *)
(* and scm_i_relativize_path, which strips the first directory of a load   *)
(* path that contains a canonicalised file name.                           *)
(*                                                                         *)
(* A string is a sequence of one-character strings.  Each procedure runs   *)
(* once; meanwhile another process may re-point the link or another thread *)
(* change directory.  The working directory of canonicalize_file_name is   *)
(* "/", the file system holds no symbolic links, and every ancestor of the *)
(* canonical path exists.                                                  *)
(***************************************************************************)
EXTENDS Integers, Sequences, SequencesExt

CONSTANTS
  InitSize,    \* the first buffer size (100 in the code)
  Links,       \* targets the symbolic link may hold
  Cwds,        \* directories the process may be in
  MaxChanges,  \* bound: re-pointings of the link and changes of directory
  Paths,       \* file names relativize is given
  InPaths,     \* load paths (lists of directory names) it is given
  False        \* the #f relativize returns

ASSUME InitSize \in Nat \ {0} /\ MaxChanges \in Nat

VARIABLES
  link, cwd,   \* the link's target and the working directory, now
  changes,     \* re-pointings and chdirs so far
  rl,          \* readlink: [pc, size, res]
  gc,          \* getcwd: [pc, size, res]
  rz,          \* relativize: [pc, path, rest, scanon, cdirs, res]
  seen         \* history: the link and directory as the last calls saw them

vars == <<link, cwd, changes, rl, gc, rz, seen>>

Finished == {"done", "raised"}

Sep == <<"/">>

(* canonicalize_file_name on a file system without links: relative to     *)
(* "/", with repeated and trailing separators removed.                     *)
RECURSIVE Squeeze(_)
Squeeze(a) ==
  IF Len(a) < 2 THEN a
  ELSE IF a[1] = "/" /\ a[2] = "/" THEN Squeeze(Tail(a))
  ELSE <<a[1]>> \o Squeeze(Tail(a))

Canon(s) ==
  LET a == Squeeze(IF s /= <<>> /\ s[1] = "/" THEN s ELSE Sep \o s)
  IN IF Len(a) > 1 /\ a[Len(a)] = "/" THEN SubSeq(a, 1, Len(a) - 1) ELSE a

(* d names an ancestor of the canonical path s, or s itself.               *)
AncestorOrSelf(d, s) == d = s \/ IsPrefix(d \o Sep, s) \/ d = Sep

Init ==
  /\ link \in Links /\ cwd \in Cwds /\ changes = 0
  /\ rl = [pc |-> "call", size |-> InitSize, res |-> <<>>]
  /\ gc = [pc |-> "call", size |-> InitSize, res |-> <<>>]
  /\ \E p \in Paths, l \in InPaths :
       rz = [pc |-> "canon", path |-> p, rest |-> l, scanon |-> <<>>, cdirs |-> <<>>, res |-> False]
  /\ seen = [link |-> link, cwd |-> cwd]

-----------------------------------------------------------------------------
(* readlink                                                                *)

(* Faulty variant: the buffer is reallocated at the same size.            *)
Grown_same(size) == size

(* size *= 2, before the buffer is allocated again.                        *)
Grown(size) == 2 * size

(* One call of do_readlink (readlink or readlinkat): -1 on an error, else  *)
(* the bytes stored, at most size, with no terminating NUL.                *)
ReadlinkResults == {-1, IF Len(link) < rl.size THEN Len(link) ELSE rl.size}

(* Faulty variant: the loop goes on only past the buffer's end.            *)
ReadlinkRetry_past(rv) == rv > rl.size

(* while ((rv = do_readlink (...)) == size)                                *)
ReadlinkRetry(rv) == rv = rl.size

(* The loop: free buf, size *= 2, malloc again, and call again; after it,  *)
(* SCM_SYSERROR on -1, or the string of rv bytes of buf.                   *)
Readlink ==
  /\ rl.pc = "call"
  /\ \E rv \in ReadlinkResults :
       rl' = CASE ReadlinkRetry(rv) -> [rl EXCEPT !.size = Grown(@)]
               [] rv = -1 -> [rl EXCEPT !.pc = "raised"]
               [] OTHER -> [rl EXCEPT !.pc = "done", !.res = SubSeq(link, 1, rv)]
  /\ seen' = [seen EXCEPT !.link = link]
  /\ UNCHANGED <<link, cwd, changes, gc, rz>>

-----------------------------------------------------------------------------
(* getcwd                                                                  *)

(* while ((rv = getcwd (wd, size)) == 0 && errno == ERANGE)                *)
GetcwdRetry(err) == err = "ERANGE"

(* getcwd (3) fails with ERANGE when the name and its NUL do not fit in    *)
(* size bytes, or with another error (ENOENT: the directory was removed); *)
(* the loop doubles size on ERANGE, raises on another error, and returns   *)
(* the string otherwise.                                                   *)
Getcwd ==
  /\ gc.pc = "call"
  /\ \E err \in {IF Len(cwd) + 1 > gc.size THEN "ERANGE" ELSE "none", "ENOENT"} :
       gc' = CASE GetcwdRetry(err) -> [gc EXCEPT !.size = Grown(@)]
               [] err = "none" -> [gc EXCEPT !.pc = "done", !.res = cwd]
               [] OTHER -> [gc EXCEPT !.pc = "raised"]
  /\ seen' = [seen EXCEPT !.cwd = cwd]
  /\ UNCHANGED <<link, cwd, changes, rl, rz>>

(* Another process re-points the link, or another thread calls chdir.     *)
Change ==
  /\ changes < MaxChanges
  /\ \/ link' \in Links /\ UNCHANGED cwd
     \/ cwd' \in Cwds /\ UNCHANGED link
  /\ changes' = changes + 1
  /\ UNCHANGED <<rl, gc, rz, seen>>

-----------------------------------------------------------------------------
(* scm_i_relativize_path (path, in_path)                                   *)

(* canonicalize_file_name (path): #f if it does not exist.                 *)
RelativizeCanon ==
  /\ rz.pc = "canon"
  /\ \/ rz' = [rz EXCEPT !.pc = "loop", !.scanon = Canon(rz.path)]
     \/ rz' = [rz EXCEPT !.pc = "done", !.res = False]
  /\ UNCHANGED <<link, cwd, changes, rl, gc, seen>>

(* The value returned for a DIR of length n that matched: the rest of      *)
(* scanon after n characters, or #f if nothing is left.                    *)
Strip(s, n) == IF Len(s) > n THEN SubSeq(s, n + 1, Len(s)) ELSE False

(* Faulty variant: never adds one to len for the separator in scanon.      *)
RelativizeStep_nosep(dir, s) ==
  LET len == Len(dir) IN
  CASE ~(len > 0 /\ IsPrefix(dir, s)) -> [next |-> TRUE]
    [] dir[len] = "/" -> [next |-> FALSE, res |-> Strip(s, len)]
    [] len + 1 > Len(s) -> [next |-> FALSE, raise |-> TRUE]
    [] s[len + 1] = "/" -> [next |-> FALSE, res |-> Strip(s, len)]
    [] OTHER -> [next |-> TRUE]

(* The test of one DIR: non-empty, a prefix of scanon, and ending in a     *)
(* separator or followed by one in scanon; || evaluates scm_c_string_ref   *)
(* (scanon, len) only when DIR does not end in one, and that raises        *)
(* out-of-range when len is the length of scanon.  On a match, len is one  *)
(* more when DIR has no trailing separator.                                *)
RelativizeStep(dir, s) ==
  LET len == Len(dir) IN
  CASE ~(len > 0 /\ IsPrefix(dir, s)) -> [next |-> TRUE]
    [] dir[len] = "/" -> [next |-> FALSE, res |-> Strip(s, len)]
    [] len + 1 > Len(s) -> [next |-> FALSE, raise |-> TRUE]
    [] s[len + 1] = "/" -> [next |-> FALSE, res |-> Strip(s, len + 1)]
    [] OTHER -> [next |-> TRUE]

(* Whether canonicalize_file_name (DIR) succeeds: always for an ancestor   *)
(* of scanon, never for "", maybe for another directory.                   *)
Exists(raw, s) ==
  IF raw = <<>> THEN {FALSE} ELSE {AncestorOrSelf(Canon(raw), s), TRUE}

(* One round of the for loop: canonicalize DIR (kept as given when that   *)
(* fails), then test it.                                                   *)
RelativizeLoop ==
  /\ rz.pc = "loop"
  /\ IF rz.rest = <<>>
     THEN rz' = [rz EXCEPT !.pc = "done", !.res = False]
     ELSE LET raw == Head(rz.rest) IN
          \E exists \in Exists(raw, rz.scanon) :
            LET dir == IF exists THEN Canon(raw) ELSE raw
                r == RelativizeStep(dir, rz.scanon)
                rz1 == [rz EXCEPT !.rest = Tail(@), !.cdirs = Append(@, dir)]
            IN rz' = IF r.next THEN rz1
                     ELSE IF "raise" \in DOMAIN r THEN [rz1 EXCEPT !.pc = "raised"]
                     ELSE [rz1 EXCEPT !.pc = "done", !.res = r.res]
  /\ UNCHANGED <<link, cwd, changes, rl, gc, seen>>

Next ==
  \/ Readlink \/ Getcwd \/ Change
  \/ RelativizeCanon \/ RelativizeLoop

(* The calling threads keep running, so their steps are weakly fair; but   *)
(* no system call is assumed to fail, so ending may not rely on readlink   *)
(* or getcwd raising.  Nobody need re-point the link or change directory.  *)
Progress ==
  /\ Readlink \/ Getcwd \/ RelativizeCanon \/ RelativizeLoop
  /\ rl'.pc = "raised" => rl.pc = "raised"
  /\ gc'.pc = "raised" => gc.pc = "raised"

Spec == Init /\ [][Next]_vars /\ WF_vars(Progress)

-----------------------------------------------------------------------------
(* Properties.                                                             *)

(* readlink and getcwd never return a truncated name: whatever the link   *)
(* or directory name length relative to the doubling buffer (exactly       *)
(* filling it included), a call that returns gives the whole target or     *)
(* directory name as its last system call saw it.                         *)
NamesComplete ==
  /\ rl.pc = "done" => rl.res = seen.link
  /\ gc.pc = "done" => gc.res = seen.cwd

(* Both buffer loops end, returning or raising, whatever the link and the  *)
(* directory are re-pointed to meanwhile.                                  *)
Terminates == <>(rl.pc \in Finished /\ gc.pc \in Finished /\ rz.pc \in Finished)

(* What relativize should answer: for the first non-empty directory of    *)
(* the list (as canonicalised) that is a proper ancestor of s, the part    *)
(* of s below it; #f if there is none.                                     *)
RECURSIVE RelativeTo(_, _)
RelativeTo(s, ds) ==
  IF ds = <<>> THEN False
  ELSE LET d == Head(ds)
           t == (IF d /= <<>> /\ d[Len(d)] = "/" THEN SubSeq(d, 1, Len(d) - 1) ELSE d) \o Sep
       IN IF d /= <<>> /\ IsPrefix(t, s) /\ Len(s) > Len(t)
          THEN SubSeq(s, Len(t) + 1, Len(s))
          ELSE RelativeTo(s, Tail(ds))

(* scm_i_relativize_path returns, and never raises: its answer is the part *)
(* of the canonical path below the first load-path directory containing   *)
(* it, or #f when no directory does (a directory equal to the path         *)
(* included).                                                              *)
RelativizeCorrect ==
  rz.pc \in Finished =>
    /\ rz.pc = "done"
    /\ rz.scanon /= <<>> => rz.res = RelativeTo(rz.scanon, rz.cdirs)
=============================================================================

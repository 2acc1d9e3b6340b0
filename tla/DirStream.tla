----------------------------- MODULE DirStream -----------------------------
(***************************************************************************)
(* A directory stream of libguile/filesys.c: opendir makes a smob whose    *)
(* word 0 holds the OPEN flag, word 1 the DIR * and word 2 a mutex.         *)
(* readdir and rewinddir test the flag, then call into the DIR holding the *)
(* mutex; closedir tests the flag, calls closedir(3), and clears the flag, *)
(* without the mutex; the GC's free function closes a stream still flagged *)
(* open and destroys the mutex.                                            *)
(*                                                                         *)
(* Threads share the streams.  Each procedure is split at the points where  *)
(* another thread may run: between the flag test and the call, and         *)
(* between closedir(3) and clearing the flag.                              *)
(***************************************************************************)
EXTENDS Integers

CONSTANTS
  Streams,     \* the directory stream smobs opendir may return
  Threads,     \* threads that use them
  NEntries,    \* entries of the directory, "." and ".." included
  CloseFails,  \* may closedir(3) return -1 (having freed the DIR)?
  None

ASSUME NEntries \in Nat /\ CloseFails \in BOOLEAN

VARIABLES
  life,      \* life[s]: "none", "reachable", "unreachable", "finalized"
  flag,      \* flag[s]: SCM_DIR_OPEN_P, "open" or "closed"
  dir,       \* dir[s]: the DIR, "live" or "freed" (closedir frees it)
  pos,       \* pos[s]: entries read since opendir or rewinddir
  mutex,     \* mutex[s]: its holder, or None; "destroyed" after free
  pc,        \* pc[t]: where thread t is in a procedure on a stream
  cur        \* cur[t]: the stream that procedure was given

vars == <<life, flag, dir, pos, mutex, pc, cur>>

(* The states in which a thread is about to call into the DIR.             *)
Calls == {"rd_call", "rw_call", "cd_call"}

Idle(t) == pc' = [pc EXCEPT ![t] = "idle"]

Goto(t, l) == pc' = [pc EXCEPT ![t] = l]

Init ==
  /\ life = [s \in Streams |-> "none"] /\ flag = [s \in Streams |-> "closed"]
  /\ dir = [s \in Streams |-> "freed"] /\ pos = [s \in Streams |-> 0]
  /\ mutex = [s \in Streams |-> None]
  /\ pc = [t \in Threads |-> "idle"] /\ cur = [t \in Threads |-> None]

(* opendir: the mutex is made first, then opendir(3); on success the smob  *)
(* is returned with the OPEN flag.                                          *)
Opendir(t, s) ==
  /\ life[s] = "none" /\ pc[t] = "idle"
  /\ life' = [life EXCEPT ![s] = "reachable"] /\ flag' = [flag EXCEPT ![s] = "open"]
  /\ dir' = [dir EXCEPT ![s] = "live"]
  /\ UNCHANGED <<pos, mutex, pc, cur>>

(* readdir, rewinddir and closedir on s: SCM_MISC_ERROR (closedir: return) *)
(* unless the stream is open.                                              *)
Check(t, s, next) ==
  /\ life[s] = "reachable" /\ pc[t] = "idle"
  /\ IF flag[s] = "open" THEN Goto(t, next) ELSE Idle(t)
  /\ cur' = [cur EXCEPT ![t] = s]
  /\ UNCHANGED <<life, flag, dir, pos, mutex>>

ReaddirCheck(t, s) == Check(t, s, "rd_lock")

RewinddirCheck(t, s) == Check(t, s, "rw_lock")

ClosedirCheck(t, s) == Check(t, s, "cd_call")

(* SCM_I_LOCKED_SYSCALL and scm_i_pthread_mutex_lock: wait for the mutex.  *)
Lock(t) ==
  LET s == cur[t] IN
  /\ pc[t] \in {"rd_lock", "rw_lock"} /\ mutex[s] = None
  /\ mutex' = [mutex EXCEPT ![s] = t]
  /\ Goto(t, IF pc[t] = "rd_lock" THEN "rd_call" ELSE "rw_call")
  /\ UNCHANGED <<life, flag, dir, pos, cur>>

(* readdir(3) on the DIR read before the lock: the next entry, or NULL at  *)
(* the end; then unlock and return the name or the EOF object.             *)
ReaddirCall(t) ==
  LET s == cur[t] IN
  /\ pc[t] = "rd_call"
  /\ pos' = [pos EXCEPT ![s] = IF @ < NEntries THEN @ + 1 ELSE @]
  /\ mutex' = [mutex EXCEPT ![s] = None] /\ Idle(t)
  /\ UNCHANGED <<life, flag, dir, cur>>

(* rewinddir(3), then unlock.                                              *)
RewinddirCall(t) ==
  LET s == cur[t] IN
  /\ pc[t] = "rw_call"
  /\ pos' = [pos EXCEPT ![s] = 0]
  /\ mutex' = [mutex EXCEPT ![s] = None] /\ Idle(t)
  /\ UNCHANGED <<life, flag, dir, cur>>

(* closedir(3) frees the DIR; a result other than 0 is SCM_SYSERROR,       *)
(* which leaves the OPEN flag set.                                         *)
ClosedirCall(t) ==
  /\ pc[t] = "cd_call"
  /\ dir' = [dir EXCEPT ![cur[t]] = "freed"]
  /\ \/ Goto(t, "cd_clear")
     \/ CloseFails /\ Idle(t)
  /\ UNCHANGED <<life, flag, pos, mutex, cur>>

(* Faulty variant: returns without clearing the OPEN flag.                 *)
ClosedirClear_noflag(t) ==
  /\ pc[t] = "cd_clear"
  /\ Idle(t)
  /\ UNCHANGED <<life, flag, dir, pos, mutex, cur>>

(* SCM_SET_SMOB_DATA_0 (port, scm_tc16_dir): the OPEN flag is cleared.     *)
ClosedirClear(t) ==
  /\ pc[t] = "cd_clear"
  /\ flag' = [flag EXCEPT ![cur[t]] = "closed"] /\ Idle(t)
  /\ UNCHANGED <<life, dir, pos, mutex, cur>>

(* The program drops its last reference to s once no thread is using it.  *)
Drop(s) ==
  /\ life[s] = "reachable" /\ \A t \in Threads : pc[t] = "idle" \/ cur[t] /= s
  /\ life' = [life EXCEPT ![s] = "unreachable"]
  /\ UNCHANGED <<flag, dir, pos, mutex, pc, cur>>

(* scm_dir_free: closedir(3) if still flagged open, destroy the mutex.     *)
DirFree(s) ==
  /\ life[s] = "unreachable"
  /\ dir' = IF flag[s] = "open" THEN [dir EXCEPT ![s] = "freed"] ELSE dir
  /\ life' = [life EXCEPT ![s] = "finalized"] /\ mutex' = [mutex EXCEPT ![s] = "destroyed"]
  /\ UNCHANGED <<flag, pos, pc, cur>>

Next ==
  \/ \E t \in Threads :
       \/ \E s \in Streams :
            Opendir(t, s) \/ ReaddirCheck(t, s) \/ RewinddirCheck(t, s) \/ ClosedirCheck(t, s)
       \/ Lock(t) \/ ReaddirCall(t) \/ RewinddirCall(t) \/ ClosedirCall(t) \/ ClosedirClear(t)
  \/ \E s \in Streams : Drop(s) \/ DirFree(s)

Spec == Init /\ [][Next]_vars

-----------------------------------------------------------------------------
(* Properties.                                                             *)

(* No use after free: a thread that passed the OPEN test and is about to   *)
(* call readdir(3), rewinddir(3) or closedir(3), and the GC's free function *)
(* about to close a stream flagged open, find the DIR still allocated.     *)
SafeDirAccess ==
  /\ \A t \in Threads : pc[t] \in Calls => dir[cur[t]] = "live"
  /\ \A s \in Streams : life[s] = "unreachable" /\ flag[s] = "open" => dir[s] = "live"
=============================================================================

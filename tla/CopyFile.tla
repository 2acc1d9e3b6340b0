------------------------------ MODULE CopyFile ------------------------------
(***************************************************************************)
(* copy-file (scm_copy_file2) and the sendfile it calls, libguile/         *)
(* filesys.c: open the source, fstat it, open the destination, bind the    *)
(* #:copy-on-write keyword, try a reflink clone, and otherwise lseek to    *)
(* find the size and copy with sendfile(2), falling back to read/write.    *)
(*                                                                         *)
(* Every system call is one step that may succeed or fail as the kernel    *)
(* allows.  The bytes of the source file are named by their offsets        *)
(* 1..size; the destination is the sequence of source offsets written to   *)
(* it.  BufSize stands for the 8192-byte buffer of the fallback loop.      *)
(***************************************************************************)
EXTENDS Integers, Sequences, FiniteSetsExt

CONSTANTS
  MaxSize,   \* bound: bytes in the source file
  BufSize,   \* the fallback buffer, sizeof buf
  MaxIntr,   \* bound: EINTR/EAGAIN returns of sendfile in one call
  CowArgs,   \* the #:copy-on-write arguments callers pass
  Shrinks    \* may another process truncate the source during the copy?

ASSUME /\ MaxSize \in Nat /\ BufSize \in Nat \ {0} /\ MaxIntr \in Nat
       /\ Shrinks \in BOOLEAN
       /\ CowArgs \subseteq {"always", "auto", "never", "other", "badkeyword"}

VARIABLES
  pc,        \* the next statement of copy-file
  size,      \* the current length of the source file
  cow,       \* the #:copy-on-write argument of this call
  sfOk,      \* does sendfile(2) support this pair of files (no EINVAL/ENOSYS)?
  open,      \* the descriptors this call holds open: subset of {"old", "new"}
  dst,       \* the destination's content, as source offsets
  inPos,     \* the file offset of oldfd
  count,     \* c_count of sendfile: the end offset found by lseek
  total,     \* bytes sent so far by sendfile
  result,    \* the last sendfile result, as "pos", "zero" or "neg"
  intr,      \* EINTR/EAGAIN returns so far
  eof        \* reached_eof of the fallback loop

vars == <<pc, size, cow, sfOk, open, dst, inPos, count, total, result, intr, eof>>

Finished == {"done", "raised"}

(* Bytes left to read at oldfd's offset.                                   *)
Avail == IF inPos < size THEN size - inPos ELSE 0

(* The source bytes from offset p, n of them, as they land in dst.         *)
Bytes(p, n) == [i \in 1..n |-> p + i]

(* SCM_SYSERROR and scm_misc_error: a non-local exit.  The C strings are   *)
(* freed by the dynwind frame; the descriptors are not registered with it  *)
(* and stay open.                                                          *)
Raise == pc' = "raised"

Init ==
  /\ pc = "open_old"
  /\ size \in 0..MaxSize
  /\ cow \in CowArgs
  /\ sfOk \in BOOLEAN
  /\ open = {} /\ dst = <<>> /\ inPos = 0
  /\ count = 0 /\ total = 0 /\ result = "pos" /\ intr = 0 /\ eof = FALSE

-----------------------------------------------------------------------------
(* scm_copy_file2                                                          *)

(* oldfd = open (c_oldfile, O_RDONLY); SCM_SYSERROR on -1.                 *)
OpenOld ==
  /\ pc = "open_old"
  /\ \/ open' = {"old"} /\ pc' = "fstat"
     \/ Raise /\ UNCHANGED open
  /\ UNCHANGED <<size, cow, sfOk, dst, inPos, count, total, result, intr, eof>>

(* fstat, then open of the destination with O_CREAT|O_TRUNC; either       *)
(* failure goes to err_close_oldfd.                                        *)
Fstat ==
  /\ pc = "fstat"
  /\ \/ pc' = "open_new" /\ UNCHANGED open
     \/ open' = open \ {"old"} /\ Raise
  /\ UNCHANGED <<size, cow, sfOk, dst, inPos, count, total, result, intr, eof>>

OpenNew ==
  /\ pc = "open_new"
  /\ \/ open' = open \cup {"new"} /\ dst' = <<>> /\ pc' = "bind"
     \/ open' = open \ {"old"} /\ Raise /\ UNCHANGED dst
  /\ UNCHANGED <<size, cow, sfOk, inPos, count, total, result, intr, eof>>

(* scm_c_bind_keyword_arguments raises on an unknown keyword; then the     *)
(* #:copy-on-write value picks clone_file or not, and an unknown value is  *)
(* an error; 'always turns a failed clone into an error.                   *)
BindAndClone ==
  /\ pc = "bind"
  /\ \/ cow \in {"badkeyword", "other"} /\ Raise /\ UNCHANGED dst
     \/ cow \in {"always", "auto"} /\ dst' = Bytes(0, size) /\ pc' = "close"
     \/ /\ cow \in {"always", "auto", "never"}
        /\ UNCHANGED dst
        /\ IF cow = "always" THEN Raise ELSE pc' = "lseek_end"
  /\ UNCHANGED <<size, cow, sfOk, open, inPos, count, total, result, intr, eof>>

(* end = lseek (oldfd, 0, SEEK_END); lseek (oldfd, 0, SEEK_SET).           *)
LseekEnd ==
  /\ pc = "lseek_end"
  /\ \/ inPos' = size /\ count' = size /\ pc' = "lseek_set"
     \/ Raise /\ UNCHANGED <<inPos, count>>
  /\ UNCHANGED <<size, cow, sfOk, open, dst, total, result, intr, eof>>

LseekSet ==
  /\ pc = "lseek_set"
  /\ \/ inPos' = 0 /\ pc' = "sendfile"
     \/ Raise /\ UNCHANGED inPos
  /\ UNCHANGED <<size, cow, sfOk, open, dst, count, total, result, intr, eof>>

(* close (oldfd), result ignored; close (newfd), SCM_SYSERROR on -1.  Both *)
(* descriptors are released either way.                                    *)
CloseBoth ==
  /\ pc = "close"
  /\ open' = {}
  /\ pc' \in {"done", "raised"}
  /\ UNCHANGED <<size, cow, sfOk, dst, inPos, count, total, result, intr, eof>>

-----------------------------------------------------------------------------
(* scm_sendfile (newfd, oldfd, end), offset unbound: the do-while loop     *)
(* over sendfile(2), then the read/write fallback.                         *)

(* Faulty variant: a loop that goes on while result >= 0.                  *)
SendfileLoopNext_nonneg(t, r) ==
  IF t < count /\ r \in {"pos", "zero"} THEN "sendfile" ELSE "close"

(* The loop condition total < c_count && result > 0; leaving the loop     *)
(* with result >= 0 returns total to copy-file, which ignores it.          *)
SendfileLoopNext(t, r) ==
  IF t < count /\ r = "pos" THEN "sendfile" ELSE "close"

(* Faulty variant: takes EINTR/EAGAIN for end of file.                     *)
Sendfile_eintr_ends ==
  /\ pc = "sendfile"
  /\ \/ /\ sfOk
        /\ \E k \in 1..Min({Avail, count - total}) :
             /\ dst' = dst \o Bytes(inPos, k)
             /\ inPos' = inPos + k /\ total' = total + k /\ result' = "pos"
             /\ pc' = SendfileLoopNext(total + k, "pos")
        /\ UNCHANGED <<intr, eof>>
     \/ /\ sfOk /\ (Avail = 0 \/ total = count \/ intr < MaxIntr)
        /\ result' = "zero" /\ pc' = SendfileLoopNext(total, "zero")
        /\ UNCHANGED <<dst, inPos, total, intr, eof>>
     \/ /\ result' = "neg"
        /\ IF sfOk THEN Raise ELSE pc' = "rw"
        /\ UNCHANGED <<dst, inPos, total, intr, eof>>
  /\ UNCHANGED <<size, cow, sfOk, open, count>>

(* One sendfile(2) call: k > 0 bytes sent, 0 at end of file, EINTR/EAGAIN  *)
(* (result set to 1 to keep going), EINVAL/ENOSYS on files it does not     *)
(* support (on to the fallback, with total = 0 and left = c_count), or     *)
(* another error (SCM_SYSERROR).                                           *)
Sendfile ==
  /\ pc = "sendfile"
  /\ \/ /\ sfOk
        /\ \E k \in 1..Min({Avail, count - total}) :
             /\ dst' = dst \o Bytes(inPos, k)
             /\ inPos' = inPos + k /\ total' = total + k /\ result' = "pos"
             /\ pc' = SendfileLoopNext(total + k, "pos")
        /\ UNCHANGED <<intr, eof>>
     \/ /\ sfOk /\ (Avail = 0 \/ total = count)
        /\ result' = "zero" /\ pc' = SendfileLoopNext(total, "zero")
        /\ UNCHANGED <<dst, inPos, total, intr, eof>>
     \/ /\ sfOk /\ intr < MaxIntr
        /\ intr' = intr + 1 /\ result' = "pos" /\ pc' = SendfileLoopNext(total, "pos")
        /\ UNCHANGED <<dst, inPos, total, eof>>
     \/ /\ result' = "neg"
        /\ IF sfOk THEN Raise ELSE pc' = "rw"
        /\ UNCHANGED <<dst, inPos, total, intr, eof>>
  /\ UNCHANGED <<size, cow, sfOk, open, count>>

(* One round of the fallback loop, while total < c_count && !reached_eof:  *)
(* full_read of MIN (sizeof buf, left) bytes (short at end of file with    *)
(* errno 0, or an error), then full_write of what was obtained (complete,  *)
(* or an error).  Leaving the loop returns total.                          *)
ReadWrite ==
  LET left     == count - total
      asked    == Min({BufSize, left})
      obtained == Min({asked, Avail})
  IN /\ pc = "rw"
     /\ IF total < count /\ ~eof
        THEN \/ /\ dst' = dst \o Bytes(inPos, obtained)
                /\ inPos' = inPos + obtained /\ total' = total + obtained
                /\ eof' = (obtained < asked)
                /\ UNCHANGED pc
             \/ Raise /\ UNCHANGED <<dst, inPos, total, eof>>
        ELSE pc' = "close" /\ UNCHANGED <<dst, inPos, total, eof>>
     /\ UNCHANGED <<size, cow, sfOk, open, count, result, intr>>

(* Another process truncates the source while copy-file runs.             *)
Truncate ==
  /\ Shrinks /\ pc \notin Finished
  /\ size' \in 0..(size - 1)
  /\ UNCHANGED <<pc, cow, sfOk, open, dst, inPos, count, total, result, intr, eof>>

Next ==
  \/ OpenOld \/ Fstat \/ OpenNew \/ BindAndClone \/ LseekEnd \/ LseekSet
  \/ Sendfile \/ ReadWrite \/ CloseBoth \/ Truncate

(* The calling thread keeps running, so its steps are weakly fair; but no   *)
(* system call is assumed to fail, so finishing may not rely on one: the   *)
(* fair steps are those that do not raise, except the raises of the        *)
(* keyword checks, which follow from the arguments.  Truncation by another *)
(* process need not happen.                                                *)
Progress == Next /\ ~Truncate /\ (pc' = "raised" => pc = "bind")

Spec == Init /\ [][Next]_vars /\ WF_vars(Progress)

-----------------------------------------------------------------------------
(* Properties.                                                             *)

(* When copy-file returns normally, the destination holds the source's    *)
(* bytes in order from offset 0, and at least as many as the source has    *)
(* now (all of them, if nobody truncated it), whichever of clone, sendfile *)
(* (partial transfers, EINTR/EAGAIN retries) or the read/write fallback    *)
(* did it.                                                                 *)
CopyExact == pc = "done" => dst = Bytes(0, Len(dst)) /\ Len(dst) >= size

(* copy-file always finishes, returning or raising, even when the source   *)
(* shrinks under it: the sendfile loop leaves on a 0 result and the        *)
(* fallback loop on a short read.                                          *)
Terminates == <>(pc \in Finished)

(* No descriptor outlives the call: when copy-file has returned or raised, *)
(* it holds neither oldfd nor newfd.                                       *)
NoDescriptorLeak == pc \in Finished => open = {}
=============================================================================

----------------------------- MODULE MCCopyFile -----------------------------
(***************************************************************************)
(* Model-checking instance of CopyFile: files of up to three bytes and a   *)
(* two-byte buffer, so that sendfile may stop short and the fallback loop  *)
(* needs more than one round and ends on a short read.                     *)
(***************************************************************************)
EXTENDS CopyFile

MCMaxSize == 3
MCBufSize == 2
MCMaxIntr == 1
MCCowArgs == {"always", "auto", "never", "other", "badkeyword"}
=============================================================================

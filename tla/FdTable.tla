------------------------------ MODULE FdTable ------------------------------
(***************************************************************************)
(* File descriptors and the file ports built on them, as the procedures of *)
(* libguile/ioext.c and the descriptor procedures of libguile/filesys.c    *)
(* change them: open-fdes, open and openat, fdopen, dup->fdes, dup2,       *)
(* primitive-move->fdes, redirect-port, close and close-fdes, and closing  *)
(* a port.                                                                 *)
(*                                                                         *)
(* The kernel's table maps each descriptor to an open file description     *)
(* (numbered in order of opening) or NoFile; dup and open return the       *)
(* lowest free descriptor.  A port holds a descriptor.  The history        *)
(* variable "pfile" records which description each port was opened on,    *)
(* as changed only where the documentation of a procedure says it is      *)
(* (redirect-port, dup2 on a port's descriptor, close-fdes).  Each        *)
(* description has the access mode of the open(2) flags that made it, and  *)
(* a port made by open or openat the mode string flags_to_mode gave it.    *)
(***************************************************************************)
EXTENDS Integers, FiniteSets, Bitwise, TLC

CONSTANTS
  MaxFd,     \* descriptors are 0..MaxFd-1 (the RLIMIT_NOFILE of the model)
  Ports,     \* port objects that may be created
  MaxOpens,  \* bound: files opened in a run
  Shared,    \* may fdopen make a second port on a descriptor a port uses?
  CloseUnder,\* may close-fdes close a descriptor a port uses?
  Flags,     \* open(2) flag words callers pass to open-fdes, open and openat
  NoFile

ASSUME MaxFd \in Nat \ {0} /\ MaxOpens \in Nat /\ Shared \in BOOLEAN /\ CloseUnder \in BOOLEAN

VARIABLES
  file,      \* file[fd]: the open file description fd refers to, or NoFile
  pst,       \* pst[p]: "none" (not made yet), "open" or "closed"
  pfd,       \* pfd[p]: SCM_FPORT_FDES of an open port
  pfile,     \* history: the description the open port p stands for
  opened,    \* open file descriptions created so far
  acc,       \* acc[d]: what description d may do: {"read"}, {"write"} or both
  pmode      \* pmode[p]: [mode, file] of a port made by open(at), or NoMode

vars == <<file, pst, pfd, pfile, opened, acc, pmode>>

NoMode == [mode |-> "none", file |-> NoFile]

(* The flag bits, with their Linux values.                                 *)
O_RDONLY == 0
O_WRONLY == 1
O_RDWR   == 2
O_ACCMODE == 3
O_CREAT  == 64
O_APPEND == 1024

(* open(2): the access a description opened with flags iflags has.         *)
AccessOf(iflags) ==
  CASE (iflags & O_ACCMODE) = O_RDONLY -> {"read"}
    [] (iflags & O_ACCMODE) = O_WRONLY -> {"write"}
    [] OTHER                           -> {"read", "write"}

(* What a port of each mode string may do (scm_mode_bits: "r" reads, "w" and  *)
(* "a" write, "+" both).                                                   *)
ModeCaps ==
  ("r" :> {"read"}) @@ ("w" :> {"write"}) @@ ("a" :> {"write"})
  @@ ("r+" :> {"read", "write"}) @@ ("w+" :> {"read", "write"})
  @@ ("a+" :> {"read", "write"})

(* Faulty variant: "a" for a read-write open with O_APPEND, the "+"       *)
(* forgotten.                                                              *)
flags_to_mode_noplus(iflags) ==
  IF (iflags & O_RDWR) = O_RDWR
  THEN IF (iflags & O_APPEND) /= 0 THEN "a"
       ELSE IF (iflags & O_CREAT) /= 0 THEN "w+" ELSE "r+"
  ELSE IF (iflags & O_APPEND) /= 0 THEN "a"
  ELSE IF (iflags & O_WRONLY) /= 0 THEN "w"
  ELSE "r"

(* flags_to_mode: the read-write test first, then O_APPEND before          *)
(* O_WRONLY.                                                               *)
flags_to_mode(iflags) ==
  IF (iflags & O_RDWR) = O_RDWR
  THEN IF (iflags & O_APPEND) /= 0 THEN "a+"
       ELSE IF (iflags & O_CREAT) /= 0 THEN "w+" ELSE "r+"
  ELSE IF (iflags & O_APPEND) /= 0 THEN "a"
  ELSE IF (iflags & O_WRONLY) /= 0 THEN "w"
  ELSE "r"

Fds == 0..(MaxFd - 1)

FreeFds == {fd \in Fds : file[fd] = NoFile}

OpenPorts == {p \in Ports : pst[p] = "open"}

PortsOn(fd) == {p \in OpenPorts : pfd[p] = fd}

(* Lowest free descriptor in table f, or -1 (EMFILE).                      *)
Lowest(f) == LET free == {fd \in Fds : f[fd] = NoFile}
             IN IF free = {} THEN -1 ELSE CHOOSE fd \in free : \A g \in free : fd <= g

(* dup2 (old, new): new refers to old's description; new's is released.   *)
Dup2(f, old, new) == [f EXCEPT ![new] = f[old]]

(* scm_evict_ports (fd): every open port using fd moves to dup (fd), one   *)
(* after the other; a dup failing with EMFILE raises, leaving the ports    *)
(* not yet moved on fd.  Result: [file, pfd, failed].                      *)
RECURSIVE EvictEach(_, _, _)
EvictEach(m, fd, ps) ==
  IF ps = {} \/ m.failed THEN m
  ELSE LET p == CHOOSE q \in ps : TRUE
           n == Lowest(m.file)
       IN EvictEach(IF n = -1 THEN [m EXCEPT !.failed = TRUE]
                    ELSE [m EXCEPT !.file[n] = m.file[fd], !.pfd[p] = n],
                    fd, ps \ {p})

scm_evict_ports(fd) == EvictEach([file |-> file, pfd |-> pfd, failed |-> FALSE], fd, PortsOn(fd))

Init ==
  /\ file = [fd \in Fds |-> IF fd = 0 THEN 1 ELSE NoFile]
  /\ \E p \in Ports :
       /\ pst = [q \in Ports |-> IF q = p THEN "open" ELSE "none"]
       /\ pfd = [q \in Ports |-> 0]
       /\ pfile = [q \in Ports |-> IF q = p THEN 1 ELSE NoFile]
  /\ opened = 1
  /\ acc = [d \in 1..MaxOpens |-> IF d = 1 THEN {"read"} ELSE {}]
  /\ pmode = [q \in Ports |-> NoMode]

-----------------------------------------------------------------------------
(* Actions.                                                                *)

(* open(2) with flags iflags: a description at the lowest free descriptor. *)
OpenDescription(iflags) ==
  /\ opened < MaxOpens /\ FreeFds /= {}
  /\ file' = [file EXCEPT ![Lowest(file)] = opened + 1]
  /\ acc' = [acc EXCEPT ![opened + 1] = AccessOf(iflags)]
  /\ opened' = opened + 1

(* open-fdes: open(2); EMFILE or any other failure raises and changes      *)
(* nothing.                                                                *)
OpenFdes(iflags) ==
  /\ OpenDescription(iflags)
  /\ UNCHANGED <<pst, pfd, pfile, pmode>>

(* open-fdes-at: SCM_VALIDATE_OPFPORT on the directory port, then open-fdes *)
(* relative to its descriptor.                                             *)
OpenFdesAt(dir, iflags) ==
  /\ dir \in OpenPorts
  /\ OpenFdes(iflags)

(* open, and openat on an open directory port: open-fdes(-at), then        *)
(* scm_fdes_to_port on the new descriptor with the mode flags_to_mode      *)
(* gives; the port is not verified against the descriptor.                 *)
Open(p, iflags) ==
  /\ pst[p] = "none"
  /\ OpenDescription(iflags)
  /\ pst' = [pst EXCEPT ![p] = "open"]
  /\ pfd' = [pfd EXCEPT ![p] = Lowest(file)]
  /\ pfile' = [pfile EXCEPT ![p] = opened + 1]
  /\ pmode' = [pmode EXCEPT ![p] = [mode |-> flags_to_mode(iflags), file |-> opened + 1]]

OpenAt(p, dir, iflags) ==
  /\ dir \in OpenPorts
  /\ Open(p, iflags)

(* fdopen: a new port on fd; SCM_FPORT_OPTION_VERIFY raises on a closed   *)
(* descriptor.                                                             *)
Fdopen(p, fd) ==
  /\ pst[p] = "none" /\ file[fd] /= NoFile
  /\ Shared \/ PortsOn(fd) = {}
  /\ pst' = [pst EXCEPT ![p] = "open"]
  /\ pfd' = [pfd EXCEPT ![p] = fd]
  /\ pfile' = [pfile EXCEPT ![p] = file[fd]]
  /\ UNCHANGED <<file, opened, acc, pmode>>

(* dup->fdes with one argument: dup (oldfd), raising on EBADF or EMFILE.  *)
DupFdes(oldfd) ==
  /\ file[oldfd] /= NoFile /\ FreeFds /= {}
  /\ file' = [file EXCEPT ![Lowest(file)] = file[oldfd]]
  /\ UNCHANGED <<pst, pfd, pfile, opened, acc, pmode>>

(* dup->fdes with a target: unless oldfd = newfd, evict the ports on      *)
(* newfd, then dup2, which may fail (EBADF, EINTR) and raise.              *)
DupToFdes(oldfd, newfd) ==
  /\ oldfd /= newfd
  /\ LET m == scm_evict_ports(newfd)
     IN /\ pfd' = m.pfd
        /\ \/ m.failed /\ file' = m.file
           \/ ~m.failed /\ file' = m.file
           \/ ~m.failed /\ m.file[oldfd] /= NoFile /\ file' = Dup2(m.file, oldfd, newfd)
  /\ UNCHANGED <<pst, pfile, opened, acc, pmode>>

(* dup2: no attempt to move ports away from newfd; as documented, they    *)
(* now stand for oldfd's file.                                             *)
Dup2Fdes(oldfd, newfd) ==
  /\ file[oldfd] /= NoFile
  /\ file' = Dup2(file, oldfd, newfd)
  /\ pfile' = [p \in Ports |-> IF p \in PortsOn(newfd) THEN file[oldfd] ELSE pfile[p]]
  /\ UNCHANGED <<pst, pfd, opened, acc, pmode>>

(* Faulty variant: moves the port without evicting the ports on fd.       *)
PrimitiveMove_noevict(p, fd) ==
  /\ p \in OpenPorts /\ pfd[p] /= fd /\ file[pfd[p]] /= NoFile
  /\ file' = [Dup2(file, pfd[p], fd) EXCEPT ![pfd[p]] = NoFile]
  /\ pfd' = [pfd EXCEPT ![p] = fd]
  /\ UNCHANGED <<pst, pfile, opened, acc, pmode>>

(* primitive-move->fdes: #f if the port already has fd; otherwise evict    *)
(* the ports on fd, dup2 (SCM_SYSERROR on -1), set the port's descriptor, *)
(* close the old one.                                                      *)
PrimitiveMove(p, fd) ==
  /\ p \in OpenPorts /\ pfd[p] /= fd
  /\ LET m == scm_evict_ports(fd)
         old == pfd[p]
     IN \/ file' = m.file /\ pfd' = m.pfd     \* eviction or dup2 raised
        \/ /\ ~m.failed /\ m.file[old] /= NoFile
           /\ file' = [Dup2(m.file, old, fd) EXCEPT ![old] = NoFile]
           /\ pfd' = [m.pfd EXCEPT ![p] = fd]
  /\ UNCHANGED <<pst, pfile, opened, acc, pmode>>

(* redirect-port: dup2 (oldfd, newfd) unless they are equal; new now      *)
(* stands for old's file, sharing its position.                            *)
RedirectPort(old, new) ==
  /\ old \in OpenPorts /\ new \in OpenPorts /\ pfd[old] /= pfd[new]
  /\ file' = Dup2(file, pfd[old], pfd[new])
  /\ pfile' = [pfile EXCEPT ![new] = pfile[old]]
  /\ UNCHANGED <<pst, pfd, opened, acc, pmode>>

(* close on a descriptor: evict its ports, then close (2); an already     *)
(* closed descriptor is not an error.                                      *)
CloseFd(fd) ==
  /\ LET m == scm_evict_ports(fd)
     IN /\ pfd' = m.pfd
        /\ file' = IF m.failed THEN m.file ELSE [m.file EXCEPT ![fd] = NoFile]
  /\ UNCHANGED <<pst, pfile, opened, acc, pmode>>

(* close-fdes: closes fd even if ports use it; as documented, they no     *)
(* longer stand for a file.                                                *)
CloseFdes(fd) ==
  /\ file[fd] /= NoFile
  /\ CloseUnder \/ PortsOn(fd) = {}
  /\ file' = [file EXCEPT ![fd] = NoFile]
  /\ pfile' = [p \in Ports |-> IF p \in PortsOn(fd) THEN NoFile ELSE pfile[p]]
  /\ UNCHANGED <<pst, pfd, opened, acc, pmode>>

(* close on a port: close-port, which closes the port's descriptor.       *)
ClosePort(p) ==
  /\ p \in OpenPorts
  /\ pst' = [pst EXCEPT ![p] = "closed"]
  /\ file' = [file EXCEPT ![pfd[p]] = NoFile]
  /\ UNCHANGED <<pfd, pfile, opened, acc, pmode>>

Next ==
  \/ \E f \in Flags : OpenFdes(f) \/ \E dir \in Ports : OpenFdesAt(dir, f)
  \/ \E p \in Ports, f \in Flags : Open(p, f) \/ \E dir \in Ports : OpenAt(p, dir, f)
  \/ \E p \in Ports, fd \in Fds : Fdopen(p, fd) \/ PrimitiveMove(p, fd)
  \/ \E fd \in Fds : DupFdes(fd) \/ CloseFd(fd) \/ CloseFdes(fd)
  \/ \E old, new \in Fds : DupToFdes(old, new) \/ Dup2Fdes(old, new)
  \/ \E old, new \in Ports : RedirectPort(old, new)
  \/ \E p \in Ports : ClosePort(p)

Spec == Init /\ [][Next]_vars

-----------------------------------------------------------------------------
(* Properties.                                                             *)

(* Every open port still stands for the file it was opened on (or was      *)
(* redirected to): no eviction, move, dup or close leaves a port on a      *)
(* descriptor that is closed or that now refers to another file, unless    *)
(* the procedure documents it (dup2, close-fdes).                          *)
PortFileIntegrity ==
  \A p \in OpenPorts : pfile[p] /= NoFile => file[pfd[p]] = pfile[p]

(* A port made by open or openat can do what the file it was opened on can *)
(* do, no more and no less, as long as it still stands for that file: its  *)
(* mode string, from flags_to_mode, agrees with the access mode of the     *)
(* flags, whichever of O_APPEND and O_CREAT come with it.                  *)
PortModeAgrees ==
  \A p \in OpenPorts :
    pmode[p] /= NoMode /\ pfile[p] = pmode[p].file /\ file[pfd[p]] = pfile[p]
      => ModeCaps[pmode[p].mode] = acc[pmode[p].file]
=============================================================================

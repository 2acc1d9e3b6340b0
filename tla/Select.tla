------------------------------- MODULE Select -------------------------------
(***************************************************************************)
(* select in libguile/filesys.c: the three lists (or vectors) of ports and *)
(* descriptors are split by set_element into descriptors put in an fd_set  *)
(* and ports whose buffer is ready already; the timeout is made zero when  *)
(* a buffer is ready; scm_std_select waits on descriptors below max_fd + 1; *)
(* retrieve_select_type conses the members whose descriptor is set onto    *)
(* the ports ready by buffering.                                           *)
(*                                                                         *)
(* One call is modelled.  Meanwhile the kernel may make any descriptor     *)
(* ready for any kind of event (readiness is never withdrawn), and a       *)
(* signal or async may interrupt the wait.  Lists and vectors differ only  *)
(* in the order they are walked and answered in.                           *)
(***************************************************************************)
EXTENDS Integers, Sequences, SequencesExt, Bags

CONSTANTS
  Ports,       \* file ports that may be given
  Ints,        \* integers that may be given as descriptors
  PortFd,      \* SCM_FPORT_FDES of each port
  Fds,         \* descriptors the kernel may make ready
  Open,        \* descriptors that are open
  FdSetSize,   \* FD_SETSIZE: FD_SET and FD_ISSET take 0 .. FdSetSize-1
  Args,        \* argument triples: [r, w, e] sequences of Ports \cup Ints
  Timeouts     \* [secs, usecs]: "unbound", "int", "real" or "huge" secs

Kinds == {"r", "w", "e"}

ASSUME /\ Ports \cap Ints = {}
       /\ PortFd \in [Ports -> 0 .. (FdSetSize - 1)]
       /\ Ints \subseteq -1 .. (FdSetSize - 1)
       /\ Fds \cup Open \subseteq 0 .. (FdSetSize - 1)

VARIABLES
  kready,      \* kready[k]: descriptors the kernel holds ready for event k
  take,        \* take[p]: bytes port p's read buffer can give
  room,        \* room[p]: bytes port p's write buffer can take
  pc,          \* "fill", "wait", "done", "raised" or "crashed"
  arg,         \* the call: [r, w, e, vec, secs, usecs]
  set,         \* set[k]: the fd_set of event k
  ready,       \* ready[k]: the ports_ready list of k ("e" stays empty)
  maxfd,       \* max_fd
  timeout,     \* "zero", "infinite" or "finite"
  res,         \* res[k]: the answer for k
  intr,        \* did scm_std_select fail with EINTR or EAGAIN?
  kseen        \* history: kready when scm_std_select returned

vars == <<kready, take, room, pc, arg, set, ready, maxfd, timeout, res, intr, kseen>>

Finished == {"done", "raised", "crashed"}

(* The order fill_select_type and retrieve_select_type walk a list in: a   *)
(* vector from its last element, a list from its first.                    *)
Walk(l) == IF arg.vec THEN Reverse(l) ELSE l

Init ==
  /\ kready = [k \in Kinds |-> {}]
  /\ take \in [Ports -> {0, 1}]
  /\ room \in [Ports -> {0, 1, 2}]
  /\ \E a \in Args, t \in Timeouts, vec \in BOOLEAN :
       arg = [r |-> a.r, w |-> a.w, e |-> a.e, vec |-> vec,
              secs |-> t.secs, usecs |-> t.usecs]
  /\ pc = "fill"
  /\ set = [k \in Kinds |-> {}] /\ ready = [k \in Kinds |-> <<>>]
  /\ maxfd = 0 /\ timeout = "infinite"
  /\ res = [k \in Kinds |-> <<>>] /\ intr = FALSE
  /\ kseen = [k \in Kinds |-> {}]

-----------------------------------------------------------------------------
(* set_element                                                             *)

(* scm_port_buffer_can_put (write_buf) > 1: writing the last byte of the   *)
(* buffer would flush it.                                                  *)
CanPut(p) == room[p] > 1

(* The descriptor set_element files element e of list k under: -1 for a    *)
(* port whose buffer is ready (input buffered for a read, room for a       *)
(* write), else the integer or the port's descriptor.                      *)
SetFd(k, e) ==
  IF e \in Ints THEN e
  ELSE IF (k = "r" /\ take[e] > 0) \/ (k = "w" /\ CanPut(e)) THEN -1
  ELSE PortFd[e]

(* fill_select_type: FD_SET each descriptor, cons each -1 element onto the *)
(* ports_ready list, and return the largest descriptor (0 at least).       *)
FillSet(k) == {SetFd(k, e) : e \in Range(arg[k])} \ {-1}

FillReady(k) ==
  FoldLeft(LAMBDA acc, e : IF SetFd(k, e) = -1 THEN Cons(e, acc) ELSE acc,
           <<>>, Walk(arg[k]))

FillMax(k) == FoldLeft(LAMBDA m, fd : IF fd > m THEN fd ELSE m, 0,
                       [i \in DOMAIN arg[k] |-> SetFd(k, arg[k][i])])

(* Faulty variant: buffered writers do not make the timeout zero.          *)
ZeroTimeout_readsonly(rr, wr) == rr /= <<>>

(* A port with a ready buffer makes select poll instead of block.         *)
ZeroTimeout(rr, wr) == rr /= <<>> \/ wr /= <<>>

(* The timeout: zero when a buffer is ready; none for an unbound or #f     *)
(* secs; an integer secs with any usecs; a real secs without usecs, and   *)
(* not above LONG_MAX.  "bad" is a wrong-type or out-of-range raise.      *)
TimeoutOf(rr, wr) ==
  CASE ZeroTimeout(rr, wr) -> "zero"
    [] arg.secs = "unbound" -> "infinite"
    [] arg.secs = "int" -> "finite"
    [] arg.usecs /= "unbound" \/ arg.secs = "huge" -> "bad"
    [] OTHER -> "finite"

(* The lists are filled in the order reads, writes, excepts; an except    *)
(* element filed under -1 is consed onto the NULL ports_ready pointer.     *)
Fill ==
  /\ pc = "fill"
  /\ IF -1 \in {SetFd("e", e) : e \in Range(arg.e)}
     THEN pc' = "crashed" /\ UNCHANGED <<set, ready, maxfd, timeout>>
     ELSE LET rr == FillReady("r")
              wr == FillReady("w")
              t == TimeoutOf(rr, wr)
          IN /\ set' = [k \in Kinds |-> FillSet(k)]
             /\ ready' = [k \in Kinds |-> CASE k = "r" -> rr [] k = "w" -> wr [] OTHER -> <<>>]
             /\ maxfd' = Max({FillMax(k) : k \in Kinds})
             /\ timeout' = t
             /\ pc' = IF t = "bad" THEN "raised" ELSE "wait"
  /\ UNCHANGED <<kready, take, room, arg, res, intr, kseen>>

(* The kernel makes descriptor fd ready for event k while select waits on  *)
(* it; readiness present before the call is the same as readiness that     *)
(* comes before the wait returns.                                          *)
Arrive(k, fd) ==
  /\ pc = "wait" /\ fd \in set[k] \ kready[k]
  /\ kready' = [kready EXCEPT ![k] = @ \cup {fd}]
  /\ UNCHANGED <<take, room, pc, arg, set, ready, maxfd, timeout, res, intr, kseen>>

-----------------------------------------------------------------------------
(* scm_std_select and retrieve_select_type                                 *)

(* Faulty variant: nfds is max_fd, not max_fd + 1.                         *)
Nfds_nobump(m) == m

(* scm_std_select (max_fd + 1, ...): descriptors from nfds on are ignored. *)
Nfds(m) == m + 1

Watched(k) == {fd \in set[k] : fd < Nfds(maxfd)}

ReadyNow(k) == Watched(k) \cap kready[k]

(* A watched descriptor that is not open: EBADF.                           *)
BadFds == UNION {Watched(k) : k \in Kinds} \ Open

FdOf(e) == IF e \in Ints THEN e ELSE PortFd[e]

(* get_element: FD_ISSET of the element's descriptor (a port's own, even   *)
(* if its buffer made it ready).  FD_ISSET (-1, ...) is undefined: a       *)
(* fortified build aborts, another reads some bit, ub.                     *)
IsSet(out, k, e, ub) == IF FdOf(e) = -1 THEN ub ELSE FdOf(e) \in out[k]

(* retrieve_select_type: cons each set member onto ports_ready.            *)
Retrieve(out, k, ub) ==
  FoldLeft(LAMBDA acc, e : IF IsSet(out, k, e, ub) THEN Cons(e, acc) ELSE acc,
           ready[k], Walk(arg[k]))

MinusOneGiven == \E k \in Kinds : -1 \in Range(arg[k])

(* The answer built from the sets out scm_std_select left; i: EINTR.       *)
Answer(out, i) ==
  \/ /\ \E ub \in BOOLEAN : res' = [k \in Kinds |-> Retrieve(out, k, ub)]
     /\ intr' = i /\ pc' = "done"
  \/ MinusOneGiven /\ pc' = "crashed" /\ UNCHANGED <<res, intr>>

(* scm_std_select returns: -1 with EBADF at once on a closed descriptor;   *)
(* the ready descriptors once there are any or the timeout is finite;     *)
(* EINTR or EAGAIN (a signal, an async), after which the sets are emptied; *)
(* or another error (EINVAL for a bad timeout, ENOMEM), SCM_SYSERROR.      *)
Returns ==
  \/ BadFds /= {} /\ pc' = "raised" /\ UNCHANGED <<res, intr>>
  \/ /\ BadFds = {}
     /\ (\E k \in Kinds : ReadyNow(k) /= {}) \/ timeout /= "infinite"
     /\ Answer([k \in Kinds |-> ReadyNow(k)], FALSE)

Interrupted ==
  \/ BadFds = {} /\ Answer([k \in Kinds |-> {}], TRUE)
  \/ pc' = "raised" /\ UNCHANGED <<res, intr>>

Return ==
  /\ pc = "wait"
  /\ Returns \/ Interrupted
  /\ kseen' = kready
  /\ UNCHANGED <<kready, take, room, arg, set, ready, maxfd, timeout>>

Next ==
  \/ Fill \/ Return
  \/ \E k \in Kinds, fd \in Fds : Arrive(k, fd)

(* The kernel answers select once a watched descriptor is ready or the     *)
(* timeout is finite; it is not assumed to be interrupted or to fail.     *)
Progress ==
  \/ Fill
  \/ pc = "wait" /\ Returns /\ kseen' = kready
     /\ UNCHANGED <<kready, take, room, arg, set, ready, maxfd, timeout>>

Spec == Init /\ [][Next]_vars /\ WF_vars(Progress)

-----------------------------------------------------------------------------
(* Properties.                                                             *)

(* The spec of readiness: a port with input in its read buffer, or with   *)
(* room for more than the byte that would flush its write buffer, or a    *)
(* descriptor the kernel held ready when select returned.                  *)
PortReady(k, e) == e \in Ports /\ ((k = "r" /\ take[e] > 0) \/ (k = "w" /\ room[e] >= 2))

FdReady(k, e) == FdOf(e) \in kseen[k]

(* select neither crashes nor reports what is not ready: every member of  *)
(* an answer was given in that list at least as often and is ready, by    *)
(* its buffer or its descriptor.                                           *)
SelectSound ==
  /\ pc /= "crashed"
  /\ pc = "done" =>
       \A k \in Kinds :
         /\ ToBag(res[k]) \sqsubseteq ToBag(arg[k])
         /\ \A e \in Range(res[k]) : PortReady(k, e) \/ FdReady(k, e)

(* select misses nothing: every member with a ready buffer is in the      *)
(* answer, and, unless the wait was interrupted, so is every member whose *)
(* descriptor was ready when it returned.                                  *)
SelectComplete ==
  pc = "done" =>
    \A k \in Kinds : \A e \in Range(arg[k]) :
      PortReady(k, e) \/ (~intr /\ FdReady(k, e)) => e \in Range(res[k])

(* No lost wake-up: a call with a ready buffer, or waiting on a            *)
(* descriptor that is ready, returns.                                      *)
NoLostWakeup ==
  (pc = "wait" /\ (ready["r"] /= <<>> \/ ready["w"] /= <<>>
                   \/ \E k \in Kinds : set[k] \cap kready[k] /= {}))
    ~> pc \in Finished
====

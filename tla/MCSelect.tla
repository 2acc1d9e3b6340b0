------------------------------ MODULE MCSelect ------------------------------
EXTENDS Select, TLC

CONSTANTS p1, p2

(* Two ports on descriptors 0 and 1; descriptor 2 is open and given as an  *)
(* integer, 3 is closed.                                                   *)
MCPortFd == [p \in Ports |-> IF p = p1 THEN 0 ELSE 1]

MCInts == {2, 3}

(* Lists of up to n members of S, no two on one descriptor.               *)
ListsOf(S, n) ==
  {l \in UNION {[1 .. m -> S] : m \in 0 .. n} :
     \A i, j \in DOMAIN l : i /= j => FdOf(l[i]) /= FdOf(l[j])}

MCArgs == [r : ListsOf({p1, p2, 2}, 2), w : ListsOf({p1, p2}, 1),
           e : ListsOf({p2, 3}, 1)]

(* No timeout, an integer one with usecs, a real one, a real one with     *)
(* usecs (wrong type), and one above LONG_MAX.                            *)
MCTimeouts == {[secs |-> "unbound", usecs |-> "unbound"],
               [secs |-> "int", usecs |-> "int"],
               [secs |-> "real", usecs |-> "unbound"],
               [secs |-> "real", usecs |-> "int"],
               [secs |-> "huge", usecs |-> "unbound"]}

(* The integer -1 among the reads or the excepts.                          *)
MCIntsMinusOne == {-1, 2}

MCArgsMinusOne == [r : {<<>>, <<-1>>, <<p1, -1>>}, w : {<<>>},
                   e : {<<>>, <<-1>>}]
(* A port on descriptor 0 listed with the integer 0.                      *)
MCIntsShared == {0}

MCArgsShared == [r : {<<p1, 0>>}, w : {<<>>}, e : {<<>>}]
=============================================================================

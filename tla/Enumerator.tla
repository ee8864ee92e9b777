----------------------------- MODULE Enumerator -----------------------------
(***************************************************************************)
(* What a stackless coroutine of this library promises its caller          *)
(* (cp_init/cp_next and inj_init/inj_next): after an init, the successive  *)
(* calls that return 1 hand out every element of a set exactly once, in    *)
(* the order given by Precedes, and a call returns 0 only when nothing is  *)
(* left.  How the next element is found is not said here.                  *)
(***************************************************************************)
EXTENDS Integers

CONSTANT Precedes(_, _)

VARIABLES
  elems,    (* the set being enumerated; {} when no enumeration is open    *)
  yielded,  (* what calls that returned 1 have handed out since the init   *)
  status,   (* "over" once a call has returned 0, "open" before            *)
  parity    (* of the calls that returned 1: handing out an element again  *)
            (* changes it, so it is a step and not a stutter               *)

vars == <<elems, yielded, status, parity>>

Init == elems = {} /\ yielded = {} /\ status = "open" /\ parity = 0

(* A new enumeration is opened, or the current one is given up.            *)
Begin == yielded' = {} /\ status' = "open" /\ parity' = 0

(* A call returns 1.                                                       *)
Yield ==
  /\ status = "open"
  /\ \E x \in elems \ yielded :
       /\ \A y \in elems : Precedes(y, x) => y \in yielded
       /\ yielded' = yielded \cup {x}
  /\ parity' = 1 - parity
  /\ UNCHANGED <<elems, status>>

(* A call returns 0.                                                       *)
Finish ==
  /\ yielded = elems
  /\ status' = "over"
  /\ UNCHANGED <<elems, yielded, parity>>

Next == Begin \/ Yield \/ Finish

Spec == Init /\ [][Next]_vars
=============================================================================

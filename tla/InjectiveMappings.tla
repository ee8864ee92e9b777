------------------------- MODULE InjectiveMappings -------------------------
(***************************************************************************)
(* The coroutine of src/algorithms/injective_mappings.c: it enumerates all *)
(* injections of 0..k-1 into 0..n-1 by a depth-first search whose state is *)
(* kept in the struct between two calls of inj_next.  One iteration of the *)
(* loop of inj_next is one action; inj_init and inj_destroy are atomic.    *)
(***************************************************************************)
EXTENDS LexOrder, Functions

CONSTANTS
  MaxN, MaxK,  (* bounds of the n and k that callers pass to inj_init      *)
  INT_MAX      (* largest value of the C int an image is cast to           *)

ASSUME BoundsAssumption == MaxN \in Nat /\ MaxK \in Nat /\ INT_MAX \in Nat
ASSUME CastAssumption == MaxN <= 2 * (INT_MAX + 1)

VARIABLES
  n, k, a, nextc, used, pos, started, done, owns_mem,  (* inj_coroutine    *)
  mem,      (* what a, nextc and used point to                             *)
  blocks,   (* blocks obtained from malloc and not freed                   *)
  life,     (* what the caller did with the struct last                    *)
  pc,       (* "caller", or "search" inside the loop of inj_next           *)
  yielded,  (* history: the mappings handed out since inj_init             *)
  status,   (* history: "over" once a call has returned 0 since inj_init   *)
  parity    (* history: of the calls that returned 1 since inj_init        *)

fields == <<n, k, pos, started, done, owns_mem>>
arrays == <<a, nextc, used>>
storage == <<mem, blocks>>
history == <<yielded, status, parity>>
vars == <<fields, arrays, storage, life, pc, history>>

NewEnumeration == yielded' = {} /\ status' = "open" /\ parity' = 0

Init ==
  /\ n = 0 /\ k = 0 /\ pos = 0
  /\ started = 0 /\ done = 0 /\ owns_mem = 0
  /\ a = <<>> /\ nextc = <<>> /\ used = <<>>
  /\ mem = "unset" /\ blocks = 0 /\ life = "raw" /\ pc = "caller"
  /\ yielded = {} /\ status = "open" /\ parity = 0
-----------------------------------------------------------------------------
(* Mutations: a restart that keeps the depth, an owner that is not reset.  *)
RestartKeepsPos == started' = 0 /\ UNCHANGED pos
DisownForgotten == UNCHANGED owns_mem

Restart == pos' = 0 /\ started' = 0
Disown == owns_mem' = 0

(* The assignments every path of inj_init makes.  A caller initialises a   *)
(* struct again only after inj_destroy, or when nothing in it is malloced. *)
InjInit(n0, k0) ==
  /\ pc = "caller"
  /\ life = "ready" => owns_mem = 0
  /\ n' = n0 /\ k' = k0 /\ Restart /\ NewEnumeration
  /\ UNCHANGED pc

(* k = 0 or k > n: returns 1 before any pointer is assigned.               *)
InjInitTrivial(n0, k0) ==
  /\ k0 = 0 \/ k0 > n0
  /\ InjInit(n0, k0)
  /\ done' = (IF k0 > n0 THEN 1 ELSE 0) /\ Disown /\ life' = "ready"
  /\ UNCHANGED <<arrays, storage>>

InjInitArrays(n0, k0) ==
  /\ 0 < k0 /\ k0 <= n0
  /\ InjInit(n0, k0)
  /\ done' = 0 /\ life' = "ready"
  /\ used' = [v \in 0..n0-1 |-> 0]
  /\ a' = [i \in 0..k0-1 |-> 0] /\ nextc' = [i \in 0..k0-1 |-> 0]

(* The caller passed all three buffers.                                    *)
InjInitStorage(n0, k0) ==
  /\ InjInitArrays(n0, k0)
  /\ mem' = "caller" /\ Disown /\ UNCHANGED blocks

(* A buffer was NULL: all three are malloced.                              *)
InjInitAlloc(n0, k0) ==
  /\ InjInitArrays(n0, k0)
  /\ mem' = "heap" /\ owns_mem' = 1 /\ blocks' = blocks + 3

(* A malloc failed: the others are freed, their pointers stay; returns 0.  *)
InjInitNoMemory(n0, k0) ==
  /\ 0 < k0 /\ k0 <= n0
  /\ InjInit(n0, k0)
  /\ done' = 0 /\ Disown /\ life' = "failed" /\ mem' = "freed"
  /\ UNCHANGED <<arrays, blocks>>

(* owns_mem keeps its value, so a second call frees NULL pointers.         *)
InjDestroy ==
  /\ pc = "caller" /\ life # "raw"
  /\ blocks' = IF owns_mem = 1 /\ mem = "heap" THEN blocks - 3 ELSE blocks
  /\ mem' = "null" /\ life' = "destroyed" /\ NewEnumeration
  /\ UNCHANGED <<fields, arrays, pc>>
-----------------------------------------------------------------------------
(* inj_next, from its entry to the loop; only an initialised struct is     *)
(* passed.  With a NULL out_images it returns 0 and changes nothing.       *)
Calling == pc = "caller" /\ life = "ready"

(* A call returns 1, having written m.                                     *)
Yields(m) ==
  yielded' = yielded \cup {m} /\ parity' = 1 - parity /\ UNCHANGED status

InjNextDone ==
  /\ Calling
  /\ done = 1 \/ (k = 0 /\ started = 1)
  /\ status' = "over"
  /\ UNCHANGED <<fields, arrays, storage, life, pc, yielded, parity>>

InjNextEmpty ==
  /\ Calling /\ done = 0 /\ k = 0 /\ started = 0
  /\ started' = 1 /\ Yields(<<>>)
  /\ UNCHANGED <<n, k, pos, done, owns_mem, arrays, storage, life, pc>>

InjNextCall ==
  /\ Calling /\ done = 0 /\ k # 0
  /\ pc' = "search"
  /\ UNCHANGED <<fields, arrays, storage, life, history>>

(* (int)v: values above INT_MAX wrap around to negative ones.              *)
CInt(v) == IF v <= INT_MAX THEN v ELSE v - 2 * (INT_MAX + 1)

NoTruncation == MaxN <= INT_MAX + 1

(* Mutations of the search: the mark of a backtracked image stays, used is *)
(* not consulted, the same candidate is tried again.                       *)
ReleaseForgotten(i) == UNCHANGED used
CandidatesUnfiltered == nextc[pos]..n-1
SameAgain(v) == v

Release(i) == used' = [used EXCEPT ![a[i]] = 0]
Candidates == {v \in nextc[pos]..n-1 : used[v] = 0}
IsLeast(v, S) == \A w \in S : v <= w
After(v) == v + 1

(* A complete assignment is copied out; the search backs up one level.     *)
Emit ==
  /\ pc = "search" /\ pos = k
  /\ Yields([i \in 0..k-1 |-> CInt(a[i])])
  /\ pos' = k - 1
  /\ Release(k - 1)
  /\ pc' = "caller"
  /\ UNCHANGED <<n, k, started, done, owns_mem, a, nextc, storage, life>>

(* The least free candidate is placed at pos and the search descends.      *)
Choose ==
  /\ pc = "search" /\ pos < k
  /\ \E v \in Candidates :
       /\ IsLeast(v, Candidates)
       /\ a' = [a EXCEPT ![pos] = v]
       /\ used' = [used EXCEPT ![v] = 1]
       /\ nextc' = [i \in 0..k-1 |-> IF i = pos THEN After(v)
                                     ELSE IF i = pos + 1 THEN 0 ELSE nextc[i]]
  /\ pos' = pos + 1
  /\ UNCHANGED <<n, k, started, done, owns_mem, storage, life, pc, history>>

DeadEnd == pc = "search" /\ pos < k /\ Candidates = {}

Backtrack ==
  /\ DeadEnd /\ pos > 0
  /\ nextc' = [nextc EXCEPT ![pos] = 0]
  /\ pos' = pos - 1
  /\ Release(pos - 1)
  /\ UNCHANGED <<n, k, a, started, done, owns_mem, storage, life, pc, history>>

(* Nothing is left at the first position: returns 0.                       *)
Exhaust ==
  /\ DeadEnd /\ pos = 0
  /\ nextc' = [nextc EXCEPT ![pos] = 0]
  /\ done' = 1 /\ status' = "over" /\ pc' = "caller"
  /\ UNCHANGED <<n, k, pos, started, owns_mem, a, used, storage, life, yielded, parity>>
-----------------------------------------------------------------------------
InjInitAny ==
  \E n0 \in 0..MaxN, k0 \in 0..MaxK :
    \/ InjInitTrivial(n0, k0)
    \/ InjInitStorage(n0, k0)
    \/ InjInitAlloc(n0, k0)
    \/ InjInitNoMemory(n0, k0)

InjNext == InjNextDone \/ InjNextEmpty \/ InjNextCall

Search == Emit \/ Choose \/ Backtrack \/ Exhaust

Next == InjInitAny \/ InjDestroy \/ InjNext \/ Search

Spec == Init /\ [][Next]_vars

(* The documented caller: inj_init, then while (inj_next(...)) to the end. *)
(* Its loop, and the loop inside inj_next, are sequential code that runs.  *)
LoopNext ==
  \/ (life # "ready" \/ status = "over") /\ (InjInitAny \/ InjDestroy)
  \/ InjNext
  \/ Search

LoopSpec == Init /\ [][LoopNext]_vars /\ WF_vars(InjNext) /\ WF_vars(Search)
-----------------------------------------------------------------------------
(* Ranges; the depth of the search never leaves 0..k, so that neither      *)
(* g->nextc[pos] nor g->a[pos - 1] is read outside its array, and the      *)
(* blocks on the heap are none or the three of one inj_init.               *)
TypeOK ==
  /\ n \in 0..MaxN /\ k \in 0..MaxK /\ pos \in 0..k
  /\ started \in {0, 1} /\ done \in {0, 1} /\ owns_mem \in {0, 1}
  /\ mem \in {"unset", "null", "caller", "heap", "freed"} /\ blocks \in {0, 3}
  /\ life \in {"raw", "ready", "failed", "destroyed"}
  /\ pc \in {"caller", "search"} /\ status \in {"open", "over"}
  /\ parity \in {0, 1}

Injections == Injection(0..k-1, 0..n-1)

(* The struct holds a search: arrays of the sizes n and k speak of.        *)
Enumerating == life = "ready" /\ 0 < k /\ k <= n

(* Between two steps of the search, used marks the images of the current   *)
(* prefix a[0..pos-1] and nothing else, these images are distinct, and the *)
(* next candidate of a filled position is the successor of its image: what *)
(* the comments on the struct and on the resumption in inj_next claim.     *)
PrefixOK ==
  Enumerating =>
    /\ a \in [0..k-1 -> 0..n-1] /\ nextc \in [0..k-1 -> 0..n]
    /\ used \in [0..n-1 -> {0, 1}]
    /\ \A v \in 0..n-1 : used[v] = 1 <=> \E i \in 0..pos-1 : a[i] = v
    /\ \A i, j \in 0..pos-1 : i # j => a[i] # a[j]
    /\ \A i \in 0..pos-1 : nextc[i] = a[i] + 1

(* f is behind the search: at the first position where it leaves the       *)
(* current prefix, its image is below the candidates still to be tried.    *)
Passed(f) ==
  \E i \in 0..k-1 :
    /\ i <= pos /\ \A j \in 0..i-1 : f[j] = a[j]
    /\ f[i] < IF i < pos THEN a[i] ELSE nextc[i]

(* At every step of the search, also inside inj_next, the mappings handed  *)
(* out are exactly the injections behind it; when done is set they are     *)
(* all injections of 0..k-1 into 0..n-1.                                   *)
YieldedExactly ==
  life = "ready" =>
    yielded = IF k = 0 THEN IF started = 1 THEN {<<>>} ELSE {}
              ELSE IF done = 1 THEN Injections
              ELSE {f \in Injections : Passed(f)}

(* Whatever the sequence of inits, failed inits and destroys, inj_destroy  *)
(* can only free the blocks of the last inj_init, those blocks are never   *)
(* lost, and the search only runs on live memory.                          *)
MemoryOK ==
  /\ owns_mem = 1 => mem \in {"heap", "null"}
  /\ blocks = 3 <=> mem = "heap"
  /\ mem = "heap" => life = "ready" /\ owns_mem = 1
  /\ pc = "search" => Enumerating /\ done = 0 /\ mem \in {"caller", "heap"}

Promised == INSTANCE Enumerator WITH
  Precedes <- Lex,
  elems <- IF life = "ready" THEN Injections ELSE {}

(* The injections come out in lexicographic order, each once (a call that  *)
(* hands one out again flips parity and is no step of Enumerator), and 0   *)
(* is returned only after the last, then always.                           *)
ImplementsEnumerator == Promised!Spec

(* What inj_next writes to out_images[i] is f(i) in 0..n-1, as the comment *)
(* above it says.  It is not once n exceeds what an int can hold.          *)
ImagesInRange ==
  life = "ready" => \A f \in yielded : \A i \in DOMAIN f : f[i] \in 0..n-1

(* How far the search is: at a position of the prefix it stands in its     *)
(* image, at pos it waits before its next candidate.                       *)
Progress ==
  [i \in 0..k-1 |-> IF i < pos THEN 2 * a[i] + 1
                    ELSE IF i = pos THEN 2 * nextc[i] ELSE 0]

(* Each iteration of the loop of inj_next that does not end the            *)
(* enumeration takes the search forward in a lexicographic order that does *)
(* not go on forever, whether it descends, yields or backs up: why the     *)
(* for(;;) ends, and why no image is tried twice after the same prefix.    *)
SearchAdvances ==
  [][pc = "search" /\ done' = 0 =>
       Lex(Progress, Progress') /\ Progress' \in [0..k-1 -> 0..2*n]]_vars

(* Every call of inj_next returns, and the loop of the documented caller   *)
(* is told of the end.                                                     *)
LoopEnds == life = "ready" ~> status = "over"
=============================================================================

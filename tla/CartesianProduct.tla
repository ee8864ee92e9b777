-------------------------- MODULE CartesianProduct --------------------------
(***************************************************************************)
(* The coroutine of src/algorithms/cartesian_product.c: a mixed-radix      *)
(* counter idx, digit 0 the most significant, that cp_next increments with *)
(* a carry.  A tuple is named by its indices: cp_next copies               *)
(* sets[i][idx[i]] to the caller.  One iteration of the carry loop is one  *)
(* action; cp_init and cp_destroy are atomic.                              *)
(***************************************************************************)
EXTENDS LexOrder

CONSTANTS
  MaxSets, MaxSize,  (* bounds of num_sets and of sizes[i]                 *)
  DestroyRejected    (* do callers call cp_destroy after cp_init returned  *)
                     (* 0 for its arguments?                               *)

ASSUME BoundsAssumption == MaxSets \in Nat \ {0} /\ MaxSize \in Nat

VARIABLES
  num_sets, sizes, idx, started, done,  (* cp_coroutine                    *)
  idx_at,   (* what the pointer idx points to                              *)
  passed,   (* the idx_storage of the last cp_init: "null" or "caller"     *)
  blocks,   (* blocks obtained from calloc and not freed                   *)
  life,     (* what the caller did with the struct last                    *)
  pc, k,    (* "carry" inside the loop of cp_next, and the loop variable   *)
  yielded,  (* history: the tuples handed out since cp_init                *)
  status,   (* history: "over" once a call has returned 0 since cp_init    *)
  parity    (* history: of the calls that returned 1 since cp_init         *)

input == <<num_sets, sizes>>
storage == <<idx_at, passed, blocks>>
history == <<yielded, status, parity>>
vars == <<input, idx, started, done, storage, life, pc, k, history>>

NewEnumeration == yielded' = {} /\ status' = "open" /\ parity' = 0

Init ==
  /\ num_sets = 0 /\ sizes = <<>> /\ idx = <<>> /\ started = 0 /\ done = 0
  /\ idx_at = "unset" /\ passed = "null" /\ blocks = 0 /\ life = "raw"
  /\ pc = "caller" /\ k = 0 /\ yielded = {} /\ status = "open" /\ parity = 0
-----------------------------------------------------------------------------
Sizes == UNION {[0..m-1 -> 0..MaxSize] : m \in 1..MaxSets}

(* A caller initialises a struct again only when it owns no block.         *)
MayInit == pc = "caller" /\ idx_at # "heap"

(* num_sets = 0, or a NULL argument: returns 0, the struct is untouched.   *)
CpInitReject(p) ==
  /\ MayInit
  /\ life' = "rejected" /\ passed' = p /\ NewEnumeration
  /\ UNCHANGED <<input, idx, started, done, idx_at, blocks, pc, k>>

CpInit(s, p) ==
  /\ MayInit
  /\ sizes' = s /\ num_sets' \in 1..MaxSets /\ DOMAIN s = 0..num_sets'-1
  /\ started' = 0 /\ passed' = p /\ NewEnumeration
  /\ UNCHANGED <<pc, k>>

HasEmpty(s) == \E i \in DOMAIN s : s[i] = 0

CpInitEmpty(s, p) ==
  /\ HasEmpty(s) /\ CpInit(s, p)
  /\ done' = 1 /\ idx_at' = p /\ life' = "ready"
  /\ UNCHANGED <<idx, blocks>>

CpInitCounter(s, p) ==
  /\ ~HasEmpty(s) /\ CpInit(s, p)
  /\ done' = 0 /\ idx' = [i \in DOMAIN s |-> 0] /\ life' = "ready"
  /\ \/ p = "caller" /\ idx_at' = "caller" /\ UNCHANGED blocks
     \/ p = "null" /\ idx_at' = "heap" /\ blocks' = blocks + 1

CpInitNoMemory(s, p) ==
  /\ ~HasEmpty(s) /\ p = "null" /\ CpInit(s, p)
  /\ done' = 0 /\ idx_at' = "null" /\ life' = "failed"
  /\ UNCHANGED <<idx, blocks>>

(* Mutations: ownership not tested; the carry loop runs below digit 0; a   *)
(* digit may reach its radix; is never incremented; keeps its value; the   *)
(* overflow is not remembered.                                             *)
AnyPointer == idx_at # "null"
NoLastDigit == k < 0
ReachesRadix == idx[k] + 1 <= sizes[k]
NoIncrement == [idx EXCEPT ![k] = idx[k]]
NoReset == idx
DoneForgotten == UNCHANGED done

(* Does cp_destroy, given the pointer that cp_init was given, call free?   *)
Frees == idx_at # "null" /\ idx_at # passed

MayDestroy ==
  /\ pc = "caller" /\ life # "raw"
  /\ life = "rejected" => DestroyRejected

CpDestroy ==
  /\ MayDestroy
  /\ blocks' = IF Frees /\ idx_at = "heap" THEN blocks - 1 ELSE blocks
  /\ idx_at' = "null" /\ life' = "destroyed" /\ NewEnumeration
  /\ UNCHANGED <<input, idx, started, done, passed, pc, k>>
-----------------------------------------------------------------------------
Calling == pc = "caller" /\ life = "ready"

(* A call returns 1, having copied out the tuple m.                        *)
Yields(m) ==
  yielded' = yielded \cup {m} /\ parity' = 1 - parity /\ UNCHANGED status

Resumes == started = 1

CpNextDone ==
  /\ Calling /\ done = 1
  /\ status' = "over"
  /\ UNCHANGED <<input, idx, started, done, storage, life, pc, k, yielded, parity>>

CpNextFirst ==
  /\ Calling /\ done = 0 /\ ~Resumes
  /\ started' = 1 /\ Yields(idx)
  /\ UNCHANGED <<input, idx, done, storage, life, pc, k>>

CpNextResume ==
  /\ Calling /\ done = 0 /\ Resumes
  /\ pc' = "carry" /\ k' = num_sets - 1
  /\ UNCHANGED <<input, idx, started, done, storage, life, history>>

Resolves == idx[k] + 1 < sizes[k]
Incremented == [idx EXCEPT ![k] = idx[k] + 1]
Reset == [idx EXCEPT ![k] = 0]
LastDigit == k = 0
MarkDone == done' = 1

(* The carry is resolved at digit k: the new tuple is handed out.          *)
Resolve ==
  /\ pc = "carry" /\ Resolves
  /\ idx' = Incremented /\ Yields(idx') /\ pc' = "caller"
  /\ UNCHANGED <<input, started, done, storage, life, k>>

Carry ==
  /\ pc = "carry" /\ ~Resolves /\ ~LastDigit
  /\ idx' = Reset /\ k' = k - 1
  /\ UNCHANGED <<input, started, done, storage, life, pc, history>>

(* The most significant digit overflows: returns 0.                        *)
Overflow ==
  /\ pc = "carry" /\ ~Resolves /\ LastDigit
  /\ idx' = Reset /\ MarkDone /\ status' = "over" /\ pc' = "caller"
  /\ UNCHANGED <<input, started, storage, life, k, yielded, parity>>
-----------------------------------------------------------------------------
CpInitAny ==
  \E p \in {"null", "caller"} :
    \/ CpInitReject(p)
    \/ \E s \in Sizes :
         CpInitEmpty(s, p) \/ CpInitCounter(s, p) \/ CpInitNoMemory(s, p)

CpNext == CpNextDone \/ CpNextFirst \/ CpNextResume

CarryLoop == Resolve \/ Carry \/ Overflow

Next == CpInitAny \/ CpDestroy \/ CpNext \/ CarryLoop

Spec == Init /\ [][Next]_vars

(* The documented caller: cp_init, then cp_next until it returns 0.  Both  *)
(* loops are sequential code that runs.                                    *)
LoopNext ==
  \/ (life # "ready" \/ status = "over") /\ (CpInitAny \/ CpDestroy)
  \/ CpNext
  \/ CarryLoop

LoopSpec == Init /\ [][LoopNext]_vars /\ WF_vars(CpNext) /\ WF_vars(CarryLoop)
-----------------------------------------------------------------------------
(* Ranges; the unsigned loop variable of the carry never wraps below digit *)
(* 0, and at most one calloc of cp_init is on the heap.                    *)
TypeOK ==
  /\ num_sets \in 0..MaxSets /\ sizes \in [0..num_sets-1 -> 0..MaxSize]
  /\ started \in {0, 1} /\ done \in {0, 1} /\ k \in 0..MaxSets-1
  /\ idx_at \in {"unset", "null", "caller", "heap"} /\ passed \in {"null", "caller"}
  /\ blocks \in {0, 1} /\ pc \in {"caller", "carry"} /\ status \in {"open", "over"}
  /\ parity \in {0, 1}
  /\ life \in {"raw", "ready", "rejected", "failed", "destroyed"}

Product == {f \in [0..num_sets-1 -> 0..MaxSize] : \A i \in 0..num_sets-1 : f[i] < sizes[i]}

(* The digits that count: while a carry runs, those it has not reset.      *)
Digits == 0..(IF pc = "carry" THEN k ELSE num_sets - 1)

(* Every read of sets[i][idx[i]] is inside set i: the counter never leaves *)
(* the product, also in the middle of a carry, which leaves zeros behind.  *)
CounterOK ==
  life = "ready" /\ done = 0 =>
    /\ num_sets > 0 /\ idx \in Product /\ idx_at \in {"caller", "heap"}
    /\ pc = "carry" => k < num_sets /\ started = 1
    /\ \A i \in 0..num_sets-1 : i \in Digits \/ idx[i] = 0

(* f is not beyond the digits of the counter that count.                   *)
Passed(f) ==
  \/ \E i \in Digits : f[i] < idx[i] /\ \A j \in 0..i-1 : f[j] = idx[j]
  \/ \A i \in Digits : f[i] = idx[i]

(* At every step, also inside the carry loop, the tuples handed out are    *)
(* exactly those the counter has passed; all of them when done is set.     *)
YieldedExactly ==
  life = "ready" =>
    yielded = IF done = 1 THEN Product
              ELSE IF started = 0 THEN {} ELSE {f \in Product : Passed(f)}

(* cp_destroy calls free on nothing but a block of cp_init: "Free only if  *)
(* we allocated internally".                                               *)
FreesOnlyAllocated == MayDestroy /\ Frees => idx_at = "heap"

(* Although cp_destroy knows the owner of idx only by comparing it with    *)
(* the pointer passed to it, it frees what cp_init allocated, always and   *)
(* nothing else, and no block is lost by the inits and destroys of a run.  *)
FreesOnlyOwn ==
  /\ blocks = 1 <=> idx_at = "heap"
  /\ FreesOnlyAllocated
  /\ idx_at = "heap" => life = "ready" /\ Frees

Promised == INSTANCE Enumerator WITH
  Precedes <- Lex,
  elems <- IF life = "ready" THEN Product ELSE {}

(* The tuples come out in lexicographic order of their indices, each once, *)
(* and cp_next returns 0 only after the last, then always: a tuple handed  *)
(* out again flips parity and is no step of Enumerator.                    *)
ImplementsEnumerator == Promised!Spec

(* How far the counter is: at the digit k of a carry, between two values.  *)
Progress ==
  [i \in 0..num_sets-1 |-> 2 * idx[i] + (IF pc = "carry" /\ i = k THEN 1 ELSE 0)]

(* A call of cp_next that resumes, and each iteration of its carry loop    *)
(* until the overflow, takes the counter forward in a lexicographic order  *)
(* bounded by the sizes, although a carry sets digits back to 0.           *)
CounterAdvances ==
  [][(pc = "carry" \/ pc' = "carry") /\ done' = 0 =>
       Lex(Progress, Progress') /\ \A i \in 0..num_sets-1 : Progress'[i] < 2 * sizes[i]]_vars

(* Every call of cp_next returns, and the caller's loop is told the end.   *)
LoopEnds == life = "ready" ~> status = "over"
=============================================================================

----------------------- MODULE CartesianProductProofs -----------------------
(***************************************************************************)
(* CartesianProduct for every MaxSets and MaxSize: the counter stays in    *)
(* the product, the memory discipline holds when a caller leaves alone a   *)
(* struct that cp_init rejected, and the tuples handed out are exact and   *)
(* in order.                                                               *)
(***************************************************************************)
EXTENDS CartesianProduct, TLAPS

(* Bookkeeping of what has been handed out.                                *)
USE DEF history, NewEnumeration, Yields, MarkDone

(* Which pointer an initialised struct holds, and what makes cp_next       *)
(* resumable: a fresh counter is zero, a carry only runs while not done.   *)
OwnerOK ==
  /\ blocks = 1 <=> idx_at = "heap"
  /\ idx_at = "heap" => life = "ready" /\ passed = "null"
  /\ life \in {"ready", "failed", "destroyed"} =>
       idx_at # "unset" /\ (idx_at = "caller" => passed = "caller")

Resumable ==
  /\ pc = "carry" => life = "ready" /\ done = 0
  /\ life = "ready" /\ status = "over" => done = 1
  /\ life = "ready" /\ done = 0 /\ started = 0 =>
       pc = "caller" /\ \A i \in 0..num_sets-1 : idx[i] = 0

IInv == TypeOK /\ OwnerOK /\ CounterOK /\ Resumable
-----------------------------------------------------------------------------
LEMMA InitIInv == Init => IInv
  <1> SUFFICES ASSUME Init PROVE IInv
    OBVIOUS
  <1>1. sizes \in [0..num_sets-1 -> 0..MaxSize]
    <2>1. 0..num_sets-1 = {}
      BY DEF Init
    <2> QED BY <2>1 DEF Init
  <1>2. OwnerOK /\ CounterOK /\ Resumable
    BY DEF Init, OwnerOK, CounterOK, Resumable
  <1> QED BY <1>1, <1>2, BoundsAssumption DEF Init, IInv, TypeOK

LEMMA CpInitFacts ==
  ASSUME NEW s \in Sizes, NEW p, CpInit(s, p)
  PROVE  /\ num_sets' \in Nat /\ num_sets' > 0 /\ num_sets' \in 0..MaxSets
         /\ sizes' = s /\ s \in [0..num_sets'-1 -> 0..MaxSize]
  <1>1. PICK m \in 1..MaxSets : s \in [0..m-1 -> 0..MaxSize]
    BY DEF Sizes
  <1>2. num_sets' \in 1..MaxSets /\ DOMAIN s = 0..num_sets'-1 /\ sizes' = s
    BY DEF CpInit
  <1>3. DOMAIN s = 0..m-1
    BY <1>1
  <1>4. s \in [0..num_sets'-1 -> 0..MaxSize]
    <2>1. 0..m-1 = 0..num_sets'-1
      BY <1>2, <1>3, Zenon
    <2> QED BY <1>1, <2>1, Zenon
  <1>5. num_sets' \in Nat /\ num_sets' > 0 /\ num_sets' \in 0..MaxSets
    BY <1>2, BoundsAssumption
  <1> QED BY <1>2, <1>4, <1>5

LEMMA CpInitIInv ==
  ASSUME IInv, NEW s \in Sizes, NEW p \in {"null", "caller"},
         CpInitEmpty(s, p) \/ CpInitCounter(s, p) \/ CpInitNoMemory(s, p)
  PROVE  IInv'
  <1>1. CpInit(s, p) /\ MayInit
    BY DEF CpInitEmpty, CpInitCounter, CpInitNoMemory, CpInit
  <1>2. /\ num_sets' \in Nat /\ num_sets' > 0 /\ num_sets' \in 0..MaxSets
        /\ sizes' = s /\ s \in [0..num_sets'-1 -> 0..MaxSize]
    BY <1>1, CpInitFacts
  <1>3. /\ life' \in {"ready", "failed"} /\ done' \in {0, 1} /\ started' = 0
        /\ passed' = p /\ status' = "open" /\ parity' = 0 /\ pc = "caller" /\ pc' = pc /\ k' = k
        /\ idx_at # "heap"
    BY <1>1 DEF CpInit, MayInit, CpInitEmpty, CpInitCounter, CpInitNoMemory
  <1>4. \/ idx_at' = p /\ blocks' = blocks /\ life' = "ready"
        \/ idx_at' = "heap" /\ p = "null" /\ blocks' = blocks + 1 /\ life' = "ready"
        \/ idx_at' = "null" /\ p = "null" /\ blocks' = blocks
    BY DEF CpInitEmpty, CpInitCounter, CpInitNoMemory
  <1>5. blocks = 0
    BY <1>3 DEF IInv, TypeOK, OwnerOK
  <1>6. TypeOK'
    <2>1. sizes' \in [0..num_sets'-1 -> 0..MaxSize]
      BY <1>2, Zenon
    <2>2. blocks' \in {0, 1} /\ idx_at' \in {"null", "caller", "heap"}
      BY <1>4, <1>5
    <2>3. k' \in 0..MaxSets-1
      BY <1>3 DEF IInv, TypeOK
    <2> QED BY <1>2, <1>3, <2>1, <2>2, <2>3, Zenon DEF TypeOK
  <1>7. OwnerOK'
    BY <1>3, <1>4, <1>5 DEF OwnerOK
  <1>8. CounterOK' /\ Resumable'
    <2>1. CASE CpInitEmpty(s, p) \/ CpInitNoMemory(s, p)
      BY <1>3, <2>1 DEF CpInitEmpty, CpInitNoMemory, CounterOK, Resumable
    <2>2. CASE CpInitCounter(s, p)
      <3>1. DOMAIN s = 0..num_sets'-1
        BY <1>1 DEF CpInit
      <3>2. idx' = [i \in 0..num_sets'-1 |-> 0] /\ idx_at' \in {"caller", "heap"}
        BY <2>2, <3>1 DEF CpInitCounter
      <3>3. \A i \in 0..num_sets'-1 : s[i] # 0
        BY <2>2, <3>1 DEF CpInitCounter, HasEmpty
      <3>4. \A i \in 0..num_sets'-1 : s[i] \in 0..MaxSize
        BY <1>2
      <3>5. \A i \in 0..num_sets'-1 : idx'[i] = 0 /\ 0 < sizes'[i]
        <4> TAKE i \in 0..num_sets'-1
        <4>1. idx'[i] = 0
          BY <3>2
        <4>2. s[i] # 0 /\ s[i] \in 0..MaxSize /\ sizes' = s
          BY <1>2, <3>3, <3>4
        <4>3. 0 < s[i]
          BY <4>2, BoundsAssumption
        <4> QED BY <4>1, <4>2, <4>3
      <3>6. idx' \in Product'
        <4>1. idx' \in [0..num_sets'-1 -> 0..MaxSize]
          BY <3>2, BoundsAssumption
        <4>2. \A i \in 0..num_sets'-1 : idx'[i] < sizes'[i]
          BY <3>5
        <4> QED BY <4>1, <4>2 DEF Product
      <3> QED BY <1>2, <1>3, <3>2, <3>5, <3>6 DEF CounterOK, Resumable
    <2> QED BY <2>1, <2>2
  <1> QED BY <1>6, <1>7, <1>8 DEF IInv

(* The digit a carry is at, and what every step of the loop leaves alone.  *)
LEMMA CarryFacts ==
  ASSUME IInv, CarryLoop
  PROVE  /\ pc = "carry" /\ life = "ready" /\ done = 0 /\ started = 1
         /\ num_sets \in Nat /\ k \in 0..num_sets-1 /\ MaxSize \in Nat
         /\ idx \in [0..num_sets-1 -> 0..MaxSize]
         /\ sizes \in [0..num_sets-1 -> 0..MaxSize]
         /\ \A i \in 0..num_sets-1 : idx[i] < sizes[i]
         /\ \A i \in k+1..num_sets-1 : idx[i] = 0
         /\ UNCHANGED <<num_sets, sizes, started, storage, life>>
  <1>1. /\ pc = "carry" /\ life = "ready" /\ done = 0 /\ started = 1
        /\ num_sets \in Nat /\ k \in 0..num_sets-1 /\ MaxSize \in Nat
    BY BoundsAssumption
       DEF IInv, TypeOK, CounterOK, Resumable, CarryLoop, Resolve, Carry, Overflow
  <1>2. idx \in Product /\ \A i \in 0..num_sets-1 : i \in 0..k \/ idx[i] = 0
    BY <1>1 DEF IInv, CounterOK, Digits
  <1>3. sizes \in [0..num_sets-1 -> 0..MaxSize]
    BY DEF IInv, TypeOK
  <1>4. \A i \in k+1..num_sets-1 : idx[i] = 0
    BY <1>1, <1>2
  <1>5. UNCHANGED <<num_sets, sizes, started, storage, life>>
    BY DEF CarryLoop, Resolve, Carry, Overflow, input
  <1> QED BY <1>1, <1>2, <1>3, <1>4, <1>5 DEF Product

(* The two ways a digit changes, as facts about arrays.                    *)
LEMMA ResolveFacts ==
  ASSUME IInv, Resolve
  PROVE  /\ idx' \in Product /\ idx'[k] = idx[k] + 1
         /\ \A i \in 0..num_sets-1 : i # k => idx'[i] = idx[i]
  <1>1. /\ k \in 0..num_sets-1 /\ MaxSize \in Nat
        /\ idx \in [0..num_sets-1 -> 0..MaxSize]
        /\ sizes \in [0..num_sets-1 -> 0..MaxSize]
        /\ \A i \in 0..num_sets-1 : idx[i] < sizes[i]
    BY CarryFacts DEF CarryLoop
  <1>2. idx' = [idx EXCEPT ![k] = idx[k] + 1] /\ idx[k] + 1 < sizes[k]
    BY DEF Resolve, Resolves, Incremented
  <1>3. idx'[k] = idx[k] + 1 /\ \A i \in 0..num_sets-1 : i # k => idx'[i] = idx[i]
    BY <1>1, <1>2
  <1>4. \A i \in 0..num_sets-1 : idx'[i] < sizes[i]
    BY <1>1, <1>2, <1>3
  <1>5. idx[k] + 1 \in 0..MaxSize
    <2>1. idx[k] \in 0..MaxSize /\ sizes[k] \in 0..MaxSize
      BY <1>1
    <2> QED BY <1>1, <1>2, <2>1
  <1>6. idx' \in [0..num_sets-1 -> 0..MaxSize]
    BY <1>1, <1>2, <1>5
  <1> QED BY <1>3, <1>4, <1>6 DEF Product

LEMMA ResetFacts ==
  ASSUME IInv, Carry \/ Overflow
  PROVE  /\ idx' \in Product /\ idx'[k] = 0
         /\ \A i \in 0..num_sets-1 : i # k => idx'[i] = idx[i]
         /\ \A v \in Nat : v < sizes[k] => v <= idx[k]
  <1>1. /\ k \in 0..num_sets-1 /\ MaxSize \in Nat
        /\ idx \in [0..num_sets-1 -> 0..MaxSize]
        /\ sizes \in [0..num_sets-1 -> 0..MaxSize]
        /\ \A i \in 0..num_sets-1 : idx[i] < sizes[i]
    BY CarryFacts DEF CarryLoop
  <1>2. idx' = [idx EXCEPT ![k] = 0] /\ ~(idx[k] + 1 < sizes[k])
    BY DEF Carry, Overflow, Resolves, Reset
  <1>3. idx'[k] = 0 /\ \A i \in 0..num_sets-1 : i # k => idx'[i] = idx[i]
    BY <1>1, <1>2
  <1>4. idx[k] \in Nat /\ sizes[k] \in Nat /\ idx[k] < sizes[k]
    BY <1>1
  <1>5. \A i \in 0..num_sets-1 : idx'[i] < sizes[i]
    BY <1>1, <1>3, <1>4
  <1>6. idx' \in [0..num_sets-1 -> 0..MaxSize]
    BY <1>1, <1>2
  <1>7. \A v \in Nat : v < sizes[k] => v <= idx[k]
    BY <1>2, <1>4
  <1> QED BY <1>3, <1>5, <1>6, <1>7 DEF Product

LEMMA NextIInv == IInv /\ [Next]_vars => IInv'
  <1> SUFFICES ASSUME IInv, [Next]_vars PROVE IInv'
    OBVIOUS
  <1> USE DEF input, storage
  <1>1. CASE CpInitAny
    <2>1. PICK p \in {"null", "caller"} :
            \/ CpInitReject(p)
            \/ \E s \in Sizes :
                 CpInitEmpty(s, p) \/ CpInitCounter(s, p) \/ CpInitNoMemory(s, p)
      BY <1>1 DEF CpInitAny
    <2>2. CASE CpInitReject(p)
      <3>1. UNCHANGED <<num_sets, sizes, idx, started, done, idx_at, blocks, pc, k>>
        BY <2>2 DEF CpInitReject
      <3>2. life' = "rejected" /\ passed' = p /\ pc = "caller" /\ idx_at # "heap"
            /\ status' = "open" /\ parity' = 0
        BY <2>2 DEF CpInitReject, MayInit
      <3> QED BY <3>1, <3>2 DEF IInv, TypeOK, OwnerOK, CounterOK, Resumable
    <2> QED BY <2>1, <2>2, CpInitIInv
  <1>2. CASE CpDestroy
    <2>1. UNCHANGED <<num_sets, sizes, idx, started, done, passed, pc, k>>
      BY <1>2 DEF CpDestroy
    <2>2. life' = "destroyed" /\ idx_at' = "null" /\ pc = "caller" /\ status' = "open"
          /\ parity' = 0
      BY <1>2 DEF CpDestroy, MayDestroy
    <2>3. blocks' = 0
      BY <1>2 DEF CpDestroy, Frees, IInv, TypeOK, OwnerOK
    <2> QED BY <2>1, <2>2, <2>3 DEF IInv, TypeOK, OwnerOK, CounterOK, Resumable
  <1>3. CASE CpNextDone
    BY <1>3 DEF CpNextDone, Calling, IInv, TypeOK, OwnerOK, CounterOK, Resumable,
       Digits, Product
  <1>4. CASE CpNextFirst
    <2>1. UNCHANGED <<num_sets, sizes, idx, done, idx_at, passed, blocks, life, pc, k, status>>
          /\ started' = 1 /\ done = 0 /\ pc = "caller" /\ parity' = 1 - parity
      BY <1>4 DEF CpNextFirst, Calling
    <2> QED BY <2>1 DEF IInv, TypeOK, OwnerOK, CounterOK, Resumable, Digits, Product
  <1>5. CASE CpNextResume
    <2>1. UNCHANGED <<num_sets, sizes, idx, started, done, idx_at, passed, blocks, life, status, parity>>
          /\ started = 1 /\ done = 0 /\ pc' = "carry" /\ k' = num_sets - 1 /\ life = "ready"
      BY <1>5 DEF CpNextResume, Calling, Resumes
    <2>2. num_sets \in 1..MaxSets /\ k' < num_sets /\ k' \in 0..MaxSets-1
      BY <2>1, BoundsAssumption DEF IInv, TypeOK, CounterOK
    <2>3. Product' = Product
      BY <2>1 DEF Product
    <2>4. CounterOK'
      BY <2>1, <2>2, <2>3 DEF IInv, CounterOK, Digits
    <2> QED BY <2>1, <2>2, <2>4 DEF IInv, TypeOK, OwnerOK, Resumable
  <1>6. CASE Resolve
    <2>1. /\ UNCHANGED <<num_sets, sizes, started, done, idx_at, passed, blocks, life, k, status>>
          /\ pc' = "caller" /\ parity' = 1 - parity
      BY <1>6 DEF Resolve
    <2>2. /\ started = 1 /\ life = "ready" /\ done = 0 /\ Product' = Product
          /\ idx' \in Product
      BY <1>6, <2>1, CarryFacts, ResolveFacts DEF CarryLoop, Product
    <2>3. CounterOK'
      BY <2>1, <2>2 DEF IInv, CounterOK, Digits
    <2> QED BY <2>1, <2>2, <2>3 DEF IInv, TypeOK, OwnerOK, Resumable
  <1>7. CASE Carry
    <2>1. /\ UNCHANGED <<num_sets, sizes, started, done, idx_at, passed, blocks, life, pc, status, parity>>
          /\ k' = k - 1 /\ k # 0
      BY <1>7 DEF Carry, LastDigit
    <2>2. /\ started = 1 /\ life = "ready" /\ done = 0 /\ Product' = Product
          /\ idx' \in Product /\ num_sets \in Nat /\ k \in 0..num_sets-1 /\ pc = "carry"
          /\ \A i \in k+1..num_sets-1 : idx[i] = 0
          /\ idx'[k] = 0 /\ \A i \in 0..num_sets-1 : i # k => idx'[i] = idx[i]
      BY <1>7, <2>1, CarryFacts, ResetFacts DEF CarryLoop, Product
    <2>3. \A i \in 0..num_sets-1 : i \in 0..k-1 \/ idx'[i] = 0
      BY <2>2
    <2>4. k' \in 0..MaxSets-1 /\ k' < num_sets
      BY <2>1, <2>2, BoundsAssumption DEF IInv, TypeOK
    <2>5. CounterOK'
      BY <2>1, <2>2, <2>3, <2>4 DEF IInv, CounterOK, Digits
    <2> QED BY <2>1, <2>2, <2>4, <2>5 DEF IInv, TypeOK, OwnerOK, Resumable
  <1>8. CASE Overflow
    BY <1>8 DEF Overflow, IInv, TypeOK, OwnerOK, CounterOK, Resumable
  <1>9. CASE UNCHANGED vars
    BY <1>9 DEF vars, IInv, TypeOK, OwnerOK, CounterOK, Resumable, Digits, Product
  <1> QED BY <1>1, <1>2, <1>3, <1>4, <1>5, <1>6, <1>7, <1>8, <1>9
          DEF Next, CpNext, CarryLoop

LEMMA Invariance == Spec => []IInv
  BY InitIInv, NextIInv, PTL DEF Spec

(* Every field keeps its range; the loop variable of the carry never wraps *)
(* below digit 0.                                                          *)
THEOREM TypeCorrect == Spec => []TypeOK
  BY Invariance, PTL DEF IInv

(* cp_next only reads sets[i][j] with j inside set i, for every number of  *)
(* sets and all their sizes.                                               *)
THEOREM CounterCorrect == Spec => []CounterOK
  BY Invariance, PTL DEF IInv

(* cp_destroy frees exactly what cp_init allocated, if callers leave alone *)
(* a struct that cp_init has rejected.                                     *)
THEOREM MemoryCorrect == ~DestroyRejected => (Spec => []FreesOnlyOwn)
  <1> SUFFICES ASSUME ~DestroyRejected PROVE Spec => []FreesOnlyOwn
    OBVIOUS
  <1>1. IInv => FreesOnlyOwn
    BY DEF IInv, TypeOK, OwnerOK, FreesOnlyOwn, FreesOnlyAllocated, Frees, MayDestroy
  <1> QED BY <1>1, Invariance, PTL
-----------------------------------------------------------------------------
(* Lex by its witness: g is ahead of f at position i and equal before it.  *)
LEMMA LexAt ==
  ASSUME NEW K \in Nat, NEW f, NEW g, DOMAIN f = 0..K-1, NEW i \in 0..K-1,
         f[i] < g[i], \A j \in 0..K-1 : j < i => f[j] = g[j]
  PROVE  Lex(f, g)
  <1>1. \A j \in 0..i-1 : j \in 0..K-1 /\ j < i
    OBVIOUS
  <1> QED BY <1>1 DEF Lex

(* Entering the carry loop moves the last digit on by half a value, the    *)
(* loop by another half: up to the next value, or over to the next digit.  *)
LEMMA ProgressStep ==
  ASSUME IInv, CpNextResume \/ Resolve \/ Carry
  PROVE  Lex(Progress, Progress')
  <1> DEFINE N == num_sets
  <1>1. DOMAIN Progress = 0..N-1
    BY DEF Progress
  <1>2. CASE CpNextResume
    <2>1. /\ N \in Nat /\ N > 0 /\ num_sets' = N /\ idx' = idx /\ pc = "caller"
          /\ pc' = "carry" /\ k' = N-1 /\ idx \in [0..N-1 -> 0..MaxSize]
      BY <1>2 DEF CpNextResume, Calling, input, IInv, TypeOK, CounterOK, Product
    <2>2. N-1 \in 0..N-1 /\ idx[N-1] \in Int
      BY <2>1, BoundsAssumption
    <2>3. Progress[N-1] < Progress'[N-1]
      BY <2>1, <2>2 DEF Progress
    <2>4. \A j \in 0..N-1 : j < N-1 => Progress[j] = Progress'[j]
      BY <2>1 DEF Progress
    <2> QED BY <1>1, <2>1, <2>2, <2>3, <2>4, LexAt
  <1>3. CASE Resolve
    <2>1. /\ N \in Nat /\ num_sets' = N /\ k \in 0..N-1 /\ pc = "carry" /\ pc' = "caller"
          /\ idx[k] \in Int /\ \A i \in 0..N-1 : idx[i] \in Int
      BY <1>3, CarryFacts, BoundsAssumption DEF CarryLoop, Resolve
    <2>2. idx'[k] = idx[k] + 1 /\ \A i \in 0..N-1 : i # k => idx'[i] = idx[i]
      BY <1>3, ResolveFacts
    <2>3. Progress[k] < Progress'[k]
      BY <2>1, <2>2 DEF Progress
    <2>4. \A j \in 0..N-1 : j < k => Progress[j] = Progress'[j]
      BY <2>1, <2>2 DEF Progress
    <2> QED BY <1>1, <2>1, <2>3, <2>4, LexAt
  <1>4. CASE Carry
    <2>1. /\ N \in Nat /\ num_sets' = N /\ k \in 0..N-1 /\ pc = "carry"
          /\ \A i \in 0..N-1 : idx[i] \in Int
      BY <1>4, CarryFacts, BoundsAssumption DEF CarryLoop
    <2>2. /\ k # 0 /\ k' = k-1 /\ pc' = "carry"
          /\ \A i \in 0..N-1 : i # k => idx'[i] = idx[i]
      BY <1>4, <2>1, ResetFacts DEF Carry, LastDigit
    <2>3. k-1 \in 0..N-1 /\ k-1 # k /\ idx[k-1] \in Int
      BY <2>1, <2>2
    <2>4. Progress[k-1] < Progress'[k-1]
      BY <2>1, <2>2, <2>3 DEF Progress
    <2>5. \A j \in 0..N-1 : j < k-1 => Progress[j] = Progress'[j]
      BY <2>1, <2>2 DEF Progress
    <2> QED BY <1>1, <2>1, <2>3, <2>4, <2>5, LexAt
  <1> QED BY <1>2, <1>3, <1>4

ProgressOK ==
  life = "ready" /\ done = 0 => \A i \in 0..num_sets-1 : Progress[i] < 2 * sizes[i]

LEMMA ProgressBounded ==
  ASSUME IInv
  PROVE  ProgressOK
  <1> SUFFICES ASSUME life = "ready", done = 0, NEW i \in 0..num_sets-1
               PROVE  Progress[i] < 2 * sizes[i]
    BY DEF ProgressOK
  <1>1. idx[i] \in Int /\ sizes[i] \in Int /\ idx[i] < sizes[i]
    <2>1. idx \in Product /\ sizes \in [0..num_sets-1 -> 0..MaxSize]
      BY DEF IInv, TypeOK, CounterOK
    <2> QED BY <2>1, BoundsAssumption DEF Product
  <1>2. Progress[i] = 2 * idx[i] \/ Progress[i] = 2 * idx[i] + 1
    BY <1>1 DEF Progress
  <1> QED BY <1>1, <1>2

(* The counter never stands still or goes back, and never passes a size:   *)
(* the carry loop ends, and so do the calls that return 1.                 *)
THEOREM CounterAdvancesCorrect == Spec => CounterAdvances
  <1>1. IInv /\ ProgressOK' /\ [Next]_vars =>
          [(pc = "carry" \/ pc' = "carry") /\ done' = 0 =>
             /\ Lex(Progress, Progress')
             /\ \A i \in 0..num_sets-1 : Progress'[i] < 2 * sizes[i]]_vars
    <2> SUFFICES ASSUME IInv, ProgressOK', [Next]_vars, ~UNCHANGED vars,
                        pc = "carry" \/ pc' = "carry", done' = 0
                 PROVE  /\ Lex(Progress, Progress')
                        /\ \A i \in 0..num_sets-1 : Progress'[i] < 2 * sizes[i]
      OBVIOUS
    <2>1. CpNextResume \/ Resolve \/ Carry
      BY DEF Next, CpInitAny, CpInitReject, CpInitEmpty, CpInitCounter, CpInitNoMemory,
         CpInit, MayInit, CpDestroy, MayDestroy, CpNext, CpNextDone, CpNextFirst,
         Calling, CarryLoop, Overflow
    <2>2. num_sets' = num_sets /\ sizes' = sizes /\ life' = "ready"
      BY <2>1, CarryFacts DEF CpNextResume, Calling, CarryLoop, input
    <2> QED BY <2>1, <2>2, ProgressStep DEF ProgressOK
  <1>2. IInv => ProgressOK
    BY ProgressBounded
  <1> QED BY <1>1, <1>2, Invariance, PTL DEF Spec, CounterAdvances
-----------------------------------------------------------------------------
LEMMA ProductFacts ==
  ASSUME NEW f \in Product
  PROVE  /\ f \in [0..num_sets-1 -> 0..MaxSize]
         /\ \A i \in 0..num_sets-1 : f[i] \in Nat /\ f[i] < sizes[i]
  <1>1. /\ f \in [0..num_sets-1 -> 0..MaxSize]
        /\ \A i \in 0..num_sets-1 : f[i] < sizes[i]
    BY DEF Product
  <1>2. \A i \in 0..num_sets-1 : f[i] \in Nat
    BY <1>1, BoundsAssumption
  <1> QED BY <1>1, <1>2

(* Two tuples that agree at every position are the same tuple.             *)
LEMMA Extensionality ==
  ASSUME NEW S, NEW T, NEW f \in [S -> T], NEW g \in [S -> T],
         \A i \in S : f[i] = g[i]
  PROVE  f = g
  OBVIOUS

LEMMA SameTuple ==
  ASSUME NEW f \in Product, NEW g \in Product,
         \A i \in 0..num_sets-1 : f[i] = g[i]
  PROVE  f = g
  <1> DEFINE S == 0..num_sets-1
             T == 0..MaxSize
  <1>1. f \in [S -> T] /\ g \in [S -> T]
    BY ProductFacts
  <1>2. \A i \in S : f[i] = g[i]
    OBVIOUS
  <1> HIDE DEF S, T
  <1> QED BY <1>1, <1>2, Extensionality

(* A resolved carry passes one more tuple: the new counter.                *)
LEMMA ResolvePassed ==
  ASSUME IInv, Resolve, NEW f \in Product
  PROVE  Passed(f)' <=> Passed(f) \/ f = idx'
  <1>1. /\ num_sets \in Nat /\ k \in 0..num_sets-1 /\ pc = "carry" /\ pc' = "caller"
        /\ num_sets' = num_sets
        /\ \A i \in 0..num_sets-1 : idx[i] \in Int
        /\ \A i \in k+1..num_sets-1 : idx[i] = 0
    <2>1. /\ num_sets \in Nat /\ k \in 0..num_sets-1 /\ pc = "carry"
          /\ num_sets' = num_sets
          /\ idx \in [0..num_sets-1 -> 0..MaxSize] /\ MaxSize \in Nat
          /\ \A i \in k+1..num_sets-1 : idx[i] = 0
      BY CarryFacts DEF CarryLoop
    <2>2. \A i \in 0..num_sets-1 : idx[i] \in Int
      BY <2>1
    <2> QED BY <2>1, <2>2 DEF Resolve
  <1>2. /\ idx' \in Product /\ idx'[k] = idx[k] + 1
        /\ \A i \in 0..num_sets-1 : i # k => idx'[i] = idx[i]
    BY ResolveFacts
  <1>3. \A i \in 0..num_sets-1 : f[i] \in Nat
    BY ProductFacts
  <1>4. Digits = 0..k /\ Digits' = 0..num_sets-1
    BY <1>1 DEF Digits
  <1>5. \A j \in 0..k-1 : j \in 0..num_sets-1 /\ j # k /\ idx'[j] = idx[j]
    BY <1>1, <1>2
  <1>6. ASSUME Passed(f) PROVE Passed(f)'
    <2>1. CASE \E i \in 0..k : f[i] < idx[i] /\ \A j \in 0..i-1 : f[j] = idx[j]
      <3>1. PICK i \in 0..k : f[i] < idx[i] /\ \A j \in 0..i-1 : f[j] = idx[j]
        BY <2>1
      <3>2. i \in 0..num_sets-1 /\ \A j \in 0..i-1 : j \in 0..k-1
        BY <1>1
      <3>3. f[i] < idx'[i]
        <4>1. CASE i = k
          BY <1>1, <1>2, <1>3, <3>1, <3>2, <4>1
        <4>2. CASE i # k
          BY <1>2, <3>1, <3>2, <4>2
        <4> QED BY <4>1, <4>2
      <3>4. \A j \in 0..i-1 : f[j] = idx'[j]
        BY <1>5, <3>1, <3>2
      <3> QED BY <1>4, <3>2, <3>3, <3>4 DEF Passed
    <2>2. CASE \A i \in 0..k : f[i] = idx[i]
      <3>1. f[k] < idx'[k]
        BY <1>1, <1>2, <2>2
      <3>2. \A j \in 0..k-1 : f[j] = idx'[j]
        BY <1>1, <1>5, <2>2
      <3> QED BY <1>1, <1>4, <3>1, <3>2 DEF Passed
    <2> QED BY <1>4, <1>6, <2>1, <2>2 DEF Passed
  <1>7. ASSUME f = idx' PROVE Passed(f)'
    BY <1>7 DEF Passed
  <1>8. ASSUME Passed(f)' PROVE Passed(f) \/ f = idx'
    <2>1. CASE \E i \in 0..num_sets-1 : f[i] < idx'[i] /\ \A j \in 0..i-1 : f[j] = idx'[j]
      <3>1. PICK i \in 0..num_sets-1 :
              f[i] < idx'[i] /\ \A j \in 0..i-1 : f[j] = idx'[j]
        BY <2>1
      <3>2. i <= k
        <4>1. ASSUME i > k PROVE FALSE
          <5>1. i \in k+1..num_sets-1 /\ i # k
            BY <1>1, <4>1
          <5>2. idx'[i] = 0
            BY <1>1, <1>2, <5>1
          <5> QED BY <1>3, <3>1, <5>2
        <4> QED BY <1>1, <4>1
      <3>3. i \in 0..k /\ \A j \in 0..i-1 : j \in 0..k-1
        BY <1>1, <3>2
      <3>4. \A j \in 0..i-1 : f[j] = idx[j]
        BY <1>5, <3>1, <3>3
      <3>5. CASE f[i] < idx[i]
        BY <1>4, <3>3, <3>4, <3>5 DEF Passed
      <3>6. CASE ~(f[i] < idx[i])
        <4>1. i = k
          BY <1>2, <3>1, <3>6
        <4>2. f[k] = idx[k]
          <5>1. f[k] < idx[k] + 1 /\ ~(f[k] < idx[k]) /\ f[k] \in Int /\ idx[k] \in Int
            BY <1>1, <1>2, <1>3, <3>1, <3>6, <4>1
          <5> QED BY <5>1
        <4>3. \A j \in 0..k : j = k \/ j \in 0..k-1
          BY <1>1
        <4>4. \A j \in 0..k : f[j] = idx[j]
          BY <3>4, <4>1, <4>2, <4>3
        <4> QED BY <1>4, <4>4 DEF Passed
      <3> QED BY <3>5, <3>6
    <2>2. CASE \A i \in 0..num_sets-1 : f[i] = idx'[i]
      BY <1>2, <2>2, SameTuple
    <2> QED BY <1>4, <1>8, <2>1, <2>2 DEF Passed
  <1> QED BY <1>6, <1>7, <1>8

(* Resetting the last counted digit passes nothing: it was at its maximum. *)
LEMMA CarryPassed ==
  ASSUME IInv, Carry, NEW f \in Product
  PROVE  Passed(f)' <=> Passed(f)
  <1>1. /\ num_sets \in Nat /\ k \in 1..num_sets-1 /\ pc = "carry" /\ pc' = "carry"
        /\ k' = k - 1
    BY CarryFacts DEF CarryLoop, Carry, LastDigit
  <1>2. /\ \A i \in 0..num_sets-1 : i # k => idx'[i] = idx[i]
        /\ \A v \in Nat : v < sizes[k] => v <= idx[k]
    BY ResetFacts
  <1>3. f[k] <= idx[k] /\ f[k] \in Int /\ idx[k] \in Int
    <2>1. k \in 0..num_sets-1
      BY <1>1
    <2>2. f[k] \in Nat /\ f[k] < sizes[k]
      BY <2>1, ProductFacts
    <2>3. idx \in [0..num_sets-1 -> 0..MaxSize]
      BY CarryFacts DEF CarryLoop
    <2> QED BY <1>2, <2>1, <2>2, <2>3, BoundsAssumption
  <1>4. Digits = 0..k /\ Digits' = 0..k-1
    BY <1>1 DEF Digits
  <1>5. \A j \in 0..k-1 : j \in 0..k /\ idx'[j] = idx[j]
    BY <1>1, <1>2
  <1>6. \A i \in 0..k : /\ i = k \/ i \in 0..k-1
                        /\ \A j \in 0..i-1 : j \in 0..k-1
    BY <1>1
  <1>7. ASSUME Passed(f) PROVE Passed(f)'
    <2>1. CASE \E i \in 0..k-1 : f[i] < idx[i] /\ \A j \in 0..i-1 : f[j] = idx[j]
      <3>1. PICK i \in 0..k-1 : f[i] < idx[i] /\ \A j \in 0..i-1 : f[j] = idx[j]
        BY <2>1
      <3>2. f[i] < idx'[i] /\ \A j \in 0..i-1 : f[j] = idx'[j]
        BY <1>5, <1>6, <3>1
      <3> QED BY <1>4, <3>2 DEF Passed
    <2>2. CASE \A i \in 0..k-1 : f[i] = idx[i]
      <3>1. \A i \in 0..k-1 : f[i] = idx'[i]
        BY <1>5, <2>2
      <3> QED BY <1>4, <3>1 DEF Passed
    <2> QED BY <1>4, <1>5, <1>6, <1>7, <2>1, <2>2 DEF Passed
  <1>8. ASSUME Passed(f)' PROVE Passed(f)
    <2>1. CASE \E i \in 0..k-1 : f[i] < idx'[i] /\ \A j \in 0..i-1 : f[j] = idx'[j]
      <3>1. PICK i \in 0..k-1 : f[i] < idx'[i] /\ \A j \in 0..i-1 : f[j] = idx'[j]
        BY <2>1
      <3>2. i \in 0..k /\ f[i] < idx[i] /\ \A j \in 0..i-1 : f[j] = idx[j]
        BY <1>5, <1>6, <3>1
      <3> QED BY <1>4, <3>2 DEF Passed
    <2>2. CASE \A i \in 0..k-1 : f[i] = idx'[i]
      <3>1. \A i \in 0..k-1 : f[i] = idx[i]
        BY <1>5, <2>2
      <3>2. CASE f[k] < idx[k]
        <4>1. k \in 0..k
          BY <1>1
        <4> QED BY <1>4, <3>1, <3>2, <4>1 DEF Passed
      <3>3. CASE f[k] = idx[k]
        BY <1>4, <1>6, <3>1, <3>3 DEF Passed
      <3> QED BY <1>3, <3>2, <3>3
    <2> QED BY <1>4, <1>8, <2>1, <2>2 DEF Passed
  <1> QED BY <1>7, <1>8

(* When the most significant digit overflows, every tuple has been passed. *)
LEMMA OverflowPassed ==
  ASSUME IInv, Overflow, NEW f \in Product
  PROVE  Passed(f)
  <1>1. /\ num_sets \in Nat /\ k = 0 /\ 0 \in 0..num_sets-1 /\ pc = "carry"
        /\ idx \in [0..num_sets-1 -> 0..MaxSize]
    BY CarryFacts DEF CarryLoop, Overflow, LastDigit
  <1>2. f[0] \in Nat /\ f[0] < sizes[0]
    BY <1>1, ProductFacts
  <1>3. f[0] <= idx[0] /\ idx[0] \in Int
    BY <1>1, <1>2, ResetFacts, BoundsAssumption
  <1>4. f[0] < idx[0] \/ f[0] = idx[0]
    BY <1>2, <1>3
  <1>5. Digits = {0} /\ 0..0-1 = {}
    BY <1>1 DEF Digits
  <1> QED BY <1>4, <1>5 DEF Passed
-----------------------------------------------------------------------------
LEMMA CpInitYielded ==
  ASSUME IInv, CpInitAny
  PROVE  YieldedExactly'
  <1>1. PICK p \in {"null", "caller"} :
          \/ CpInitReject(p)
          \/ \E s \in Sizes :
               CpInitEmpty(s, p) \/ CpInitCounter(s, p) \/ CpInitNoMemory(s, p)
    BY DEF CpInitAny
  <1>2. CASE CpInitReject(p)
    BY <1>2 DEF CpInitReject, YieldedExactly
  <1>3. ASSUME NEW s \in Sizes, CpInitEmpty(s, p) PROVE YieldedExactly'
    <2>1. /\ s \in [0..num_sets'-1 -> 0..MaxSize] /\ sizes' = s
          /\ num_sets' \in Nat /\ yielded' = {} /\ done' = 1
      BY <1>3, CpInitFacts DEF CpInitEmpty, CpInit
    <2>2. PICK i \in 0..num_sets'-1 : sizes'[i] = 0
      BY <1>3, <2>1 DEF CpInitEmpty, HasEmpty
    <2>3. ASSUME NEW f \in Product' PROVE FALSE
      <3>1. f[i] \in 0..MaxSize /\ f[i] < 0
        BY <2>2, <2>3 DEF Product
      <3> QED BY <3>1, BoundsAssumption
    <2> QED BY <2>1, <2>3 DEF YieldedExactly
  <1>4. ASSUME NEW s \in Sizes, CpInitCounter(s, p) \/ CpInitNoMemory(s, p)
        PROVE  YieldedExactly'
    <2>1. done' = 0 /\ started' = 0 /\ yielded' = {}
      BY <1>4 DEF CpInitCounter, CpInitNoMemory, CpInit
    <2> QED BY <2>1 DEF YieldedExactly
  <1> QED BY <1>1, <1>2, <1>3, <1>4

(* The first tuple is the zero counter, and the zero counter passes only   *)
(* itself.                                                                 *)
LEMMA FirstYielded ==
  ASSUME IInv, CpNextFirst, YieldedExactly
  PROVE  /\ yielded = {} /\ yielded' = {idx} /\ idx \in Product
         /\ \A f \in Product : ~Lex(f, idx)
         /\ YieldedExactly'
  <1>1. /\ life = "ready" /\ life' = life /\ done = 0 /\ done' = 0 /\ started = 0
        /\ started' = 1 /\ pc = "caller" /\ pc' = pc /\ idx' = idx /\ k' = k
        /\ UNCHANGED <<num_sets, sizes>> /\ yielded' = yielded \cup {idx}
    BY DEF CpNextFirst, Calling, Resumes, input, IInv, TypeOK
  <1>2. /\ idx \in Product /\ \A i \in 0..num_sets-1 : idx[i] = 0
    BY <1>1 DEF IInv, CounterOK, Resumable
  <1>3. yielded = {} /\ yielded' = {idx}
    BY <1>1 DEF YieldedExactly
  <1>4. ASSUME NEW f \in Product, NEW i \in 0..num_sets-1, f[i] < idx[i] PROVE FALSE
    <2>1. f[i] \in Nat
      BY ProductFacts
    <2> QED BY <1>2, <1>4, <2>1
  <1>5. ASSUME NEW f \in Product PROVE ~Lex(f, idx)
    <2>1. DOMAIN f = 0..num_sets-1
      BY ProductFacts
    <2> QED BY <1>4, <2>1 DEF Lex
  <1>6. Digits' = 0..num_sets-1 /\ Product' = Product
    BY <1>1 DEF Digits, Product
  <1>7. ASSUME NEW f \in Product PROVE Passed(f)' <=> f = idx
    BY <1>1, <1>2, <1>4, <1>6, SameTuple DEF Passed
  <1>8. yielded' = {f \in Product : Passed(f)'}
    BY <1>2, <1>3, <1>7
  <1>9. YieldedExactly'
    BY <1>1, <1>6, <1>8 DEF YieldedExactly
  <1> QED BY <1>2, <1>3, <1>5, <1>9

LEMMA NextYielded ==
  ASSUME IInv, YieldedExactly, [Next]_vars
  PROVE  YieldedExactly'
  <1>1. CASE CpInitAny
    BY <1>1, CpInitYielded
  <1>2. CASE CpDestroy
    BY <1>2 DEF CpDestroy, YieldedExactly
  <1>3. CASE CpNextDone \/ UNCHANGED vars
    BY <1>3 DEF CpNextDone, vars, input, YieldedExactly, Passed, Digits, Product
  <1>4. CASE CpNextFirst
    BY <1>4, FirstYielded
  <1>5. CASE CpNextResume
    <2>1. /\ UNCHANGED <<num_sets, sizes, idx, started, done, life, yielded>>
          /\ pc = "caller" /\ pc' = "carry" /\ k' = num_sets - 1
      BY <1>5 DEF CpNextResume, Calling, input
    <2>2. Digits' = Digits /\ Product' = Product
      BY <2>1 DEF Digits, Product
    <2> QED BY <2>1, <2>2 DEF YieldedExactly, Passed
  <1>6. CASE CarryLoop
    <2>1. /\ life = "ready" /\ life' = "ready" /\ done = 0 /\ started = 1
          /\ started' = 1 /\ Product' = Product
      BY <1>6, CarryFacts DEF Product
    <2>2. yielded = {f \in Product : Passed(f)}
      BY <2>1 DEF YieldedExactly
    <2>3. CASE Resolve
      <3>1. done' = 0 /\ yielded' = yielded \cup {idx'} /\ idx' \in Product
        BY <2>1, <2>3, ResolveFacts DEF Resolve
      <3>2. \A f \in Product : Passed(f)' <=> Passed(f) \/ f = idx'
        BY <2>3, ResolvePassed
      <3>3. yielded' = {f \in Product : Passed(f)'}
        BY <2>2, <3>1, <3>2
      <3> QED BY <2>1, <3>1, <3>3 DEF YieldedExactly
    <2>4. CASE Carry
      <3>1. done' = 0 /\ yielded' = yielded
        BY <2>1, <2>4 DEF Carry
      <3>2. \A f \in Product : Passed(f)' <=> Passed(f)
        BY <2>4, CarryPassed
      <3> QED BY <2>1, <2>2, <3>1, <3>2 DEF YieldedExactly
    <2>5. CASE Overflow
      <3>1. done' = 1 /\ yielded' = yielded
        BY <2>5 DEF Overflow
      <3>2. \A f \in Product : Passed(f)
        BY <2>5, OverflowPassed
      <3> QED BY <2>1, <2>2, <3>1, <3>2 DEF YieldedExactly
    <2> QED BY <1>6, <2>3, <2>4, <2>5 DEF CarryLoop
  <1> QED BY <1>1, <1>2, <1>3, <1>4, <1>5, <1>6 DEF Next, CpNext

(* At every moment, also while a carry runs, exactly the tuples up to the  *)
(* counter have been handed out, and all of them once done is set.         *)
THEOREM YieldedExactlyCorrect == Spec => []YieldedExactly
  <1>1. Init => YieldedExactly
    BY DEF Init, YieldedExactly
  <1>2. IInv /\ YieldedExactly /\ [Next]_vars => (IInv /\ YieldedExactly)'
    BY NextIInv, NextYielded
  <1> QED BY <1>1, <1>2, InitIInv, PTL DEF Spec
-----------------------------------------------------------------------------
LEMMA ResolvePromised ==
  ASSUME IInv, YieldedExactly, Resolve
  PROVE  Promised!Yield
  <1>1. /\ life = "ready" /\ life' = "ready" /\ done = 0 /\ started = 1
        /\ Product' = Product /\ status' = status /\ yielded' = yielded \cup {idx'}
        /\ parity' = 1 - parity /\ num_sets \in Nat /\ k \in 0..num_sets-1 /\ pc = "carry"
        /\ idx \in [0..num_sets-1 -> 0..MaxSize]
    BY CarryFacts DEF CarryLoop, Resolve, Product
  <1>2. status = "open"
    BY <1>1 DEF IInv, TypeOK, Resumable
  <1>3. /\ idx' \in Product /\ idx'[k] = idx[k] + 1 /\ idx[k] \in Int
        /\ \A i \in 0..num_sets-1 : i # k => idx'[i] = idx[i] /\ idx[i] \in Int
    <2>1. \A i \in 0..num_sets-1 : idx[i] \in Int
      BY <1>1
    <2> QED BY <1>1, <2>1, ResolveFacts
  <1>4. yielded = {f \in Product : Passed(f)} /\ Digits = 0..k
    BY <1>1 DEF YieldedExactly, Digits
  <1>5. idx' \notin yielded
    <2>1. \A i \in 0..k : i \in 0..num_sets-1
      BY <1>1
    <2>2. \A i \in 0..k : ~(idx'[i] < idx[i])
      BY <1>3, <2>1
    <2>3. idx'[k] # idx[k] /\ k \in 0..k
      BY <1>1, <1>3
    <2> QED BY <1>4, <2>2, <2>3 DEF Passed
  <1>6. ASSUME NEW y \in Product, Lex(y, idx') PROVE y \in yielded
    <2>1. y \in [0..num_sets-1 -> 0..MaxSize] /\ \A i \in 0..num_sets-1 : y[i] \in Nat
      BY ProductFacts
    <2>2. PICK i \in 0..num_sets-1 : y[i] < idx'[i] /\ \A j \in 0..i-1 : y[j] = idx'[j]
      BY <1>6, <2>1 DEF Lex
    <2>3. y # idx'
      <3>1. \A v \in Nat : ~(v < v)
        OBVIOUS
      <3> QED BY <2>1, <2>2, <3>1
    <2>4. Passed(y)'
      <3>1. Digits' = 0..num_sets-1
        BY <1>1, CarryFacts DEF Digits, CarryLoop, Resolve
      <3> QED BY <2>2, <3>1 DEF Passed
    <2>5. Passed(y)
      BY <2>3, <2>4, ResolvePassed
    <2> QED BY <1>4, <2>5
  <1> QED BY <1>1, <1>2, <1>3, <1>5, <1>6 DEF Promised!Yield

LEMMA FirstPromised ==
  ASSUME IInv, YieldedExactly, CpNextFirst
  PROVE  Promised!Yield
  <1>1. /\ life = "ready" /\ life' = "ready" /\ done = 0 /\ Product' = Product
        /\ status' = status /\ parity' = 1 - parity
    BY DEF CpNextFirst, Calling, input, Product
  <1>2. status = "open"
    BY <1>1 DEF IInv, TypeOK, Resumable
  <1> QED BY <1>1, <1>2, FirstYielded DEF Promised!Yield

LEMMA NextPromised ==
  ASSUME IInv, YieldedExactly, YieldedExactly', [Next]_vars
  PROVE  [Promised!Next]_(Promised!vars)
  <1>1. CASE CpInitAny \/ CpDestroy
    BY <1>1 DEF CpInitAny, CpInitReject, CpInitEmpty, CpInitCounter, CpInitNoMemory,
       CpInit, CpDestroy, Promised!Next, Promised!Begin
  <1>2. CASE CpNextResume \/ Carry \/ UNCHANGED vars
    BY <1>2 DEF CpNextResume, Carry, vars, input, Promised!vars, Product
  <1>3. CASE CpNextFirst \/ Resolve
    BY <1>3, FirstPromised, ResolvePromised DEF Promised!Next
  <1>4. CASE CpNextDone \/ Overflow
    <2>1. /\ life = "ready" /\ life' = "ready" /\ Product' = Product
          /\ yielded' = yielded /\ parity' = parity /\ status' = "over" /\ done' = 1
      BY <1>4, CarryFacts DEF CpNextDone, Calling, Overflow, CarryLoop, input, Product
    <2>2. yielded = Product
      BY <2>1 DEF YieldedExactly
    <2> QED BY <2>1, <2>2 DEF Promised!Next, Promised!Finish
  <1> QED BY <1>1, <1>2, <1>3, <1>4 DEF Next, CpNext, CarryLoop

(* The coroutine implements Enumerator: each call that returns 1 hands out *)
(* the lexicographically next tuple, a call returns 0 only after the last. *)
THEOREM EnumeratorImplemented == Spec => ImplementsEnumerator
  <1>1. Init => Promised!Init
    BY DEF Init, Promised!Init
  <1>2. IInv /\ YieldedExactly /\ YieldedExactly' /\ [Next]_vars
          => [Promised!Next]_(Promised!vars)
    BY NextPromised
  <1> QED BY <1>1, <1>2, YieldedExactlyCorrect, Invariance, PTL
          DEF Spec, ImplementsEnumerator, Promised!Spec
=============================================================================

---------------------- MODULE InjectiveMappingsProofs ----------------------
(***************************************************************************)
(* For every MaxN, MaxK and INT_MAX: the struct of InjectiveMappings stays *)
(* well formed (its types, the marks of the search, its memory), and when  *)
(* the cast of an image to int loses nothing (NoTruncation) the coroutine  *)
(* enumerates exactly the injections, in lexicographic order.              *)
(***************************************************************************)
EXTENDS InjectiveMappings, FiniteSetTheorems, TLAPS

(* Bookkeeping of what has been handed out.                                *)
USE DEF history, NewEnumeration, Yields

(* What an init leaves to inj_next: no search with k > n, none that is     *)
(* resumed on a full prefix, and an initialised struct has a memory.       *)
Resumable ==
  life = "ready" =>
    /\ k > n /\ k # 0 => done = 1
    /\ k = 0 => done = 0
    /\ k # 0 /\ pc = "caller" => pos < k
    /\ Enumerating => mem \in {"caller", "heap"}
    /\ status = "over" => done = 1 \/ (k = 0 /\ started = 1)

IInv == TypeOK /\ MemoryOK /\ PrefixOK /\ Resumable
-----------------------------------------------------------------------------
LEMMA InitIInv == Init => IInv
  BY BoundsAssumption DEF Init, IInv, TypeOK, MemoryOK, PrefixOK, Resumable,
     Enumerating

LEMMA InjInitIInv ==
  ASSUME IInv, NEW n0 \in 0..MaxN, NEW k0 \in 0..MaxK,
         \/ InjInitTrivial(n0, k0) \/ InjInitStorage(n0, k0)
         \/ InjInitAlloc(n0, k0) \/ InjInitNoMemory(n0, k0)
  PROVE  IInv'
  <1> USE BoundsAssumption DEF IInv, TypeOK, MemoryOK, PrefixOK, Resumable,
          Enumerating, InjInit, Restart, Disown, arrays, storage
  <1>1. CASE InjInitTrivial(n0, k0)
    BY <1>1 DEF InjInitTrivial
  <1>2. CASE InjInitStorage(n0, k0)
    BY <1>2 DEF InjInitStorage, InjInitArrays
  <1>3. CASE InjInitAlloc(n0, k0)
    BY <1>3 DEF InjInitAlloc, InjInitArrays
  <1>4. CASE InjInitNoMemory(n0, k0)
    BY <1>4 DEF InjInitNoMemory
  <1> QED BY <1>1, <1>2, <1>3, <1>4

(* Backing up from depth p to p-1: clearing the mark of the last image of  *)
(* the prefix leaves exactly the marks of the shorter prefix.              *)
LEMMA Unmark ==
  ASSUME NEW K \in Nat, NEW N \in Nat, NEW p \in 1..K,
         NEW A \in [0..K-1 -> 0..N-1], NEW U \in [0..N-1 -> {0, 1}],
         \A v \in 0..N-1 : U[v] = 1 <=> \E i \in 0..p-1 : A[i] = v,
         \A i, j \in 0..p-1 : i # j => A[i] # A[j],
         NEW W, W = [U EXCEPT ![A[p-1]] = 0]
  PROVE  /\ W \in [0..N-1 -> {0, 1}]
         /\ \A v \in 0..N-1 : W[v] = 1 <=> \E i \in 0..(p-1)-1 : A[i] = v
  <1>1. W \in [0..N-1 -> {0, 1}]
    OBVIOUS
  <1>2. ASSUME NEW v \in 0..N-1, W[v] = 1
        PROVE  \E i \in 0..(p-1)-1 : A[i] = v
    <2>1. A[p-1] \in 0..N-1 /\ v # A[p-1] /\ U[v] = 1
      BY <1>2
    <2>2. PICK i \in 0..p-1 : A[i] = v
      BY <2>1
    <2>3. i \in 0..(p-1)-1
      BY <2>1, <2>2
    <2> QED BY <2>2, <2>3
  <1>3. ASSUME NEW v \in 0..N-1, NEW i \in 0..(p-1)-1, A[i] = v
        PROVE  W[v] = 1
    <2>1. i \in 0..p-1 /\ p-1 \in 0..p-1 /\ i # p-1
      OBVIOUS
    <2>2. A[p-1] # v /\ U[v] = 1
      BY <1>3, <2>1
    <2> QED BY <2>2
  <1> QED BY <1>1, <1>2, <1>3

LEMMA NextIInv == IInv /\ [Next]_vars => IInv'
  <1> SUFFICES ASSUME IInv, [Next]_vars PROVE IInv'
    OBVIOUS
  <1> USE BoundsAssumption DEF IInv, TypeOK, MemoryOK, Resumable, Enumerating,
          fields, arrays, storage
  <1>1. CASE InjInitAny
    BY <1>1, InjInitIInv DEF InjInitAny
  <1>2. CASE InjDestroy
    BY <1>2 DEF InjDestroy, PrefixOK
  <1>3. CASE InjNextDone
    BY <1>3 DEF InjNextDone, Calling, PrefixOK
  <1>4. CASE InjNextEmpty
    BY <1>4 DEF InjNextEmpty, Calling, PrefixOK
  <1>5. CASE InjNextCall
    BY <1>5 DEF InjNextCall, Calling, PrefixOK
  <1>6. CASE Emit
    <2>1. TypeOK' /\ MemoryOK' /\ Resumable'
      <3>1. TypeOK'
        BY <1>6 DEF Emit
      <3>2. MemoryOK'
        BY <1>6 DEF Emit
      <3>3. Resumable'
        BY <1>6 DEF Emit
      <3> QED BY <3>1, <3>2, <3>3
    <2>2. /\ Enumerating /\ pos = k /\ k \in Nat /\ n \in Nat /\ k \in 1..k
          /\ used' = [used EXCEPT ![a[k-1]] = 0]
          /\ pos' = k - 1 /\ UNCHANGED <<n, k, a, nextc, life>>
      BY <1>6 DEF Emit, Release
    <2>3. /\ used' \in [0..n-1 -> {0, 1}]
          /\ \A v \in 0..n-1 : used'[v] = 1 <=> \E i \in 0..(k-1)-1 : a[i] = v
      <3> HIDE DEF TypeOK, MemoryOK, Resumable, IInv
      <3>1. /\ a \in [0..k-1 -> 0..n-1] /\ used \in [0..n-1 -> {0, 1}]
            /\ \A v \in 0..n-1 : used[v] = 1 <=> \E i \in 0..k-1 : a[i] = v
            /\ \A i, j \in 0..k-1 : i # j => a[i] # a[j]
        BY <2>2 DEF PrefixOK, IInv
      <3>2. k \in 1..k /\ k \in Nat /\ n \in Nat /\ used' = [used EXCEPT ![a[k-1]] = 0]
        BY <2>2
      <3> QED BY <3>1, <3>2, Unmark
    <2>4. PrefixOK'
      BY <2>2, <2>3 DEF PrefixOK
    <2> QED BY <2>1, <2>4
  <1>7. CASE Choose
    <2>1. TypeOK' /\ MemoryOK' /\ Resumable'
      <3>1. TypeOK'
        BY <1>7 DEF Choose
      <3>2. MemoryOK'
        BY <1>7 DEF Choose
      <3>3. Resumable'
        BY <1>7 DEF Choose
      <3> QED BY <3>1, <3>2, <3>3
    <2>2. PICK v \in Candidates :
            /\ a' = [a EXCEPT ![pos] = v]
            /\ used' = [used EXCEPT ![v] = 1]
            /\ nextc' = [i \in 0..k-1 |-> IF i = pos THEN v + 1
                                          ELSE IF i = pos + 1 THEN 0 ELSE nextc[i]]
      BY <1>7 DEF Choose, After
    <2>3. /\ Enumerating /\ k \in Nat /\ n \in Nat /\ pos \in 0..k-1
          /\ pos' = pos + 1 /\ UNCHANGED <<n, k, life>>
      BY <1>7 DEF Choose
    <2>4. v \in 0..n-1 /\ used[v] = 0 /\ \A i \in 0..pos-1 : a[i] # v
      <3>1. nextc[pos] \in 0..n
        BY <2>3 DEF PrefixOK
      <3>2. v \in 0..n-1 /\ used[v] = 0
        BY <3>1, <2>3 DEF Candidates
      <3>3. ASSUME NEW i \in 0..pos-1, a[i] = v PROVE FALSE
        <4> HIDE DEF TypeOK, MemoryOK, Resumable, IInv
        <4>1. used[v] = 1 <=> \E j \in 0..pos-1 : a[j] = v
          BY <2>3, <3>2 DEF PrefixOK, IInv
        <4> QED BY <3>2, <3>3, <4>1
      <3> QED BY <3>2, <3>3
    <2>5. /\ a' \in [0..k-1 -> 0..n-1] /\ nextc' \in [0..k-1 -> 0..n]
          /\ used' \in [0..n-1 -> {0, 1}]
      BY <2>2, <2>3, <2>4 DEF PrefixOK
    <2>6. a'[pos] = v /\ \A i \in 0..pos-1 : a'[i] = a[i]
      BY <2>2, <2>3 DEF PrefixOK
    <2>7. \A w \in 0..n-1 : used'[w] = 1 <=> \E i \in 0..pos : a'[i] = w
      BY <2>2, <2>3, <2>4, <2>6 DEF PrefixOK
    <2>8. \A i, j \in 0..pos : i # j => a'[i] # a'[j]
      <3>1. \A i \in 0..pos : i = pos \/ i \in 0..pos-1
        BY <2>3
      <3>2. \A i, j \in 0..pos-1 : i # j => a[i] # a[j]
        BY <2>3 DEF PrefixOK
      <3> QED BY <2>4, <2>6, <3>1, <3>2
    <2>9. \A i \in 0..pos : nextc'[i] = a'[i] + 1
      BY <2>2, <2>3, <2>6 DEF PrefixOK
    <2>10. PrefixOK'
      <3>1. 0..pos'-1 = 0..pos
        BY <2>3
      <3> QED BY <2>3, <2>5, <2>7, <2>8, <2>9, <3>1 DEF PrefixOK
    <2> QED BY <2>1, <2>10
  <1>8. CASE Backtrack
    <2>1. TypeOK' /\ MemoryOK' /\ Resumable'
      <3>1. TypeOK'
        BY <1>8 DEF Backtrack, DeadEnd
      <3>2. MemoryOK'
        BY <1>8 DEF Backtrack, DeadEnd
      <3>3. Resumable'
        BY <1>8 DEF Backtrack, DeadEnd
      <3> QED BY <3>1, <3>2, <3>3
    <2>2. /\ Enumerating /\ k \in Nat /\ n \in Nat /\ pos \in 1..k-1
          /\ used' = [used EXCEPT ![a[pos-1]] = 0]
          /\ pos' = pos - 1 /\ UNCHANGED <<n, k, a, life>>
          /\ nextc' = [nextc EXCEPT ![pos] = 0]
      BY <1>8 DEF Backtrack, DeadEnd, Release
    <2>3. /\ used' \in [0..n-1 -> {0, 1}]
          /\ \A v \in 0..n-1 : used'[v] = 1 <=> \E i \in 0..(pos-1)-1 : a[i] = v
      <3> HIDE DEF TypeOK, MemoryOK, Resumable, IInv
      <3>1. /\ a \in [0..k-1 -> 0..n-1] /\ used \in [0..n-1 -> {0, 1}]
            /\ \A v \in 0..n-1 : used[v] = 1 <=> \E i \in 0..pos-1 : a[i] = v
            /\ \A i, j \in 0..pos-1 : i # j => a[i] # a[j]
        BY <2>2 DEF PrefixOK, IInv
      <3>2. pos \in 1..k /\ k \in Nat /\ n \in Nat
        BY <2>2
      <3>3. used' = [used EXCEPT ![a[pos-1]] = 0]
        BY <2>2
      <3> QED BY <3>1, <3>2, <3>3, Unmark
    <2>4. PrefixOK'
      <3>1. nextc' \in [0..k-1 -> 0..n] /\ \A i \in 0..(pos-1)-1 : nextc'[i] = a[i] + 1
        BY <2>2 DEF PrefixOK
      <3>2. \A i \in 0..pos'-1 : i \in 0..pos-1
        BY <2>2
      <3> QED BY <2>2, <2>3, <3>1, <3>2 DEF PrefixOK
    <2> QED BY <2>1, <2>4
  <1>9. CASE Exhaust
    <2>1. TypeOK' /\ MemoryOK' /\ Resumable'
      <3>1. TypeOK'
        BY <1>9 DEF Exhaust, DeadEnd
      <3>2. MemoryOK'
        BY <1>9 DEF Exhaust, DeadEnd
      <3>3. Resumable'
        BY <1>9 DEF Exhaust, DeadEnd
      <3> QED BY <3>1, <3>2, <3>3
    <2>2. PrefixOK'
      BY <1>9 DEF Exhaust, DeadEnd, PrefixOK
    <2> QED BY <2>1, <2>2
  <1>10. CASE UNCHANGED vars
    BY <1>10 DEF vars, PrefixOK
  <1> QED BY <1>1, <1>2, <1>3, <1>4, <1>5, <1>6, <1>7, <1>8, <1>9, <1>10
          DEF Next, InjNext, Search
-----------------------------------------------------------------------------
LEMMA Invariance == Spec => []IInv
  BY InitIInv, NextIInv, PTL DEF Spec

(* Every field of the struct keeps its range: pos never leaves 0..k.       *)
THEOREM TypeCorrect == Spec => []TypeOK
  BY Invariance, PTL DEF IInv

(* used marks the images of the current prefix and nothing else, and these *)
(* images are distinct, whatever inits and destroys came before.           *)
THEOREM PrefixCorrect == Spec => []PrefixOK
  BY Invariance, PTL DEF IInv

(* inj_destroy frees what the last inj_init malloced and nothing else, no  *)
(* block is lost, and inj_next never searches in freed or absent arrays.   *)
THEOREM MemoryCorrect == Spec => []MemoryOK
  BY Invariance, PTL DEF IInv
-----------------------------------------------------------------------------
(* Lex by its witness: g is ahead of f at position i and equal before it.  *)
LEMMA LexAt ==
  ASSUME NEW K \in Nat, NEW f, NEW g, DOMAIN f = 0..K-1, NEW i \in 0..K-1,
         f[i] < g[i], \A j \in 0..K-1 : j < i => f[j] = g[j]
  PROVE  Lex(f, g)
  <1>1. \A j \in 0..i-1 : j \in 0..K-1 /\ j < i
    OBVIOUS
  <1> QED BY <1>1 DEF Lex

(* What a step of the search that does not end the enumeration does.       *)
LEMMA SearchShape ==
  ASSUME IInv, [Next]_vars, ~UNCHANGED vars, pc = "search", done' = 0
  PROVE  /\ Enumerating /\ k \in Nat /\ n \in Nat /\ k' = k /\ n' = n
         /\ life' = life /\ pos \in 0..k
         /\ a \in [0..k-1 -> 0..n-1] /\ nextc \in [0..k-1 -> 0..n]
         /\ \/ /\ 0 < pos /\ pos' = pos - 1 /\ a' = a
               /\ nextc'[pos-1] = a[pos-1] + 1
            \/ Choose /\ pos < k /\ pos' = pos + 1
  <1>1. /\ Enumerating /\ k \in Nat /\ n \in Nat /\ pos \in 0..k /\ 0 < k
        /\ a \in [0..k-1 -> 0..n-1] /\ nextc \in [0..k-1 -> 0..n]
        /\ \A i \in 0..pos-1 : nextc[i] = a[i] + 1
    BY BoundsAssumption DEF IInv, TypeOK, MemoryOK, PrefixOK, Enumerating
  <1>2. Emit \/ Choose \/ Backtrack
    BY DEF Next, InjInitAny, InjInitTrivial, InjInitStorage, InjInitAlloc,
       InjInitNoMemory, InjInitArrays, InjInit, InjDestroy, InjNext, InjNextDone,
       InjNextEmpty, InjNextCall, Calling, Search, Exhaust
  <1>3. CASE Emit
    <2>1. /\ pos = k /\ pos' = k - 1 /\ k' = k /\ n' = n /\ life' = life
          /\ a' = a /\ nextc' = nextc
      BY <1>3 DEF Emit
    <2>2. 0 < pos /\ pos-1 \in 0..pos-1
      BY <1>1, <2>1
    <2> QED BY <1>1, <2>1, <2>2
  <1>4. CASE Choose
    <2>1. pos < k /\ pos' = pos + 1 /\ k' = k /\ n' = n /\ life' = life
      BY <1>4 DEF Choose
    <2> QED BY <1>1, <1>4, <2>1
  <1>5. CASE Backtrack
    <2>1. /\ 0 < pos /\ pos' = pos - 1 /\ k' = k /\ n' = n /\ life' = life
          /\ a' = a /\ nextc' = [nextc EXCEPT ![pos] = 0]
      BY <1>1, <1>5 DEF Backtrack
    <2>2. pos-1 \in 0..pos-1 /\ pos-1 \in 0..k-1 /\ pos-1 # pos
      BY <1>1, <2>1
    <2>3. nextc'[pos-1] = nextc[pos-1]
      BY <1>1, <2>1, <2>2
    <2> QED BY <1>1, <2>1, <2>2, <2>3
  <1> QED BY <1>2, <1>3, <1>4, <1>5

ProgressOK == Enumerating => Progress \in [0..k-1 -> 0..2*n]

LEMMA ProgressBounded ==
  ASSUME IInv
  PROVE  ProgressOK
  <1> SUFFICES ASSUME Enumerating PROVE Progress \in [0..k-1 -> 0..2*n]
    BY DEF ProgressOK
  <1>1. /\ n \in Nat /\ a \in [0..k-1 -> 0..n-1] /\ nextc \in [0..k-1 -> 0..n]
    BY BoundsAssumption DEF IInv, TypeOK, PrefixOK
  <1>2. \A i \in 0..k-1 : 2 * a[i] + 1 \in 0..2*n /\ 2 * nextc[i] \in 0..2*n
    <2> TAKE i \in 0..k-1
    <2>1. a[i] \in 0..n-1 /\ nextc[i] \in 0..n
      BY <1>1
    <2> QED BY <1>1, <2>1
  <1>3. 0 \in 0..2*n
    BY <1>1
  <1> QED BY <1>2, <1>3 DEF Progress

LEMMA ProgressStep ==
  ASSUME IInv, [Next]_vars, ~UNCHANGED vars, pc = "search", done' = 0
  PROVE  Lex(Progress, Progress')
  <1>1. /\ k \in Nat /\ n \in Nat /\ k' = k /\ pos \in 0..k
        /\ a \in [0..k-1 -> 0..n-1] /\ nextc \in [0..k-1 -> 0..n]
    BY SearchShape
  <1>2. DOMAIN Progress = 0..k-1
    BY DEF Progress
  <1>3. ASSUME 0 < pos, pos' = pos - 1, a' = a, nextc'[pos-1] = a[pos-1] + 1
        PROVE  Lex(Progress, Progress')
    <2>1. pos-1 \in 0..k-1 /\ pos-1 < pos /\ a[pos-1] \in Int
      BY <1>1, <1>3
    <2>2. Progress[pos-1] = 2 * a[pos-1] + 1
      BY <1>1, <2>1 DEF Progress
    <2>3. Progress'[pos-1] = 2 * (a[pos-1] + 1)
      BY <1>1, <1>3, <2>1 DEF Progress
    <2>4. \A j \in 0..k-1 : j < pos-1 => Progress[j] = Progress'[j]
      BY <1>1, <1>3 DEF Progress
    <2>5. Progress[pos-1] < Progress'[pos-1]
      BY <2>1, <2>2, <2>3
    <2> QED BY <1>1, <1>2, <2>1, <2>4, <2>5, LexAt
  <1>4. CASE Choose
    <2>1. pos \in 0..k-1 /\ pos' = pos + 1
      BY <1>1, <1>4 DEF Choose
    <2>2. PICK v \in Candidates : a' = [a EXCEPT ![pos] = v]
      BY <1>4 DEF Choose
    <2>3. v \in Int /\ nextc[pos] \in Int /\ nextc[pos] <= v
      BY <1>1, <2>1 DEF Candidates
    <2>4. a'[pos] = v /\ \A j \in 0..k-1 : j < pos => a'[j] = a[j]
      BY <1>1, <2>1, <2>2
    <2>5. Progress[pos] = 2 * nextc[pos] /\ Progress'[pos] = 2 * v + 1
      BY <1>1, <2>1, <2>4 DEF Progress
    <2>6. \A j \in 0..k-1 : j < pos => Progress[j] = Progress'[j]
      BY <1>1, <2>1, <2>4 DEF Progress
    <2>7. Progress[pos] < Progress'[pos]
      BY <2>3, <2>5
    <2> QED BY <1>1, <1>2, <2>1, <2>6, <2>7, LexAt
  <1> QED BY <1>3, <1>4, SearchShape

(* The search never stands still or goes back, for every n and k: together *)
(* with the bound, a variant that shows that the for(;;) of inj_next ends. *)
THEOREM SearchAdvancesCorrect == Spec => SearchAdvances
  <1>1. IInv /\ ProgressOK' /\ [Next]_vars =>
          [pc = "search" /\ done' = 0 =>
             Lex(Progress, Progress') /\ Progress' \in [0..k-1 -> 0..2*n]]_vars
    <2> SUFFICES ASSUME IInv, ProgressOK', [Next]_vars, ~UNCHANGED vars,
                        pc = "search", done' = 0
                 PROVE  Lex(Progress, Progress') /\ Progress' \in [0..k-1 -> 0..2*n]
      OBVIOUS
    <2>1. k' = k /\ n' = n /\ Enumerating'
      BY SearchShape DEF Enumerating
    <2> QED BY <2>1, ProgressStep DEF ProgressOK
  <1>2. IInv => ProgressOK
    BY ProgressBounded
  <1> QED BY <1>1, <1>2, Invariance, PTL DEF Spec, SearchAdvances
-----------------------------------------------------------------------------
(* With more positions than images there is nothing to enumerate.          *)
LEMMA NoInjections ==
  ASSUME NEW N \in Nat, NEW K \in Nat, K > N
  PROVE  Injection(0..K-1, 0..N-1) = {}
  <1>1. ASSUME NEW m \in Nat
        PROVE  IsFiniteSet(0..m-1) /\ Cardinality(0..m-1) = m
    <2>1. /\ IsFiniteSet(0..m-1)
          /\ Cardinality(0..m-1) = IF 0 > m-1 THEN 0 ELSE (m-1)-0+1
      BY FS_Interval, 0 \in Int, m-1 \in Int, Zenon
    <2> QED BY <2>1
  <1>2. ASSUME NEW f \in Injection(0..K-1, 0..N-1) PROVE FALSE
    <2>1. f \in [0..K-1 -> 0..N-1] /\ IsInjective(f)
      BY DEF Injection
    <2>2. PICK x, y \in 0..K-1 : x # y /\ f[x] = f[y]
      BY <1>1, <2>1, FS_PigeonHole
    <2> QED BY <2>1, <2>2 DEF IsInjective
  <1> QED BY <1>2

(* The empty domain has one mapping, the empty tuple.                      *)
LEMMA OneEmptyMapping == ASSUME k = 0 PROVE Injections = {<<>>}
  <1>1. 0..k-1 = {}
    OBVIOUS
  <1>2. \A T : \A f \in [{} -> T] : f = <<>>
    OBVIOUS
  <1>3. \A T : <<>> \in [{} -> T] /\ IsInjective(<<>>)
    BY DEF IsInjective
  <1> QED BY <1>1, <1>2, <1>3, Zenon DEF Injections, Injection

(* What an injection of the current n and k is, positions and images.      *)
LEMMA InjectionFacts ==
  ASSUME NEW f \in Injections
  PROVE  /\ f \in [0..k-1 -> 0..n-1]
         /\ \A i, j \in 0..k-1 : f[i] = f[j] => i = j
  BY DEF Injections, Injection, IsInjective

(* An injection that extends the current prefix has an unmarked image at   *)
(* the next position: the search may skip marked candidates.               *)
LEMMA Unskipped ==
  ASSUME IInv, Enumerating, pos < k, NEW f \in Injections,
         \A j \in 0..pos-1 : f[j] = a[j], nextc[pos] <= f[pos]
  PROVE  f[pos] \in Candidates
  <1>1. k \in Nat /\ n \in Nat /\ pos \in 0..k-1
    BY DEF IInv, TypeOK, Enumerating
  <1>2. f[pos] \in 0..n-1 /\ nextc[pos] \in 0..n
    BY <1>1, InjectionFacts DEF IInv, PrefixOK
  <1>3. \A j \in 0..pos-1 : a[j] # f[pos]
    <2>1. \A j \in 0..pos-1 : j \in 0..k-1 /\ j # pos
      BY <1>1
    <2> QED BY <1>1, <2>1, InjectionFacts
  <1>4. used[f[pos]] = 0
    <2>1. used[f[pos]] = 1 <=> \E j \in 0..pos-1 : a[j] = f[pos]
      BY <1>2 DEF IInv, PrefixOK
    <2>2. used[f[pos]] \in {0, 1}
      BY <1>2 DEF IInv, PrefixOK
    <2> QED BY <1>3, <2>1, <2>2
  <1> QED BY <1>1, <1>2, <1>4 DEF Candidates

(* A complete prefix is an injection, and the cast changes no image of it. *)
LEMMA CompletePrefix ==
  ASSUME IInv, NoTruncation, Enumerating, pos = k
  PROVE  /\ a \in Injections
         /\ [i \in 0..k-1 |-> CInt(a[i])] = a
  <1>1. /\ k \in Nat /\ n \in 0..MaxN /\ MaxN \in Nat /\ INT_MAX \in Nat
        /\ a \in [0..k-1 -> 0..n-1]
        /\ \A i, j \in 0..k-1 : i # j => a[i] # a[j]
    BY BoundsAssumption DEF IInv, TypeOK, PrefixOK
  <1>2. \A v \in 0..n-1 : CInt(v) = v
    BY <1>1 DEF CInt, NoTruncation
  <1>3. a \in Injections
    BY <1>1 DEF Injections, Injection, IsInjective
  <1>4. [i \in 0..k-1 |-> CInt(a[i])] = a
    BY <1>1, <1>2
  <1> QED BY <1>3, <1>4

-----------------------------------------------------------------------------
LEMMA InitYielded == Init => YieldedExactly
  BY DEF Init, YieldedExactly

LEMMA InjInitYielded ==
  ASSUME IInv, IInv', InjInitAny
  PROVE  YieldedExactly'
  <1>1. PICK n0 \in 0..MaxN, k0 \in 0..MaxK :
          \/ InjInitTrivial(n0, k0) \/ InjInitStorage(n0, k0)
          \/ InjInitAlloc(n0, k0) \/ InjInitNoMemory(n0, k0)
    BY DEF InjInitAny
  <1>2. /\ n' = n0 /\ k' = k0 /\ n0 \in Nat /\ k0 \in Nat
        /\ yielded' = {} /\ started' = 0 /\ pos' = 0
    BY <1>1, BoundsAssumption
       DEF InjInitTrivial, InjInitStorage, InjInitAlloc, InjInitNoMemory,
           InjInitArrays, InjInit, Restart
  <1>3. CASE InjInitTrivial(n0, k0)
    <2>1. CASE k0 = 0
      BY <1>2, <2>1 DEF YieldedExactly
    <2>2. CASE k0 # 0
      <3>1. k0 > n0 /\ done' = 1
        BY <1>3, <2>2 DEF InjInitTrivial
      <3>2. Injections' = {}
        BY <1>2, <3>1, NoInjections DEF Injections
      <3> QED BY <1>2, <2>2, <3>1, <3>2 DEF YieldedExactly
    <2> QED BY <2>1, <2>2
  <1>4. CASE InjInitStorage(n0, k0) \/ InjInitAlloc(n0, k0)
    <2>1. InjInitArrays(n0, k0)
      BY <1>4 DEF InjInitStorage, InjInitAlloc
    <2>2. k' # 0 /\ done' = 0 /\ nextc' = [i \in 0..k0-1 |-> 0] /\ 0 \in 0..k0-1
      BY <1>2, <2>1 DEF InjInitArrays
    <2>3. ASSUME NEW f \in Injections' PROVE ~(Passed(f)')
      <3>1. f \in [0..k0-1 -> 0..n0-1]
        BY <1>2 DEF Injections, Injection
      <3>2. \A i \in 0..k0-1 : i <= 0 => i = 0
        OBVIOUS
      <3>3. ~(f[0] < 0)
        BY <3>1, <2>2, <1>2
      <3> QED BY <1>2, <2>2, <3>2, <3>3 DEF Passed
    <2> QED BY <1>2, <2>2, <2>3 DEF YieldedExactly
  <1>5. CASE InjInitNoMemory(n0, k0)
    BY <1>5 DEF InjInitNoMemory, YieldedExactly
  <1> QED BY <1>1, <1>3, <1>4, <1>5

(* What is behind the search after each of its steps.                      *)
LEMMA EmitPassed ==
  ASSUME IInv, Emit, NEW f \in Injections
  PROVE  Passed(f)' <=> Passed(f) \/ f = a
  <1>1. /\ k \in Nat /\ n \in Nat /\ k > 0 /\ pos = k /\ pos' = k - 1
        /\ k' = k /\ a' = a /\ nextc' = nextc /\ nextc[k-1] = a[k-1] + 1
        /\ a \in [0..k-1 -> 0..n-1] /\ nextc \in [0..k-1 -> 0..n]
    BY BoundsAssumption
       DEF Emit, IInv, TypeOK, MemoryOK, PrefixOK, Enumerating
  <1>2. /\ f \in [0..k-1 -> 0..n-1]
        /\ \A i \in 0..k-1 : /\ i < k /\ i <= k-1 /\ (i < k-1 \/ i = k-1)
                             /\ f[i] \in Int /\ a[i] \in Int
    <2>1. f \in [0..k-1 -> 0..n-1]
      BY InjectionFacts
    <2> QED BY <1>1, <2>1
  <1>3. ASSUME Passed(f) PROVE Passed(f)'
    <2>1. PICK i \in 0..k-1 : (\A j \in 0..i-1 : f[j] = a[j]) /\ f[i] < a[i]
      <3>1. PICK i \in 0..k-1 : /\ \A j \in 0..i-1 : f[j] = a[j]
                                /\ f[i] < IF i < pos THEN a[i] ELSE nextc[i]
        BY <1>3 DEF Passed
      <3> QED BY <1>1, <1>2, <3>1
    <2>2. f[i] < IF i < k-1 THEN a[i] ELSE nextc[i]
      <3>1. CASE i < k-1
        BY <2>1, <3>1
      <3>2. CASE i = k-1
        <4>1. nextc[i] = a[i] + 1 /\ ~(i < k-1)
          BY <1>1, <3>2
        <4> QED BY <1>2, <2>1, <4>1
      <3> QED BY <1>2, <3>1, <3>2
    <2> QED BY <1>1, <1>2, <2>1, <2>2 DEF Passed
  <1>4. ASSUME f = a PROVE Passed(f)'
    <2>1. k-1 \in 0..k-1 /\ f[k-1] < nextc[k-1]
      BY <1>1, <1>4
    <2> QED BY <1>1, <1>4, <2>1 DEF Passed
  <1>5. ASSUME Passed(f)' PROVE Passed(f) \/ f = a
    <2>1. PICK i \in 0..k-1 : /\ \A j \in 0..i-1 : f[j] = a[j]
                              /\ f[i] < IF i < k-1 THEN a[i] ELSE nextc[i]
      BY <1>1, <1>5 DEF Passed
    <2>2. CASE f[i] < a[i]
      <3>1. i <= pos /\ i < pos
        BY <1>1, <1>2
      <3> QED BY <2>1, <2>2, <3>1 DEF Passed
    <2>3. CASE ~(f[i] < a[i])
      <3>1. i = k-1 /\ f[i] < a[i] + 1
        BY <1>1, <1>2, <2>1, <2>3
      <3>2. f[i] = a[i]
        BY <1>2, <2>3, <3>1
      <3>3. \A j \in 0..k-1 : f[j] = a[j]
        <4>1. \A j \in 0..k-1 : j = i \/ j \in 0..i-1
          BY <1>1, <3>1
        <4> QED BY <2>1, <3>2, <4>1
      <3> QED BY <1>1, <1>2, <3>3
    <2> QED BY <2>2, <2>3
  <1> QED BY <1>3, <1>4, <1>5

LEMMA ChoosePassed ==
  ASSUME IInv, Choose, NEW f \in Injections
  PROVE  Passed(f)' <=> Passed(f)
  <1>1. /\ k \in Nat /\ n \in Nat /\ Enumerating /\ pos \in 0..k-1
        /\ pos' = pos + 1 /\ k' = k
        /\ a \in [0..k-1 -> 0..n-1] /\ nextc \in [0..k-1 -> 0..n]
    BY BoundsAssumption
       DEF Choose, IInv, TypeOK, MemoryOK, PrefixOK, Enumerating
  <1>2. PICK v \in Candidates :
          /\ IsLeast(v, Candidates)
          /\ a' = [a EXCEPT ![pos] = v]
          /\ nextc' = [i \in 0..k-1 |-> IF i = pos THEN After(v)
                                        ELSE IF i = pos + 1 THEN 0 ELSE nextc[i]]
    BY DEF Choose
  <1>3. v \in Nat /\ v < n /\ nextc[pos] <= v
    BY <1>1 DEF Candidates
  <1>4. f \in [0..k-1 -> 0..n-1]
    BY InjectionFacts
  <1>5. a'[pos] = v /\ \A j \in 0..pos-1 : a'[j] = a[j] /\ j \in 0..k-1
    BY <1>1, <1>2, <1>3
  <1>6. ASSUME Passed(f) PROVE Passed(f)'
    <2>1. PICK i \in 0..k-1 : /\ i <= pos /\ \A j \in 0..i-1 : f[j] = a[j]
                              /\ f[i] < IF i < pos THEN a[i] ELSE nextc[i]
      BY <1>6 DEF Passed
    <2>2. i <= pos' /\ i < pos'
      BY <1>1, <2>1
    <2>3. \A j \in 0..i-1 : f[j] = a'[j]
      BY <1>1, <1>5, <2>1
    <2>4. f[i] < a'[i]
      <3>1. CASE i < pos
        BY <1>1, <1>5, <2>1, <3>1
      <3>2. CASE i = pos
        BY <1>1, <1>3, <1>4, <1>5, <2>1, <3>2
      <3> QED BY <1>1, <2>1, <3>1, <3>2
    <2> QED BY <1>1, <2>2, <2>3, <2>4 DEF Passed
  <1>7. ASSUME Passed(f)' PROVE Passed(f)
    <2>1. PICK i \in 0..k-1 : /\ i <= pos + 1 /\ \A j \in 0..i-1 : f[j] = a'[j]
                              /\ f[i] < IF i < pos + 1 THEN a'[i] ELSE nextc'[i]
      BY <1>1, <1>7 DEF Passed
    <2>2. i # pos + 1
      <3>1. ASSUME i = pos + 1 PROVE FALSE
        <4>1. nextc'[i] = 0
          BY <1>1, <1>2, <3>1
        <4> QED BY <1>1, <1>4, <2>1, <3>1, <4>1
      <3> QED BY <3>1
    <2>3. i <= pos /\ \A j \in 0..i-1 : f[j] = a[j]
      BY <1>1, <1>5, <2>1, <2>2
    <2>4. f[i] < IF i < pos THEN a[i] ELSE nextc[i]
      <3>1. CASE i < pos
        BY <1>1, <1>5, <2>1, <3>1
      <3>2. CASE i = pos
        <4>1. f[pos] < v
          BY <1>1, <1>5, <2>1, <3>2
        <4>2. ASSUME nextc[pos] <= f[pos] PROVE FALSE
          <5>1. f[pos] \in Candidates
            BY <1>1, <2>3, <3>2, <4>2, Unskipped
          <5>2. v <= f[pos]
            BY <1>2, <5>1 DEF IsLeast
          <5> QED BY <1>1, <1>3, <1>4, <4>1, <5>2
        <4> QED BY <1>1, <1>4, <3>2, <4>2
      <3> QED BY <1>1, <2>3, <3>1, <3>2
    <2> QED BY <2>3, <2>4 DEF Passed
  <1> QED BY <1>6, <1>7

LEMMA BacktrackPassed ==
  ASSUME IInv, Backtrack, NEW f \in Injections
  PROVE  Passed(f)' <=> Passed(f)
  <1>0. /\ Enumerating /\ pos \in 1..k-1 /\ k \in Nat /\ n \in Nat
        /\ pos' = pos - 1 /\ k' = k /\ a' = a /\ Candidates = {}
        /\ nextc' = [nextc EXCEPT ![pos] = 0]
    BY BoundsAssumption DEF Backtrack, DeadEnd, IInv, TypeOK, MemoryOK, Enumerating
  <1>1. /\ k \in Nat /\ n \in Nat /\ pos \in 1..k-1
        /\ a \in [0..k-1 -> 0..n-1] /\ nextc \in [0..k-1 -> 0..n]
        /\ \A i \in 0..pos-1 : nextc[i] = a[i] + 1
    BY <1>0 DEF IInv, PrefixOK
  <1>2. /\ f \in [0..k-1 -> 0..n-1]
        /\ \A i \in 0..k-1 : f[i] \in Int /\ a[i] \in Int /\ nextc[i] \in Int
    <2>1. f \in [0..k-1 -> 0..n-1]
      BY InjectionFacts
    <2> QED BY <1>1, <2>1
  <1>3. pos-1 \in 0..k-1 /\ nextc'[pos-1] = a[pos-1] + 1
    BY <1>0, <1>1
  <1>4. ASSUME Passed(f) PROVE Passed(f)'
    <2>1. PICK i \in 0..k-1 : /\ i <= pos /\ \A j \in 0..i-1 : f[j] = a[j]
                              /\ f[i] < IF i < pos THEN a[i] ELSE nextc[i]
      BY <1>4 DEF Passed
    <2>2. CASE i < pos-1
      <3>1. i <= pos-1 /\ i < pos /\ f[i] < a[i]
        BY <1>1, <2>1, <2>2
      <3> QED BY <1>0, <1>1, <2>1, <2>2, <3>1 DEF Passed
    <2>3. CASE i = pos-1 \/ i = pos
      <3>1. \A j \in 0..(pos-1)-1 : f[j] = a[j]
        <4>1. \A j \in 0..(pos-1)-1 : j \in 0..i-1
          BY <1>1, <2>3
        <4> QED BY <2>1, <4>1
      <3>2. f[pos-1] < a[pos-1] + 1
        <4>1. CASE i = pos-1
          <5>1. i < pos
            BY <1>1, <4>1
          <5>2. f[pos-1] < a[pos-1]
            BY <2>1, <4>1, <5>1
          <5> QED BY <1>2, <1>3, <5>2
        <4>2. CASE i = pos
          <5>1. f[pos-1] = a[pos-1]
            BY <1>1, <2>1, <4>2
          <5> QED BY <1>2, <1>3, <5>1
        <4> QED BY <2>3, <4>1, <4>2
      <3>3. pos-1 <= pos-1 /\ ~(pos-1 < pos-1)
        BY <1>1
      <3> QED BY <1>0, <1>3, <3>1, <3>2, <3>3 DEF Passed
    <2> QED BY <1>1, <2>1, <2>2, <2>3
  <1>5. ASSUME Passed(f)' PROVE Passed(f)
    <2>1. PICK i \in 0..k-1 : /\ i <= pos-1 /\ \A j \in 0..i-1 : f[j] = a[j]
                              /\ f[i] < IF i < pos-1 THEN a[i] ELSE nextc'[i]
      BY <1>0, <1>5 DEF Passed
    <2>2. i < pos /\ i <= pos
      BY <1>1, <2>1
    <2>3. CASE f[i] < a[i]
      BY <2>1, <2>2, <2>3 DEF Passed
    <2>4. CASE ~(f[i] < a[i])
      <3>1. i = pos-1 /\ f[i] < a[i] + 1
        <4>1. i = pos-1
          BY <1>1, <2>1, <2>4
        <4>2. f[i] < nextc'[i]
          BY <2>1, <4>1, <1>1
        <4> QED BY <1>3, <4>1, <4>2
      <3>2. f[i] = a[i]
        BY <1>2, <2>4, <3>1
      <3>3. \A j \in 0..pos-1 : f[j] = a[j]
        <4>1. \A j \in 0..pos-1 : j = i \/ j \in 0..i-1
          BY <1>1, <3>1
        <4> QED BY <2>1, <3>2, <4>1
      <3>4. ~(nextc[pos] <= f[pos])
        BY <1>0, <3>3, Unskipped
      <3>5. pos \in 0..k-1 /\ pos <= pos /\ ~(pos < pos)
        BY <1>1
      <3>6. f[pos] < nextc[pos]
        BY <1>2, <3>4, <3>5
      <3> QED BY <3>3, <3>5, <3>6 DEF Passed
    <2> QED BY <2>3, <2>4
  <1> QED BY <1>4, <1>5

(* At a dead end at depth 0 every injection is behind the search.          *)
LEMMA ExhaustPassed ==
  ASSUME IInv, Exhaust, NEW f \in Injections
  PROVE  Passed(f)
  <1>1. /\ k \in Nat /\ n \in Nat /\ Enumerating /\ pos = 0 /\ pos < k
        /\ Candidates = {} /\ nextc \in [0..k-1 -> 0..n] /\ 0 \in 0..k-1
    BY BoundsAssumption
       DEF Exhaust, DeadEnd, IInv, TypeOK, MemoryOK, PrefixOK, Enumerating
  <1>2. f[0] \in Int /\ nextc[0] \in Int
    BY <1>1, InjectionFacts
  <1>3. ~(nextc[0] <= f[0])
    <2>1. \A j \in 0..pos-1 : f[j] = a[j]
      BY <1>1
    <2> QED BY <1>1, <2>1, Unskipped
  <1>4. f[0] < nextc[0] /\ ~(0 < pos) /\ 0 <= pos /\ \A j \in 0..0-1 : f[j] = a[j]
    BY <1>1, <1>2, <1>3
  <1> QED BY <1>1, <1>4 DEF Passed
-----------------------------------------------------------------------------
(* A step inside inj_next that leaves n and k alone preserves exactness    *)
(* when what is behind the search does not change.                         *)
LEMMA SearchFacts ==
  ASSUME IInv, Search
  PROVE  /\ Enumerating /\ k # 0 /\ done = 0 /\ started' = started
         /\ n' = n /\ k' = k /\ life' = "ready" /\ Injections' = Injections
  BY DEF IInv, TypeOK, MemoryOK, Search, Emit, Choose, Backtrack, Exhaust, DeadEnd,
         Enumerating, Injections

LEMMA NextYielded ==
  ASSUME NoTruncation, IInv, IInv', YieldedExactly, [Next]_vars
  PROVE  YieldedExactly'
  <1>1. CASE InjInitAny
    BY <1>1, InjInitYielded
  <1>2. CASE InjDestroy
    BY <1>2 DEF InjDestroy, YieldedExactly
  <1>3. CASE InjNextDone \/ InjNextCall \/ UNCHANGED vars
    <2>1. UNCHANGED <<n, k, a, nextc, pos, started, done, life, yielded>>
      BY <1>3 DEF InjNextDone, InjNextCall, vars, fields, arrays
    <2> QED BY <2>1 DEF YieldedExactly, Passed, Injections
  <1>4. CASE InjNextEmpty
    <2>1. k' = 0 /\ started' = 1 /\ yielded' = {<<>>}
      BY <1>4 DEF InjNextEmpty, Calling, YieldedExactly
    <2> QED BY <2>1 DEF YieldedExactly
  <1>5. CASE Emit
    <2>1. yielded' = {f \in Injections : Passed(f)} \cup {a} /\ a \in Injections
      BY <1>5, SearchFacts, CompletePrefix DEF Emit, Search, YieldedExactly, Enumerating
    <2>2. \A f \in Injections : Passed(f)' <=> Passed(f) \/ f = a
      BY <1>5, EmitPassed
    <2>3. yielded' = {f \in Injections : Passed(f)'}
      BY <2>1, <2>2
    <2>4. done' = 0 /\ k' # 0 /\ Injections' = Injections
      BY <1>5, SearchFacts DEF Emit, Search
    <2> QED BY <2>3, <2>4 DEF YieldedExactly
  <1>6. CASE Choose \/ Backtrack
    <2>1. /\ yielded' = {f \in Injections : Passed(f)}
          /\ done' = 0 /\ k' # 0 /\ Injections' = Injections
      BY <1>6, SearchFacts DEF Choose, Backtrack, Search, YieldedExactly, Enumerating
    <2>2. \A f \in Injections : Passed(f)' <=> Passed(f)
      BY <1>6, ChoosePassed, BacktrackPassed
    <2> QED BY <2>1, <2>2 DEF YieldedExactly
  <1>7. CASE Exhaust
    <2>1. /\ yielded' = {f \in Injections : Passed(f)}
          /\ done' = 1 /\ k' # 0 /\ Injections' = Injections
      BY <1>7, SearchFacts DEF Exhaust, Search, YieldedExactly, Enumerating
    <2>2. \A f \in Injections : Passed(f)
      BY <1>7, ExhaustPassed
    <2> QED BY <2>1, <2>2 DEF YieldedExactly
  <1> QED BY <1>1, <1>2, <1>3, <1>4, <1>5, <1>6, <1>7 DEF Next, InjNext, Search

(* At every moment exactly the injections behind the search have been      *)
(* handed out, and all of them once inj_next has set done: none is lost or *)
(* repeated, however the calls of several enumerations follow each other.  *)
THEOREM YieldedExactlyCorrect == NoTruncation => (Spec => []YieldedExactly)
  <1> SUFFICES ASSUME NoTruncation PROVE Spec => []YieldedExactly
    OBVIOUS
  <1>1. IInv /\ YieldedExactly /\ [Next]_vars => (IInv /\ YieldedExactly)'
    BY NextIInv, NextYielded
  <1> QED BY <1>1, InitIInv, InitYielded, PTL DEF Spec

(* As long as an int holds every image, what inj_next writes to            *)
(* out_images[i] is an element of 0..n-1: the promise of its comment is    *)
(* broken only by the cast of a size_t that is too large.                  *)
THEOREM ImagesInRangeCorrect == NoTruncation => (Spec => []ImagesInRange)
  <1>1. IInv /\ YieldedExactly => ImagesInRange
    <2> SUFFICES ASSUME IInv, YieldedExactly, life = "ready",
                        NEW f \in yielded, NEW i \in DOMAIN f
                 PROVE  f[i] \in 0..n-1
      BY DEF ImagesInRange
    <2>1. CASE k = 0
      <3>1. f = <<>>
        BY <2>1 DEF YieldedExactly
      <3> QED BY <3>1
    <2>2. CASE k # 0
      <3>1. f \in Injections
        BY <2>2 DEF YieldedExactly
      <3> QED BY <3>1, InjectionFacts
    <2> QED BY <2>1, <2>2
  <1> QED BY <1>1, Invariance, YieldedExactlyCorrect, PTL
-----------------------------------------------------------------------------
LEMMA InitPromised == Init => Promised!Init
  BY DEF Init, Promised!Init

LEMMA EmitPromised ==
  ASSUME NoTruncation, IInv, YieldedExactly, Emit
  PROVE  Promised!Yield
  <1>1. /\ life = "ready" /\ life' = "ready" /\ Injections' = Injections
        /\ k \in Nat /\ 0 < k /\ pos = k /\ status' = status /\ parity' = 1 - parity
        /\ a \in Injections /\ yielded' = yielded \cup {a}
        /\ yielded = {f \in Injections : Passed(f)}
    BY SearchFacts, CompletePrefix
       DEF Emit, Search, YieldedExactly, IInv, TypeOK, Enumerating
  <1>2. status = "open"
    BY <1>1, SearchFacts
       DEF Search, IInv, TypeOK, Resumable
  <1>3. a \in [0..k-1 -> 0..n-1] /\ \A i \in 0..k-1 : i < k /\ ~(a[i] < a[i])
    <2>1. a \in [0..k-1 -> 0..n-1]
      BY <1>1, InjectionFacts
    <2> QED BY <1>1, <2>1
  <1>4. a \notin yielded
    BY <1>1, <1>3 DEF Passed
  <1>5. ASSUME NEW y \in Injections, Lex(y, a) PROVE y \in yielded
    <2>1. y \in [0..k-1 -> 0..n-1]
      BY InjectionFacts
    <2>2. PICK i \in 0..k-1 : y[i] < a[i] /\ \A j \in 0..i-1 : y[j] = a[j]
      BY <1>5, <2>1 DEF Lex
    <2>3. i < pos /\ i <= pos
      BY <1>1
    <2> QED BY <1>1, <2>2, <2>3 DEF Passed
  <1> QED BY <1>1, <1>2, <1>4, <1>5 DEF Promised!Yield

LEMMA EmptyPromised ==
  ASSUME IInv, YieldedExactly, InjNextEmpty
  PROVE  Promised!Yield
  <1>1. /\ life = "ready" /\ life' = "ready" /\ k = 0 /\ n' = n /\ k' = k
        /\ yielded = {} /\ yielded' = {<<>>} /\ status' = status /\ started = 0
        /\ done = 0 /\ parity' = 1 - parity
    BY DEF InjNextEmpty, Calling, YieldedExactly
  <1>2. status = "open"
    BY <1>1 DEF IInv, TypeOK, Resumable
  <1>3. Injections = {<<>>} /\ Injections' = Injections
    BY <1>1, OneEmptyMapping DEF Injections
  <1>4. ~Lex(<<>>, <<>>)
    BY DEF Lex
  <1> QED BY <1>1, <1>2, <1>3, <1>4 DEF Promised!Yield

LEMMA FinishPromised ==
  ASSUME NoTruncation, IInv, IInv', YieldedExactly, YieldedExactly',
         InjNextDone \/ Exhaust
  PROVE  Promised!Finish
  <1>1. CASE InjNextDone
    <2>1. /\ life = "ready" /\ life' = life /\ Injections' = Injections
          /\ yielded' = yielded /\ parity' = parity /\ status' = "over"
          /\ done = 1 \/ (k = 0 /\ started = 1)
      BY <1>1 DEF InjNextDone, Calling, fields, Injections
    <2>2. k = 0 => started = 1
      BY <2>1 DEF IInv, Resumable
    <2>3. yielded = Injections
      BY <2>1, <2>2, OneEmptyMapping DEF YieldedExactly
    <2> QED BY <2>1, <2>3 DEF Promised!Finish
  <1>2. CASE Exhaust
    <2>1. /\ life = "ready" /\ life' = "ready" /\ Injections' = Injections
          /\ yielded' = yielded /\ parity' = parity /\ status' = "over" /\ done' = 1 /\ k' # 0
      BY <1>2, SearchFacts DEF Exhaust, Search, Enumerating
    <2>2. yielded = Injections
      BY <2>1 DEF YieldedExactly
    <2> QED BY <2>1, <2>2 DEF Promised!Finish
  <1> QED BY <1>1, <1>2

LEMMA NextPromised ==
  ASSUME NoTruncation, IInv, IInv', YieldedExactly, YieldedExactly', [Next]_vars
  PROVE  [Promised!Next]_(Promised!vars)
  <1>1. CASE InjInitAny \/ InjDestroy
    BY <1>1 DEF InjInitAny, InjInitTrivial, InjInitStorage, InjInitAlloc,
       InjInitNoMemory, InjInitArrays, InjInit, InjDestroy,
       Promised!Next, Promised!Begin
  <1>2. CASE InjNextCall \/ Choose \/ Backtrack \/ UNCHANGED vars
    <2>1. UNCHANGED <<n, k, life, yielded, status, parity>>
      BY <1>2, SearchFacts
         DEF InjNextCall, Choose, Backtrack, Search, vars, fields, Calling, Enumerating
    <2> QED BY <2>1 DEF Promised!vars, Injections
  <1>3. CASE Emit \/ InjNextEmpty
    BY <1>3, EmitPromised, EmptyPromised DEF Promised!Next
  <1>4. CASE InjNextDone \/ Exhaust
    BY <1>4, FinishPromised DEF Promised!Next
  <1> QED BY <1>1, <1>2, <1>3, <1>4 DEF Next, InjNext, Search

(* The coroutine implements Enumerator: each call that returns 1 hands out *)
(* the lexicographically next injection, a call returns 0 after the last.  *)
THEOREM EnumeratorImplemented == NoTruncation => (Spec => ImplementsEnumerator)
  <1> SUFFICES ASSUME NoTruncation PROVE Spec => ImplementsEnumerator
    OBVIOUS
  <1>1. Spec => []YieldedExactly
    BY YieldedExactlyCorrect
  <1>2. IInv /\ IInv' /\ YieldedExactly /\ YieldedExactly' /\ [Next]_vars
          => [Promised!Next]_(Promised!vars)
    BY NextPromised
  <1> QED BY <1>1, <1>2, InitPromised, Invariance, PTL
          DEF Spec, ImplementsEnumerator, Promised!Spec
=============================================================================

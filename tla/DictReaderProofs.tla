-------------------------- MODULE DictReaderProofs --------------------------
(***************************************************************************)
(* DictReader for every set of programs: process_node reads a dict to its  *)
(* end, each text once and in order, and reading it is a behaviour of      *)
(* Package, so that what is proved of any AST holds of these.              *)
(***************************************************************************)
EXTENDS DictReader, PackageProofs

(* The values that the calls have still to read are of the kind that the   *)
(* calls have found them to be.                                            *)
PendingOK ==
  /\ program \in Programs
  /\ pending \in Seq(Values) /\ Len(pending) = Len(stack)
  /\ \A x \in 1..Len(stack) : stack[x].kind # "called" => pending[x].kind = stack[x].kind

(* rest[x] is what the calls 1..x of reads have still to read.             *)
Composed(rest, reads) ==
  /\ rest \in [0..Len(reads) -> Seq(AttributeTexts)]
  /\ rest[0] = <<>>
  /\ \A x \in 1..Len(reads) : rest[x] = TextsOf(reads[x]) \o rest[x-1]

(* What the nodes are labelled with and what is still to be read are the   *)
(* whole program, at every moment.                                         *)
ReadInOrder ==
  DOMAIN nodes # {} =>
    /\ Labels \in Seq(AttributeTexts)
    /\ \E rest : /\ Composed(rest, pending)
                 /\ Labels \o rest[Len(pending)] = <<"_root">> \o TextsOf(DictOf(program))

ReadInv == PendingOK /\ ReadInOrder
-----------------------------------------------------------------------------
LEMMA ComposedFacts ==
  ASSUME NEW s \in Seq(Values), s # <<>>, NEW rest, Composed(rest, s)
  PROVE  /\ rest[Len(s) - 1] \in Seq(AttributeTexts)
         /\ rest[Len(s)] = TextsOf(s[Len(s)]) \o rest[Len(s) - 1]
  <1>1. Len(s) \in 1..Len(s) /\ Len(s) - 1 \in 0..Len(s)
    OBVIOUS
  <1> QED BY <1>1 DEF Composed

LEMMA ComposedPop ==
  ASSUME NEW s \in Seq(Values), s # <<>>, NEW rest, Composed(rest, s),
         NEW q \in Seq(Values), Len(q) = Len(s) - 1, \A x \in 1..Len(s)-1 : q[x] = s[x]
  PROVE  \E r : Composed(r, q) /\ r[Len(q)] = rest[Len(s) - 1]
  <1> DEFINE n == Len(s)
             r == [x \in 0..n-1 |-> rest[x]]
  <1>1. n \in Nat \ {0}
    OBVIOUS
  <1>2. r \in [0..Len(q) -> Seq(AttributeTexts)] /\ r[0] = <<>>
    BY <1>1 DEF Composed
  <1>3. ASSUME NEW x \in 1..Len(q) PROVE r[x] = TextsOf(q[x]) \o r[x-1]
    <2>1. x \in 1..n /\ x \in 0..n-1 /\ x-1 \in 0..n-1 /\ q[x] = s[x]
      BY <1>1
    <2> QED BY <2>1 DEF Composed
  <1>4. Composed(r, q)
    BY <1>2, <1>3 DEF Composed
  <1>5. r[Len(q)] = rest[n-1]
    BY <1>1
  <1> QED BY <1>4, <1>5

(* The last call has read something off its value, and made another call.  *)
LEMMA ComposedPush ==
  ASSUME NEW s \in Seq(Values), s # <<>>, NEW rest, Composed(rest, s),
         NEW u \in Values, NEW w \in Values
  PROVE  \E r : /\ Composed(r, Append([s EXCEPT ![Len(s)] = u], w))
                /\ r[Len(s) + 1] = TextsOf(w) \o (TextsOf(u) \o rest[Len(s) - 1])
  <1> DEFINE n == Len(s)
             q == Append([s EXCEPT ![n] = u], w)
             below == TextsOf(u) \o rest[n-1]
             r == [x \in 0..n+1 |-> IF x < n THEN rest[x] ELSE IF x = n THEN below
                                                             ELSE TextsOf(w) \o below]
  <1>1. n \in Nat \ {0}
    OBVIOUS
  <1>2. /\ Len(q) = n+1 /\ q[n] = u /\ q[n+1] = w /\ \A x \in 1..n-1 : q[x] = s[x]
    <2> DEFINE p == [s EXCEPT ![n] = u]
    <2>1. p \in Seq(Values) /\ Len(p) = n /\ p[n] = u /\ \A x \in 1..n-1 : p[x] = s[x]
      BY <1>1
    <2> HIDE DEF p
    <2> QED BY <1>1, <2>1
  <1> HIDE DEF q
  <1>3. /\ TextsOf(u) \in Seq(AttributeTexts) /\ TextsOf(w) \in Seq(AttributeTexts)
        /\ \A x \in 0..n : rest[x] \in Seq(AttributeTexts)
    BY TextsAssumption DEF Composed
  <1>4. below \in Seq(AttributeTexts) /\ TextsOf(w) \o below \in Seq(AttributeTexts)
    BY <1>1, <1>3
  <1>5. r \in [0..n+1 -> Seq(AttributeTexts)] /\ r[0] = <<>>
    BY <1>1, <1>3, <1>4 DEF Composed
  <1>6. /\ \A x \in 0..n-1 : r[x] = rest[x]
        /\ r[n] = below /\ r[n+1] = TextsOf(w) \o below
    <2> HIDE DEF below
    <2> DEFINE next == TextsOf(w) \o below
    <2>1. r = [x \in 0..n+1 |-> IF x < n THEN rest[x] ELSE IF x = n THEN below ELSE next]
      OBVIOUS
    <2> HIDE DEF r, next, n
    <2>2. \A x \in 0..n-1 : r[x] = rest[x]
      BY <1>1, <2>1
    <2>3. r[n] = below /\ r[n+1] = next
      BY <1>1, <2>1
    <2> QED BY <2>2, <2>3 DEF next
  <1> HIDE DEF r
  <1>7. ASSUME NEW x \in 1..n+1 PROVE r[x] = TextsOf(q[x]) \o r[x-1]
    <2>1. CASE x = n + 1
      <3>1. x - 1 = n /\ q[x] = w
        BY <1>1, <1>2, <2>1
      <3> QED BY <1>6, <2>1, <3>1
    <2>2. CASE x = n
      <3>1. n - 1 \in 0..n-1 /\ q[x] = u
        BY <1>1, <1>2, <2>2
      <3> QED BY <1>6, <2>2, <3>1
    <2>3. CASE x \in 1..n-1
      <3>1. x \in 0..n-1 /\ x - 1 \in 0..n-1 /\ x \in 1..n /\ q[x] = s[x]
        BY <1>1, <1>2, <2>3
      <3> QED BY <1>6, <3>1 DEF Composed
    <2>4. x = n + 1 \/ x = n \/ x \in 1..n-1
      BY <1>1
    <2> QED BY <2>1, <2>2, <2>3, <2>4
  <1>8. Composed(r, q)
    BY <1>1, <1>2, <1>5, <1>7 DEF Composed
  <1> QED BY <1>1, <1>6, <1>8 DEF q
-----------------------------------------------------------------------------
(* A new call goes on top; the kinds of the others stay.                   *)
Pushed ==
  /\ Len(stack') = Len(stack) + 1 /\ stack'[Len(stack) + 1].kind = "called"
  /\ \A x \in 1..Len(stack) : stack'[x].kind = stack[x].kind

LEMMA KeyPushes ==
  ASSUME TInv, NEW t \in Keys, Key(t)
  PROVE  Pushed
  <1>1. stack # <<>> /\ stack \in Seq(Calls) /\ node_counter' \in 0..MaxNodes
    BY InputAssumption DEF Key, Running, Attach, FreshId, TInv, CountersOK, StackTyped
  <1> DEFINE F == [Top EXCEPT !.keys = @ \cup {t}]
             G == Call("called", node_counter', node_counter', {})
             s == [stack EXCEPT ![Len(stack)] = F]
  <1>2. F \in Calls /\ F.kind = Top.kind /\ G \in Calls /\ G.kind = "called"
    BY <1>1, PoppedFacts DEF TInv, Calls, Call
  <1>3. stack' = Append(s, G)
    BY DEF Key, Top
  <1>4. Len(stack) \in Nat \ {0} /\ Top = stack[Len(stack)]
    BY <1>1, PoppedFacts DEF TInv
  <1> HIDE DEF F, G, Calls
  <1>5. /\ s \in Seq(Calls) /\ Len(s) = Len(stack)
        /\ \A x \in 1..Len(stack) : s[x] = IF x = Len(stack) THEN F ELSE stack[x]
    BY <1>1, <1>2, <1>4
  <1> HIDE DEF s
  <1>6. /\ Len(stack') = Len(stack) + 1 /\ stack'[Len(stack) + 1] = G
        /\ \A x \in 1..Len(stack) : stack'[x] = s[x]
    BY <1>2, <1>3, <1>4, <1>5
  <1> QED BY <1>2, <1>4, <1>5, <1>6 DEF Pushed

LEMMA ItemPushes ==
  ASSUME TInv, Item
  PROVE  Pushed
  <1> DEFINE G == Call("called", node_counter, Top.rule, {})
  <1>1. stack # <<>> /\ stack \in Seq(Calls)
    BY DEF TInv, StackTyped, Item, Running
  <1>2. G \in Calls /\ G.kind = "called"
    BY <1>1, PoppedFacts, InputAssumption DEF TInv, CountersOK, Calls, Call
  <1>3. stack' = Append(stack, G)
    BY DEF Item, ItemParent
  <1> HIDE DEF G, Calls
  <1> QED BY <1>1, <1>2, <1>3 DEF Pushed

LEMMA EnterKinds ==
  ASSUME TInv, NEW kind \in {"dict", "list"}, stack # <<>>,
         stack' = [stack EXCEPT ![Len(stack)].kind = kind]
  PROVE  /\ Len(stack') = Len(stack) /\ stack'[Len(stack)].kind = kind
         /\ \A x \in 1..Len(stack)-1 : stack'[x].kind = stack[x].kind
  <1> DEFINE F == [Top EXCEPT !.kind = kind]
  <1>1. F \in Calls /\ F.kind = kind /\ Len(stack) \in Nat \ {0} /\ stack \in Seq(Calls)
    BY PoppedFacts DEF TInv, StackTyped, Calls
  <1>2. stack' = [stack EXCEPT ![Len(stack)] = F]
    BY DEF Top
  <1> HIDE DEF F, Calls
  <1> QED BY <1>1, <1>2
-----------------------------------------------------------------------------
(* The new node is labelled with the text it is made for.                  *)
LEMMA LabelsGrow ==
  ASSUME TInv, AttributesOK, AttributesOK', DOMAIN nodes # {},
         Labels \in Seq(AttributeTexts),
         NEW source, NEW t \in AttributeTexts, Attach(source, t)
  PROVE  Labels' = Labels \o <<t>>
  <1>0. PICK m : m = node_counter + 1
    OBVIOUS
  <1>1. /\ node_counter \in Nat /\ m = node_counter + 1 /\ node_counter' = m
        /\ DOMAIN nodes = 0..node_counter
        /\ GetAttributeId(t) /\ nodes' = Extended(nodes, m, AttributeId(t))
    BY <1>0, InputAssumption DEF Attach, FreshId, TInv, CountersOK, TreeOK
  <1>2. m \notin DOMAIN nodes
    BY <1>1
  <1>3. Label(m)' = t /\ \A v \in DOMAIN nodes : Label(v)' = Label(v)
    BY <1>1, <1>2, LabelStep
  <1>4. Labels' = [x \in 1..m+1 |-> Label(x-1)']
    BY <1>1 DEF Labels
  <1>5. Len(Labels) = m /\ \A x \in 1..m : Labels[x] = Label(x-1)
    BY <1>1 DEF Labels
  <1>6. \A x \in 1..m : Label(x-1)' = Labels[x]
    <2> TAKE x \in 1..m
    <2>1. x - 1 \in DOMAIN nodes
      BY <1>1
    <2>2. Label(x-1)' = Label(x-1)
      BY <1>3, <2>1, Zenon
    <2> QED BY <1>5, <2>2
  <1>7. Labels \o <<t>> = [x \in 1..m+1 |-> IF x <= m THEN Labels[x] ELSE t]
    BY <1>1, <1>5
  <1>8. \A x \in 1..m+1 : Label(x-1)' = IF x <= m THEN Labels[x] ELSE t
    <2> TAKE x \in 1..m+1
    <2>1. CASE x \in 1..m
      <3>1. Label(x-1)' = Labels[x]
        BY <1>6, <2>1, Zenon
      <3> QED BY <1>1, <2>1, <3>1
    <2>2. CASE x = m + 1
      <3>1. x - 1 = m /\ ~(x <= m)
        BY <1>1, <2>2
      <3>2. Label(x-1)' = t
        BY <1>3, <3>1, Zenon
      <3> QED BY <3>1, <3>2
    <2> QED BY <1>1, <2>1, <2>2
  <1> QED BY <1>4, <1>7, <1>8

LEMMA LabelsKept ==
  ASSUME UNCHANGED <<node_counter, nodes, attributes>>
  PROVE  Labels' = Labels
  BY DEF Labels, Label, attributes
-----------------------------------------------------------------------------
LEMMA Associative ==
  ASSUME NEW S, NEW s \in Seq(S), NEW t \in Seq(S), NEW u \in Seq(S)
  PROVE  (s \o t) \o u = s \o (t \o u)
  BY ConcatAssociative

(* Concatenation as an operator that the provers take as it is.            *)
Cat(s, t) == s \o t

LEMMA Concatenations ==
  ASSUME NEW S
  PROVE  /\ \A s, t \in Seq(S) : Cat(s, t) \in Seq(S)
         /\ \A s, t, u \in Seq(S) : Cat(Cat(s, t), u) = Cat(s, Cat(t, u))
  <1>1. \A s, t \in Seq(S) : Cat(s, t) \in Seq(S)
    BY ConcatProperties DEF Cat
  <1>2. ASSUME NEW s \in Seq(S), NEW t \in Seq(S), NEW u \in Seq(S)
        PROVE  Cat(Cat(s, t), u) = Cat(s, Cat(t, u))
    BY Associative DEF Cat
  <1> QED BY <1>1, <1>2, Zenon

(* What a step reads moves from what is left to what is labelled.          *)
LEMMA ReadMoves ==
  ASSUME NEW S, NEW L \in Seq(S), NEW K \in Seq(S), NEW W \in Seq(S), NEW U \in Seq(S),
         NEW R \in Seq(S)
  PROVE  Cat(Cat(L, K), Cat(W, Cat(U, R))) = Cat(L, Cat(Cat(Cat(K, W), U), R))
  <1>1. Cat(K, W) \in Seq(S) /\ Cat(U, R) \in Seq(S)
    BY Concatenations, Zenon
  <1>2. Cat(W, Cat(U, R)) \in Seq(S)
    BY <1>1, Concatenations, Zenon
  <1>3. Cat(Cat(L, K), Cat(W, Cat(U, R))) = Cat(L, Cat(K, Cat(W, Cat(U, R))))
    BY <1>2, Concatenations
  <1>4. Cat(K, Cat(W, Cat(U, R))) = Cat(Cat(K, W), Cat(U, R))
    BY <1>1, Concatenations
  <1>5. Cat(Cat(K, W), Cat(U, R)) = Cat(Cat(Cat(K, W), U), R)
    BY <1>1, Concatenations
  <1> QED BY <1>3, <1>4, <1>5, Zenon
-----------------------------------------------------------------------------
LEMMA LeftFacts ==
  ASSUME TInv, PendingOK, stack # <<>>
  PROVE  /\ Len(pending) \in Nat \ {0} /\ Len(pending) = Len(stack) /\ pending # <<>>
         /\ pending \in Seq(Values) /\ Left \in Values /\ Left = pending[Len(pending)]
         /\ Top.kind # "called" => Left.kind = Top.kind
         /\ Finished \in Seq(Values) /\ Len(Finished) = Len(pending) - 1
         /\ \A x \in 1..Len(pending)-1 : Finished[x] = pending[x]
  <1>1. Len(stack) \in Nat \ {0} /\ Top = stack[Len(stack)] /\ Len(stack) \in 1..Len(stack)
    BY PoppedFacts DEF TInv
  <1>2. /\ pending \in Seq(Values) /\ Len(pending) = Len(stack)
        /\ \A x \in 1..Len(stack) : stack[x].kind # "called" => pending[x].kind = stack[x].kind
    BY DEF PendingOK
  <1>3. Left \in Values /\ Left = pending[Len(pending)] /\ pending # <<>>
    BY <1>1, <1>2 DEF Left
  <1>4. Top.kind # "called" => Left.kind = Top.kind
    BY <1>1, <1>2, <1>3
  <1>5. /\ Finished \in Seq(Values) /\ Len(Finished) = Len(pending) - 1
        /\ \A x \in 1..Len(pending)-1 : Finished[x] = pending[x]
    <2> DEFINE n == Len(pending)
    <2>1. n \in Nat \ {0} /\ \A x \in 1..n-1 : pending[x] \in Values
      BY <1>1, <1>2
    <2>2. 1 \in Int /\ n - 1 \in Int
      BY <2>1
    <2>3. Finished = SubSeq(pending, 1, n - 1)
      BY DEF Finished
    <2> HIDE DEF n
    <2>4. /\ Finished \in Seq(Values)
          /\ Len(Finished) = IF 1 <= n-1 THEN (n-1)-1+1 ELSE 0
          /\ \A x \in 1..(n-1)-1+1 : Finished[x] = pending[1+x-1]
      BY <2>1, <2>2, <2>3, SubSeqProperties
    <2>5. Len(Finished) = n - 1
      BY <2>1, <2>4
    <2>6. \A x \in 1..n-1 : x \in 1..(n-1)-1+1 /\ 1+x-1 = x
      BY <2>1
    <2> QED BY <2>4, <2>5, <2>6 DEF n
  <1> QED BY <1>1, <1>2, <1>3, <1>4, <1>5

(* A key or an element: K is labelled, w handed to the new call.           *)
LEMMA PushReads ==
  ASSUME TInv, ReadInv, stack # <<>>, Top.kind # "called", DOMAIN nodes # {}, Pushed,
         NEW K \in Seq(AttributeTexts), NEW w \in Values,
         Unread(Left) \in Values, Left.kind # "called",
         TextsOf(Left) = (K \o TextsOf(w)) \o TextsOf(Unread(Left)),
         Labels' = Labels \o K, pending' = Append(WithoutFirst, w), program' = program
  PROVE  ReadInv'
  <1> DEFINE n == Len(pending)
             u == Unread(Left)
             p == [pending EXCEPT ![n] = u]
             whole == <<"_root">> \o TextsOf(DictOf(program))
  <1>1. /\ n \in Nat \ {0} /\ n = Len(stack) /\ pending # <<>> /\ pending \in Seq(Values)
        /\ Left = pending[n] /\ u \in Values /\ u.kind = Left.kind
        /\ Left.kind = Top.kind /\ Top = stack[n] /\ Left \in Values
    BY LeftFacts DEF ReadInv, Unread, Top
  <1>2. PICK rest : Composed(rest, pending) /\ Labels \o rest[n] = whole
    BY DEF ReadInv, ReadInOrder
  <1>3. PICK r : /\ Composed(r, Append(p, w))
                 /\ r[n + 1] = TextsOf(w) \o (TextsOf(u) \o rest[n - 1])
    BY <1>1, <1>2, ComposedPush
  <1>4. pending' = Append(p, w)
    BY DEF WithoutFirst
  <1> HIDE DEF u
  <1>5. p \in Seq(Values) /\ Len(p) = n /\ \A x \in 1..n : p[x] = IF x = n THEN u ELSE pending[x]
    BY <1>1
  <1> HIDE DEF p
  <1>6. /\ pending' \in Seq(Values) /\ Len(pending') = n + 1
        /\ \A x \in 1..n : pending'[x] = p[x]
    BY <1>1, <1>4, <1>5
  <1>7. PendingOK'
    <2>1. /\ Len(stack') = n + 1 /\ stack'[n+1].kind = "called"
          /\ \A x \in 1..n : stack'[x].kind = stack[x].kind
      BY <1>1 DEF Pushed
    <2>2. \A x \in 1..n : stack[x].kind # "called" => pending[x].kind = stack[x].kind
      BY <1>1 DEF ReadInv, PendingOK
    <2>3. ASSUME NEW x \in 1..n+1, stack'[x].kind # "called"
          PROVE  pending'[x].kind = stack'[x].kind
      <3>1. x \in 1..n
        BY <1>1, <2>1, <2>3
      <3> QED BY <1>1, <1>5, <1>6, <2>1, <2>2, <2>3, <3>1
    <2> QED BY <1>6, <2>1, <2>3 DEF ReadInv, PendingOK
  <1>8. Labels' \o r[n+1] = whole
    <2>1. /\ Labels \in Seq(AttributeTexts) /\ TextsOf(w) \in Seq(AttributeTexts)
          /\ TextsOf(u) \in Seq(AttributeTexts)
      BY <1>1, TextsAssumption, Zenon DEF ReadInv, ReadInOrder
    <2>2. rest[n-1] \in Seq(AttributeTexts) /\ rest[n] = TextsOf(Left) \o rest[n-1]
      BY <1>1, <1>2, ComposedFacts, Zenon
    <2>3. (Labels \o K) \o (TextsOf(w) \o (TextsOf(u) \o rest[n-1]))
            = Labels \o (((K \o TextsOf(w)) \o TextsOf(u)) \o rest[n-1])
      <3>1. \A L, W, U, R \in Seq(AttributeTexts) :
              Cat(Cat(L, K), Cat(W, Cat(U, R))) = Cat(L, Cat(Cat(Cat(K, W), U), R))
        BY ReadMoves
      <3>2. Cat(Cat(Labels, K), Cat(TextsOf(w), Cat(TextsOf(u), rest[n-1])))
              = Cat(Labels, Cat(Cat(Cat(K, TextsOf(w)), TextsOf(u)), rest[n-1]))
        BY <2>1, <2>2, <3>1
      <3> QED BY <3>2, Zenon DEF Cat
    <2>4. rest[n] = ((K \o TextsOf(w)) \o TextsOf(u)) \o rest[n-1]
      BY <2>2, Zenon DEF u
    <2> QED BY <1>2, <1>3, <2>3, <2>4, Zenon
  <1>9. Labels' \in Seq(AttributeTexts)
    BY ConcatProperties DEF ReadInv, ReadInOrder
  <1>10. Composed(r, pending')
    BY <1>3, <1>4, Zenon
  <1> QED BY <1>6, <1>7, <1>8, <1>9, <1>10, Zenon DEF ReadInv, ReadInOrder

(* A call has read its value to the end, K being the last it labelled.     *)
LEMMA PopReads ==
  ASSUME TInv, ReadInv, stack # <<>>, DOMAIN nodes # {}, stack' = Popped,
         NEW K \in Seq(AttributeTexts), TextsOf(Left) = K,
         Labels' = Labels \o K, pending' = Finished, program' = program
  PROVE  ReadInv'
  <1> DEFINE n == Len(pending)
             whole == <<"_root">> \o TextsOf(DictOf(program))
  <1>1. /\ n \in Nat \ {0} /\ n = Len(stack) /\ pending # <<>> /\ pending \in Seq(Values)
        /\ Left = pending[n] /\ Finished \in Seq(Values) /\ Len(Finished) = n - 1
        /\ \A x \in 1..n-1 : Finished[x] = pending[x]
    BY LeftFacts DEF ReadInv
  <1>2. PICK rest : Composed(rest, pending) /\ Labels \o rest[n] = whole
    BY DEF ReadInv, ReadInOrder
  <1>3. PICK r : Composed(r, pending') /\ r[Len(pending')] = rest[n - 1]
    BY <1>1, <1>2, ComposedPop
  <1>4. PendingOK'
    <2>1. Len(stack') = n - 1 /\ \A x \in 1..n-1 : stack'[x] = stack[x]
      BY <1>1, PoppedFacts DEF TInv
    <2> QED BY <1>1, <2>1 DEF ReadInv, PendingOK
  <1>5. Labels' \o rest[n-1] = whole
    <2>1. Labels \in Seq(AttributeTexts)
      BY DEF ReadInv, ReadInOrder
    <2>2. rest[n-1] \in Seq(AttributeTexts) /\ rest[n] = K \o rest[n-1]
      BY <1>1, <1>2, ComposedFacts, Zenon
    <2>3. (Labels \o K) \o rest[n-1] = Labels \o (K \o rest[n-1])
      <3>1. \A L, R \in Seq(AttributeTexts) : Cat(Cat(L, K), R) = Cat(L, Cat(K, R))
        BY Concatenations
      <3>2. Cat(Cat(Labels, K), rest[n-1]) = Cat(Labels, Cat(K, rest[n-1]))
        BY <2>1, <2>2, <3>1
      <3> QED BY <3>2, Zenon DEF Cat
    <2> QED BY <1>2, <2>2, <2>3, Zenon
  <1>6. Labels' \in Seq(AttributeTexts)
    BY ConcatProperties DEF ReadInv, ReadInOrder
  <1> QED BY <1>3, <1>4, <1>5, <1>6, Zenon DEF ReadInv, ReadInOrder

LEMMA EnterReads ==
  ASSUME TInv, ReadInv, stack # <<>>, NEW kind \in {"dict", "list"}, Left.kind = kind,
         stack' = [stack EXCEPT ![Len(stack)].kind = kind],
         UNCHANGED <<pending, program, node_counter, nodes, attributes>>
  PROVE  ReadInv'
  <1>1. /\ Len(stack') = Len(stack) /\ stack'[Len(stack)].kind = kind
        /\ \A x \in 1..Len(stack)-1 : stack'[x].kind = stack[x].kind
    BY EnterKinds
  <1>2. Len(pending) \in Nat \ {0} /\ Len(pending) = Len(stack) /\ Left = pending[Len(pending)]
    BY LeftFacts DEF ReadInv
  <1>3. ASSUME NEW x \in 1..Len(stack'), stack'[x].kind # "called"
        PROVE  pending[x].kind = stack'[x].kind
    <2>1. x \in 1..Len(stack)
      BY <1>1
    <2>2. CASE x = Len(stack)
      BY <1>1, <1>2, <2>2
    <2>3. CASE x \in 1..Len(stack)-1
      BY <1>1, <1>3, <2>1, <2>3 DEF ReadInv, PendingOK
    <2> QED BY <1>2, <2>1, <2>2, <2>3
  <1>4. PendingOK'
    BY <1>1, <1>3 DEF ReadInv, PendingOK
  <1>5. Labels' = Labels
    BY LabelsKept
  <1> QED BY <1>4, <1>5, Zenon DEF ReadInv, ReadInOrder
-----------------------------------------------------------------------------
LEMMA ReadFileStep ==
  ASSUME TInv, AttributesOK, AttributesOK', program \in Programs, ReadFile, program' = program
  PROVE  ReadInv'
  <1> DEFINE d == DictOf(program)
             c == Call("dict", 0, 0, {})
  <1>1. /\ node_counter = 0 /\ node_counter' = 0 /\ DOMAIN nodes = {}
        /\ GetAttributeId("_root") /\ nodes' = Extended(nodes, 0, AttributeId("_root"))
        /\ stack' = <<c>> /\ pending' = <<d>>
    BY DEF ReadFile, Start, TInv, TreeOK, CountersOK
  <1>2. d \in Values /\ d.kind = "dict" /\ c.kind = "dict"
    BY ValuesAssumption DEF Call
  <1>3. TextsOf(d) \in Seq(AttributeTexts)
    BY <1>2, TextsAssumption
  <1>4. Label(0)' = "_root"
    BY <1>1, LabelStep
  <1>5. Labels' = <<"_root">>
    <2>1. Labels' = [x \in 1..1 |-> Label(x-1)']
      BY <1>1 DEF Labels
    <2>2. \A x \in 1..1 : x - 1 = 0
      OBVIOUS
    <2>3. \A x \in 1..1 : Label(x-1)' = "_root"
      BY <1>4, <2>2
    <2> QED BY <2>1, <2>3
  <1>6. PendingOK'
    BY <1>1, <1>2 DEF PendingOK
  <1> DEFINE r == [x \in 0..1 |-> IF x = 0 THEN <<>> ELSE TextsOf(d)]
  <1>7. Composed(r, pending') /\ r[Len(pending')] = TextsOf(d)
    <2>1. TextsOf(d) \o <<>> = TextsOf(d)
      BY <1>3, ConcatEmptySeq
    <2>2. Len(pending') = 1 /\ pending'[1] = d
      BY <1>1
    <2> HIDE DEF d
    <2>3. /\ r \in [0..1 -> Seq(AttributeTexts)] /\ r[0] = <<>> /\ r[1] = TextsOf(d)
      BY <1>3
    <2> HIDE DEF r
    <2>4. \A x \in 1..1 : x = 1 /\ x - 1 = 0
      OBVIOUS
    <2> QED BY <2>1, <2>2, <2>3, <2>4 DEF Composed
  <1>8. Labels' \in Seq(AttributeTexts)
    BY <1>5 DEF AttributeTexts
  <1>9. \E rest : /\ Composed(rest, pending')
                  /\ Labels' \o rest[Len(pending')] = <<"_root">> \o TextsOf(DictOf(program'))
    BY <1>5, <1>7, Zenon
  <1> QED BY <1>6, <1>8, <1>9, Zenon DEF ReadInv, ReadInOrder
-----------------------------------------------------------------------------
ProgramInv == TInv /\ AttributesOK /\ ReadInv

LEMMA InitProgramInv == ProgramInit => ProgramInv
  <1> SUFFICES ASSUME ProgramInit PROVE ProgramInv
    OBVIOUS
  <1>1. Init
    BY DEF ProgramInit, PackageInit
  <1>2. TInv /\ AttributesOK
    BY <1>1, InitTInv DEF Init, AttributesOK
  <1>3. ReadInv
    BY <1>1 DEF ProgramInit, Init, ReadInv, PendingOK, ReadInOrder
  <1> QED BY <1>2, <1>3 DEF ProgramInv

(* What a program asks for is a step that Package allows.                  *)
LEMMA ReadsAsPackage ==
  ASSUME ProgramInv, [ProgramNext]_<<input, vars, builder>>
  PROVE  [PackageNext]_<<vars, builder>>
  <1>1. TInv /\ PendingOK
    BY DEF ProgramInv, ReadInv
  <1>2. CASE ReadProgram
    <2>1. stack # <<>> => Left \in Values /\ (Top.kind # "called" => Left.kind = Top.kind)
      BY <1>1, LeftFacts
    <2>2. CASE ReadFile
      BY <1>2, <2>2 DEF ReadProgram, ReadFile, PackageNext, Parse, Next
    <2>3. CASE ReadKey
      <3>1. Head(Left.items).key \in Keys
        BY <2>1, <2>3, ValuesAssumption DEF ReadKey, Running, IsLeaf
      <3> QED BY <1>2, <2>3, <3>1 DEF ReadProgram, ReadKey, PackageNext, Parse, Next
    <2>4. CASE ReadItem
      BY <1>2, <2>4 DEF ReadProgram, ReadItem, PackageNext, Parse, Next
    <2>5. CASE Dispatch
      <3>1. IsLeaf(Left) => Left.text \in Strings \cup Others
        BY <2>1, <2>5, ValuesAssumption DEF Dispatch, Running
      <3> QED BY <1>2, <2>5, <3>1 DEF ReadProgram, Dispatch, PackageNext, Parse, Next
    <2>6. CASE ReadAll
      BY <1>2, <2>6 DEF ReadProgram, ReadAll, PackageNext, Parse, Next
    <2> QED BY <1>2, <2>2, <2>3, <2>4, <2>5, <2>6 DEF ReadProgram
  <1>3. CASE Build \/ Fill
    BY <1>3 DEF PackageNext
  <1>4. CASE UNCHANGED <<input, vars, builder>>
    BY <1>4
  <1> QED BY <1>2, <1>3, <1>4 DEF ProgramNext

LEMMA ReadSteps ==
  ASSUME TInv, AttributesOK, AttributesOK', ReadInv, ReadProgram
  PROVE  ReadInv'
  <1>1. program' = program /\ program \in Programs
    BY DEF ReadProgram, ReadInv, PendingOK
  <1>2. stack # <<>> => DOMAIN nodes # {} /\ Labels \in Seq(AttributeTexts)
    BY DEF TInv, CountersOK, ReadInv, ReadInOrder
  <1>3. stack # <<>> => Left \in Values /\ (Top.kind # "called" => Left.kind = Top.kind)
    BY LeftFacts DEF ReadInv
  <1>4. <<>> \in Seq(AttributeTexts)
    OBVIOUS
  <1>5. CASE ReadFile
    BY <1>1, <1>5, ReadFileStep
  <1>6. CASE ReadKey
    <2> DEFINE t == Head(Left.items).key
               w == Head(Left.items).value
    <2>1. /\ stack # <<>> /\ Top.kind = "dict" /\ Left.kind = "dict" /\ Left.items # <<>>
          /\ Key(t) /\ pending' = Append(WithoutFirst, w) /\ Attach(Top.node, t)
      BY <1>3, <1>6 DEF ReadKey, Key, Running
    <2>2. /\ t \in Keys /\ w \in Values /\ Unread(Left) \in Values
          /\ TextsOf(Left) = (<<t>> \o TextsOf(w)) \o TextsOf(Unread(Left))
      BY <1>3, <2>1, ValuesAssumption, TextsAssumption DEF IsLeaf
    <2> HIDE DEF t, w
    <2>3. t \in AttributeTexts /\ <<t>> \in Seq(AttributeTexts)
      BY <2>2 DEF AttributeTexts
    <2>4. Labels' = Labels \o <<t>>
      BY <1>2, <2>1, <2>3, LabelsGrow
    <2>5. Pushed
      BY <2>1, <2>2, KeyPushes
    <2> QED BY <1>1, <1>2, <2>1, <2>2, <2>3, <2>4, <2>5, PushReads
  <1>7. CASE ReadItem
    <2> DEFINE w == Head(Left.items)
    <2>1. /\ stack # <<>> /\ Top.kind = "list" /\ Left.kind = "list" /\ Left.items # <<>>
          /\ Item /\ pending' = Append(WithoutFirst, w)
          /\ UNCHANGED <<node_counter, nodes, attributes>>
      BY <1>3, <1>7 DEF ReadItem, Item, Running
    <2>2. /\ w \in Values /\ Unread(Left) \in Values
          /\ TextsOf(Left) = TextsOf(w) \o TextsOf(Unread(Left))
      BY <1>3, <2>1, ValuesAssumption, TextsAssumption DEF IsLeaf
    <2> HIDE DEF w
    <2>3. <<>> \o TextsOf(w) = TextsOf(w)
      BY <2>2, TextsAssumption, ConcatEmptySeq
    <2>4. TextsOf(Left) = (<<>> \o TextsOf(w)) \o TextsOf(Unread(Left))
      BY <2>2, <2>3, Zenon
    <2>5. Labels' = Labels \o <<>>
      BY <1>2, <2>1, LabelsKept, ConcatEmptySeq
    <2>6. Pushed
      BY <2>1, ItemPushes
    <2> QED BY <1>1, <1>2, <1>4, <2>1, <2>2, <2>4, <2>5, <2>6, PushReads
  <1>8. CASE Dispatch
    <2>1. CASE Left.kind = "dict" /\ EnterDict /\ UNCHANGED pending
      BY <1>1, <2>1, EnterReads DEF EnterDict, Running
    <2>2. CASE Left.kind = "list" /\ EnterList /\ UNCHANGED pending
      BY <1>1, <2>2, EnterReads DEF EnterList, Running
    <2>3. CASE IsLeaf(Left) /\ Leaf(Left.text) /\ pending' = Finished
      <3> DEFINE t == Left.text
      <3>1. stack # <<>> /\ Attach(Top.node, t) /\ stack' = Popped
        BY <2>3 DEF Leaf, Running
      <3>2. t \in AttributeTexts /\ TextsOf(Left) = <<t>> /\ <<t>> \in Seq(AttributeTexts)
        BY <1>3, <2>3, <3>1, ValuesAssumption, TextsAssumption DEF AttributeTexts
      <3> HIDE DEF t
      <3>3. Labels' = Labels \o <<t>>
        BY <1>2, <3>1, <3>2, LabelsGrow
      <3> QED BY <1>1, <1>2, <2>3, <3>1, <3>2, <3>3, PopReads
    <2> QED BY <1>8, <2>1, <2>2, <2>3 DEF Dispatch
  <1>9. CASE ReadAll
    <2>1. /\ stack # <<>> /\ Left.kind \in {"dict", "list"} /\ Left.items = <<>>
          /\ stack' = Popped /\ pending' = Finished
          /\ UNCHANGED <<node_counter, nodes, attributes>>
      BY <1>3, <1>9 DEF ReadAll, Return, Running
    <2>2. TextsOf(Left) = <<>>
      BY <1>3, <2>1, TextsAssumption DEF IsLeaf
    <2>3. Labels' = Labels \o <<>>
      BY <1>2, <2>1, LabelsKept, ConcatEmptySeq
    <2> QED BY <1>1, <1>2, <1>4, <2>1, <2>2, <2>3, PopReads
  <1> QED BY <1>5, <1>6, <1>7, <1>8, <1>9 DEF ReadProgram

LEMMA NextProgramInv ==
  ASSUME ProgramInv, [ProgramNext]_<<input, vars, builder>>
  PROVE  ProgramInv'
  <1>1. [Next]_vars
    BY ReadsAsPackage DEF PackageNext, Parse, Build, Fill
  <1>2. TInv' /\ AttributesOK'
    BY <1>1, NextTInv, AttributesStep DEF ProgramInv
  <1>3. CASE ReadProgram
    BY <1>2, <1>3, ReadSteps DEF ProgramInv
  <1>4. CASE UNCHANGED <<input, vars>>
    <2>1. UNCHANGED <<program, pending, stack, nodes, node_counter, attributes>>
      BY <1>4 DEF input, vars
    <2>2. Labels' = Labels
      BY <2>1, LabelsKept
    <2>3. ReadInv'
      BY <2>1, <2>2 DEF ProgramInv, ReadInv, PendingOK, ReadInOrder
    <2> QED BY <1>2, <2>3 DEF ProgramInv
  <1> QED BY <1>2, <1>3, <1>4 DEF ProgramNext, Build, Fill, ProgramInv

LEMMA ProgramInvariance == ProgramSpec => []ProgramInv
  BY InitProgramInv, NextProgramInv, PTL DEF ProgramSpec

(* Reading a program is a behaviour of Package: what is proved of every    *)
(* AST holds of the ASTs of programs.                                      *)
THEOREM PackageImplemented == ProgramSpec => PackageSpec
  <1>1. ProgramInit => PackageInit
    BY DEF ProgramInit
  <1> QED BY <1>1, ReadsAsPackage, ProgramInvariance, PTL DEF ProgramSpec, PackageSpec

(* For every program: process_node makes one node of each text of the      *)
(* dict, in order, and nothing else.                                       *)
THEOREM TextsInOrderCorrect == ProgramSpec => []TextsInOrder
  <1>1. ProgramInv => TextsInOrder
    <2> SUFFICES ASSUME ProgramInv, Parsed
                 PROVE  Labels = <<"_root">> \o TextsOf(DictOf(program))
      BY DEF TextsInOrder
    <2>1. pending = <<>>
      BY DEF ProgramInv, ReadInv, PendingOK, Parsed
    <2>2. PICK rest : /\ Composed(rest, pending)
                      /\ Labels \o rest[0] = <<"_root">> \o TextsOf(DictOf(program))
      BY <2>1 DEF ProgramInv, ReadInv, ReadInOrder, Parsed
    <2>3. Labels \in Seq(AttributeTexts) /\ rest[0] = <<>>
      BY <2>2 DEF ProgramInv, ReadInv, ReadInOrder, Parsed, Composed
    <2> QED BY <2>2, <2>3, ConcatEmptySeq
  <1> QED BY <1>1, ProgramInvariance, PTL
=============================================================================

--------------------------- MODULE AstTreeProofs ---------------------------
(***************************************************************************)
(* AstTree for every set of texts and every bound: whatever AST is read,   *)
(* the result is a tree whose ids are dense and number it in preorder, and *)
(* the attribute ids are dense and unambiguous.                            *)
(***************************************************************************)
EXTENDS AstTree, SequenceTheorems, TLAPS

(* The nodes that calls are made with grow along the stack, and since a    *)
(* call with node c was made, no edge has left from a node before c.       *)
StackOK ==
  \A i \in 1..Len(stack) :
    /\ stack[i].node \in 0..node_counter
    /\ \A j \in 1..i : stack[j].node <= stack[i].node
    /\ \A e \in edges : stack[i].node < e[2] => stack[i].node <= e[1]

StackTyped == stack \in Seq(Calls)

CountersOK ==
  /\ node_counter \in 0..MaxNodes /\ attribute_counter \in Nat
  /\ edges \subseteq (0..MaxNodes) \X (1..MaxNodes)
  /\ stack # <<>> => DOMAIN nodes # {}

TInv == StackTyped /\ CountersOK /\ TreeOK /\ PreorderOK /\ StackOK
-----------------------------------------------------------------------------
LEMMA PoppedFacts ==
  ASSUME StackTyped, stack # <<>>
  PROVE  /\ Len(stack) \in Nat \ {0} /\ Top \in Calls /\ Top = stack[Len(stack)]
         /\ Popped \in Seq(Calls) /\ Len(Popped) = Len(stack) - 1
         /\ \A i \in 1..Len(stack)-1 : Popped[i] = stack[i]
  <1> HIDE DEF Calls
  <1>1. stack \in Seq(Calls)
    BY DEF StackTyped
  <1>2. Len(stack) \in Nat \ {0} /\ stack[Len(stack)] \in Calls
    BY <1>1
  <1>3. Popped \in Seq(Calls) /\ Len(Popped) = Len(stack) - 1
    <2>1. /\ 1 \in Int /\ Len(stack)-1 \in Int
          /\ \A i \in 1..Len(stack)-1 : stack[i] \in Calls
      BY <1>1, <1>2
    <2>2. /\ Popped \in Seq(Calls)
          /\ Len(Popped) = IF 1 <= Len(stack)-1 THEN (Len(stack)-1)-1+1 ELSE 0
      BY <2>1, SubSeqProperties DEF Popped
    <2>3. CASE Len(stack) = 1
      BY <2>2, <2>3
    <2>4. CASE Len(stack) > 1
      BY <1>2, <2>2, <2>4
    <2>5. Len(stack) = 1 \/ Len(stack) > 1
      <3>1. \A m \in Nat \ {0} : m = 1 \/ m > 1
        OBVIOUS
      <3> QED BY <1>2, <3>1, Zenon
    <2> QED BY <2>3, <2>4, <2>5, Zenon
  <1>4. \A i \in 1..Len(stack)-1 : Popped[i] = stack[i]
    BY <1>1, <1>2, SubSeqProperties DEF Popped
  <1> QED BY <1>2, <1>3, <1>4 DEF Top

(* Every step leaves the calls below the running one alone; it makes at    *)
(* most one call more, with node c and its rule or that of the running one.*)
StackStep(c) ==
  /\ stack' \in Seq(Calls)
  /\ \A i \in 1..Len(stack') :
       \/ /\ i \in 1..Len(stack)
          /\ stack'[i].node = stack[i].node /\ stack'[i].rule = stack[i].rule
       \/ i = Len(stack') /\ stack'[i].node = c /\ stack'[i].rule \in {c, Top.rule}

LEMMA ReplaceFacts ==
  ASSUME StackTyped, stack # <<>>, NEW F \in Calls,
         F.node = Top.node, F.rule = Top.rule, NEW s, s = [stack EXCEPT ![Len(stack)] = F]
  PROVE  /\ s \in Seq(Calls) /\ Len(s) = Len(stack)
         /\ \A i \in 1..Len(stack) :
              s[i].node = stack[i].node /\ s[i].rule = stack[i].rule
  <1> HIDE DEF Calls
  <1>1. stack \in Seq(Calls) /\ Len(stack) \in 1..Len(stack)
    BY PoppedFacts DEF StackTyped
  <1>2. s \in Seq(Calls) /\ Len(s) = Len(stack)
    BY <1>1
  <1>3. \A i \in 1..Len(stack) : s[i] = IF i = Len(stack) THEN F ELSE stack[i]
    BY <1>1
  <1> QED BY <1>2, <1>3, PoppedFacts

LEMMA KeyStack ==
  ASSUME StackTyped, CountersOK, NEW t \in Keys, Key(t)
  PROVE  StackStep(node_counter')
  <1>1. stack # <<>> /\ node_counter' \in 0..MaxNodes
    BY InputAssumption DEF Key, Running, Attach, FreshId, CountersOK
  <1> DEFINE F == [Top EXCEPT !.keys = @ \cup {t}]
             G == Call("called", node_counter', node_counter', {})
             s == [stack EXCEPT ![Len(stack)] = F]
  <1>2. /\ F \in Calls /\ F.node = Top.node /\ F.rule = Top.rule
        /\ G \in Calls /\ G.node = node_counter' /\ G.rule = node_counter'
    BY <1>1, PoppedFacts DEF Calls, Call
  <1>3. stack' = Append(s, G)
    BY DEF Key, Top
  <1>4. /\ s \in Seq(Calls) /\ Len(s) = Len(stack)
        /\ \A i \in 1..Len(stack) :
             s[i].node = stack[i].node /\ s[i].rule = stack[i].rule
    BY <1>1, <1>2, ReplaceFacts
  <1> HIDE DEF F, G, s, Calls
  <1> QED BY <1>2, <1>3, <1>4 DEF StackStep

LEMMA ReplaceStack ==
  ASSUME StackTyped, NEW kind \in {"dict", "list"}, stack # <<>>,
         stack' = [stack EXCEPT ![Len(stack)].kind = kind]
  PROVE  StackStep(node_counter)
  <1> DEFINE F == [Top EXCEPT !.kind = kind]
             s == [stack EXCEPT ![Len(stack)] = F]
  <1>1. F \in Calls /\ F.node = Top.node /\ F.rule = Top.rule
    BY PoppedFacts DEF Calls
  <1>2. stack' = s
    BY DEF Top
  <1>3. /\ s \in Seq(Calls) /\ Len(s) = Len(stack)
        /\ \A i \in 1..Len(stack) :
             s[i].node = stack[i].node /\ s[i].rule = stack[i].rule
    BY <1>1, ReplaceFacts
  <1> HIDE DEF F, s, Calls
  <1> QED BY <1>2, <1>3 DEF StackStep

LEMMA ItemStack ==
  ASSUME StackTyped, CountersOK, Item
  PROVE  StackStep(node_counter)
  <1> DEFINE G == Call("called", node_counter, Top.rule, {})
  <1>1. G \in Calls /\ G.node = node_counter /\ G.rule = Top.rule
    BY PoppedFacts, InputAssumption DEF Calls, Call, CountersOK, Item, Running
  <1>2. stack' = Append(stack, G)
    BY DEF Item, ItemParent
  <1> HIDE DEF G
  <1> QED BY <1>1, <1>2 DEF StackStep, StackTyped

LEMMA PopStack ==
  ASSUME StackTyped, stack # <<>>, stack' = Popped
  PROVE  StackStep(node_counter)
  BY PoppedFacts DEF StackStep
-----------------------------------------------------------------------------
LEMMA InitTInv == Init => TInv
  BY InputAssumption
     DEF Init, TInv, StackTyped, CountersOK, TreeOK, PreorderOK, StackOK

(* A step that attaches no node keeps the stack ordered.                   *)
LEMMA QuietStep ==
  ASSUME TInv, StackStep(node_counter), UNCHANGED <<node_counter, edges, nodes, attributes>>,
         DOMAIN nodes # {}
  PROVE  TInv'
  <1>1. StackTyped' /\ CountersOK'
    BY DEF StackStep, StackTyped, CountersOK, TInv, attributes, Calls
  <1>2. TreeOK' /\ PreorderOK'
    BY DEF TInv, TreeOK, PreorderOK
  <1>3. StackOK'
    <2>1. /\ node_counter \in Nat /\ \A e \in edges : e[2] <= node_counter /\ e[2] \in Nat
          /\ Len(stack) \in Nat /\ Len(stack') \in Nat
      BY InputAssumption DEF TInv, CountersOK, TreeOK, StackTyped, StackStep
    <2> SUFFICES ASSUME NEW i \in 1..Len(stack')
                 PROVE /\ stack'[i].node \in 0..node_counter
                       /\ \A j \in 1..i : stack'[j].node <= stack'[i].node
                       /\ \A e \in edges : stack'[i].node < e[2] => stack'[i].node <= e[1]
      BY DEF StackOK
    <2>2. CASE i \in 1..Len(stack) /\ stack'[i].node = stack[i].node
      <3>1. /\ stack[i].node \in 0..node_counter
            /\ \A e \in edges : stack[i].node < e[2] => stack[i].node <= e[1]
        BY <2>2 DEF TInv, StackOK
      <3>2. ASSUME NEW j \in 1..i PROVE stack'[j].node <= stack'[i].node
        <4>1. j \in 1..Len(stack') /\ (j = i \/ j # Len(stack'))
          BY <2>1
        <4>2. CASE j = i
          BY <2>2, <3>1, <4>2
        <4>3. CASE j # i
          <5>1. stack'[j].node = stack[j].node
            BY <4>1, <4>3 DEF StackStep
          <5>2. stack[j].node <= stack[i].node
            BY <2>2 DEF TInv, StackOK
          <5> QED BY <2>2, <5>1, <5>2
        <4> QED BY <4>2, <4>3
      <3> QED BY <2>2, <3>1, <3>2
    <2>3. CASE i = Len(stack') /\ stack'[i].node = node_counter
      <3>1. ASSUME NEW j \in 1..i PROVE stack'[j].node <= node_counter
        <4>1. CASE stack'[j].node = node_counter
          BY <2>1, <4>1
        <4>2. CASE j \in 1..Len(stack) /\ stack'[j].node = stack[j].node
          BY <2>1, <4>2 DEF TInv, StackOK
        <4> QED BY <2>1, <2>3, <4>1, <4>2 DEF StackStep
      <3>2. \A e \in edges : ~(node_counter < e[2])
        BY <2>1
      <3> QED BY <2>1, <2>3, <3>1, <3>2
    <2> QED BY <2>2, <2>3 DEF StackStep
  <1> QED BY <1>1, <1>2, <1>3 DEF TInv

(* A step that attaches a node to the one of the running call.             *)
LEMMA AttachStep ==
  ASSUME TInv, stack # <<>>, NEW t \in AttributeTexts, Attach(Top.node, t),
         StackStep(node_counter')
  PROVE  TInv'
  <1> DEFINE m == node_counter + 1
             c == Top.node
  <1>1. /\ node_counter \in Nat /\ m \in 1..MaxNodes /\ node_counter' = m
        /\ edges' = edges \cup {<<c, m>>} /\ DOMAIN nodes' = DOMAIN nodes \cup {m}
        /\ DOMAIN nodes = 0..node_counter
    BY InputAssumption DEF Attach, FreshId, Extended, TInv, CountersOK, TreeOK
  <1>2. /\ Len(stack) \in Nat \ {0} /\ c = stack[Len(stack)].node /\ c \in 0..node_counter
        /\ \A i \in 1..Len(stack) : stack[i].node \in 0..node_counter /\ stack[i].node <= c
        /\ \A e \in edges : c < e[2] => c <= e[1]
    <2>1. Len(stack) \in Nat \ {0} /\ c = stack[Len(stack)].node
      BY PoppedFacts DEF TInv
    <2>2. Len(stack) \in 1..Len(stack) /\ \A i \in 1..Len(stack) : i \in 1..Len(stack)
      BY <2>1
    <2> QED BY <2>1, <2>2 DEF TInv, StackOK
  <1>3. \A e \in edges : e[1] \in Nat /\ e[2] \in Nat /\ e[1] < e[2] /\ e[2] < m
    BY <1>1, InputAssumption DEF TInv, CountersOK, TreeOK
  <1> HIDE DEF c
  <1>4. StackTyped' /\ CountersOK'
    <2>1. attribute_counter' \in Nat
      BY DEF Attach, GetAttributeId, TInv, CountersOK
    <2>2. edges' \subseteq (0..MaxNodes) \X (1..MaxNodes)
      BY <1>1, <1>2, InputAssumption DEF TInv, CountersOK
    <2>3. DOMAIN nodes' # {}
      BY <1>1
    <2>4. StackTyped'
      BY DEF StackStep, StackTyped, Calls
    <2> QED BY <1>1, <2>1, <2>2, <2>3, <2>4 DEF CountersOK
  <1>5. TreeOK'
    <2>1. DOMAIN nodes' = 0..m
      BY <1>1
    <2>2. \A e \in edges' : e[1] < e[2] /\ e[2] <= m
      BY <1>1, <1>2, <1>3
    <2>3. \A i \in 1..m : \E p \in 0..i-1 : <<p, i>> \in edges'
      <3>1. c \in 0..m-1 /\ <<c, m>> \in edges'
        BY <1>1, <1>2
      <3>2. \A i \in 1..node_counter : \E p \in 0..i-1 : <<p, i>> \in edges'
        BY <1>1 DEF TInv, TreeOK
      <3> QED BY <1>1, <3>1, <3>2
    <2>4. \A d, e \in edges' : d[2] = e[2] => d = e
      <3>1. \A d, e \in edges : d[2] = e[2] => d = e
        BY DEF TInv, TreeOK
      <3> QED BY <1>1, <1>3, <3>1
    <2> QED BY <1>1, <2>1, <2>2, <2>3, <2>4 DEF TreeOK
  <1>6. PreorderOK'
    <2>1. \A d, e \in edges : d[1] < e[2] /\ e[2] < d[2] => d[1] <= e[1]
      BY DEF TInv, PreorderOK
    <2>2. \A d \in edges' : ~(m < d[2])
      BY <1>1, <1>3
    <2> QED BY <1>1, <1>2, <1>3, <2>1, <2>2 DEF PreorderOK
  <1>7. StackOK'
    <2>1. Len(stack') \in Nat
      BY DEF StackStep
    <2> SUFFICES ASSUME NEW i \in 1..Len(stack')
                 PROVE /\ stack'[i].node \in 0..m
                       /\ \A j \in 1..i : stack'[j].node <= stack'[i].node
                       /\ \A e \in edges' : stack'[i].node < e[2] => stack'[i].node <= e[1]
      BY <1>1 DEF StackOK
    <2>2. CASE i \in 1..Len(stack) /\ stack'[i].node = stack[i].node
      <3>1. /\ stack[i].node \in 0..node_counter /\ stack[i].node <= c
            /\ \A e \in edges : stack[i].node < e[2] => stack[i].node <= e[1]
        BY <1>2, <2>2 DEF TInv, StackOK
      <3>2. ASSUME NEW j \in 1..i PROVE stack'[j].node <= stack'[i].node
        <4>1. j \in 1..Len(stack') /\ (j = i \/ j # Len(stack'))
          BY <2>1
        <4>2. CASE j = i
          BY <1>1, <2>2, <3>1, <4>2
        <4>3. CASE j # i
          <5>1. stack'[j].node = stack[j].node
            BY <4>1, <4>3 DEF StackStep
          <5>2. stack[j].node <= stack[i].node
            BY <2>2 DEF TInv, StackOK
          <5> QED BY <2>2, <5>1, <5>2
        <4> QED BY <4>2, <4>3
      <3>3. \A e \in edges' : stack[i].node < e[2] => stack[i].node <= e[1]
        BY <1>1, <3>1
      <3> QED BY <1>1, <2>2, <3>1, <3>2, <3>3
    <2>3. CASE i = Len(stack') /\ stack'[i].node = m
      <3>1. ASSUME NEW j \in 1..i PROVE stack'[j].node <= m
        <4>1. CASE stack'[j].node = m
          BY <1>1, <4>1
        <4>2. CASE j \in 1..Len(stack) /\ stack'[j].node = stack[j].node
          BY <1>1, <1>2, <4>2
        <4> QED BY <1>1, <2>1, <2>3, <4>1, <4>2 DEF StackStep
      <3>2. \A e \in edges' : ~(m < e[2])
        BY <1>1, <1>3
      <3> QED BY <1>1, <2>3, <3>1, <3>2
    <2> QED BY <1>1, <2>2, <2>3 DEF StackStep
  <1> QED BY <1>4, <1>5, <1>6, <1>7 DEF TInv

LEMMA StartStep == ASSUME TInv, Start PROVE TInv'
  <1>1. /\ node_counter = 0 /\ node_counter' = 0 /\ edges' = edges
        /\ DOMAIN nodes' = {0} /\ attribute_counter' \in Nat
        /\ stack' = <<Call("dict", 0, 0, {})>>
    BY DEF Start, Extended, GetAttributeId, TInv, CountersOK, TreeOK
  <1>2. edges = {}
    BY <1>1, InputAssumption DEF TInv, CountersOK, TreeOK
  <1>3. Call("dict", 0, 0, {}) \in Calls /\ Call("dict", 0, 0, {}).node = 0
    BY InputAssumption DEF Call, Calls
  <1>4. /\ stack' \in Seq(Calls) /\ Len(stack') = 1 /\ stack'[1].node = 0
    BY <1>1, <1>3
  <1>5. StackTyped'
    BY <1>4 DEF StackTyped, Calls
  <1>6. CountersOK' /\ TreeOK' /\ PreorderOK'
    BY <1>1, <1>2, InputAssumption DEF CountersOK, TreeOK, PreorderOK
  <1>7. StackOK'
    <2>1. \A i \in 1..Len(stack') : i = 1
      BY <1>4
    <2> QED BY <1>1, <1>2, <1>4, <2>1 DEF StackOK
  <1> QED BY <1>5, <1>6, <1>7 DEF TInv

LEMMA NextTInv == TInv /\ [Next]_vars => TInv'
  <1> SUFFICES ASSUME TInv, [Next]_vars PROVE TInv'
    OBVIOUS
  <1>0. StackTyped /\ CountersOK /\ (stack # <<>> => DOMAIN nodes # {})
    BY DEF TInv, CountersOK
  <1>1. CASE Start
    BY <1>1, StartStep
  <1>2. ASSUME NEW t \in Keys, Key(t) PROVE TInv'
    BY <1>0, <1>2, KeyStack, AttachStep DEF Key, Running, AttributeTexts
  <1>3. CASE EnterDict
    <2>1. StackStep(node_counter)
      BY <1>0, <1>3, ReplaceStack DEF EnterDict, Running
    <2> QED BY <1>0, <1>3, <2>1, QuietStep DEF EnterDict, Running
  <1>4. CASE EnterList
    <2>1. StackStep(node_counter)
      BY <1>0, <1>4, ReplaceStack DEF EnterList, Running
    <2> QED BY <1>0, <1>4, <2>1, QuietStep DEF EnterList, Running
  <1>5. CASE Item
    BY <1>0, <1>5, ItemStack, QuietStep DEF Item, Running
  <1>6. ASSUME NEW t \in Strings \cup Others, Leaf(t) PROVE TInv'
    <2>1. StackStep(node_counter')
      BY <1>0, <1>6, PoppedFacts DEF Leaf, Running, StackStep
    <2> QED BY <1>6, <2>1, AttachStep DEF Leaf, Running, AttributeTexts
  <1>7. CASE Return
    <2>1. stack # <<>> /\ stack' = Popped
      BY <1>7 DEF Return, Running
    <2> QED BY <1>0, <1>7, <2>1, PopStack, QuietStep DEF Return
  <1>8. CASE UNCHANGED vars
    BY <1>8 DEF vars, attributes, TInv, StackTyped, CountersOK, TreeOK, PreorderOK, StackOK,
       Calls
  <1> QED BY <1>1, <1>2, <1>3, <1>4, <1>5, <1>6, <1>7, <1>8 DEF Next

LEMMA Invariance == Spec => []TInv
  BY InitTInv, NextTInv, PTL DEF Spec

(* Counters, edges and calls keep their ranges.                            *)
THEOREM TypeCorrect == Spec => []TypeOK
  <1>1. TInv => TypeOK
    BY DEF TInv, TypeOK, StackTyped, CountersOK
  <1> QED BY <1>1, Invariance, PTL

(* For every AST, also in the middle of the recursion: dense node ids, one *)
(* parent for each node but the root, parents older than their children.   *)
THEOREM TreeCorrect == Spec => []TreeOK
  BY Invariance, PTL DEF TInv

(* For every AST the ids number the tree in preorder, although elements of *)
(* a list are attached to whatever node was created last.                  *)
THEOREM PreorderCorrect == Spec => []PreorderOK
  BY Invariance, PTL DEF TInv
-----------------------------------------------------------------------------
(* One lookup of a text keeps the ids dense and unambiguous.               *)
LEMMA LookupStep ==
  ASSUME AttributesOK, attribute_counter \in Nat, NEW t, GetAttributeId(t)
  PROVE  /\ AttributeId(t) \in 0..attribute_counter'-1
         /\ attribute_counter' \in Nat /\ attribute_counter <= attribute_counter'
         /\ \A s \in DOMAIN attributes_lookup' :
              attributes_lookup'[s] \in 0..attribute_counter'-1
         /\ \A i \in 0..attribute_counter'-1 :
              \E s \in DOMAIN attributes_lookup' : attributes_lookup'[s] = i
         /\ \A r, s \in DOMAIN attributes_lookup' :
              attributes_lookup'[r] = attributes_lookup'[s] => r = s
  <1>1. attributes_lookup' = [s \in DOMAIN attributes_lookup \cup {t} |->
                                IF s = t THEN AttributeId(t) ELSE attributes_lookup[s]]
    BY DEF GetAttributeId, Extended
  <1>2. CASE t \in DOMAIN attributes_lookup
    <2>1. attribute_counter' = attribute_counter /\ AttributeId(t) = attributes_lookup[t]
      BY <1>2 DEF GetAttributeId, AttributeId
    <2>2. /\ DOMAIN attributes_lookup' = DOMAIN attributes_lookup
          /\ \A s \in DOMAIN attributes_lookup : attributes_lookup'[s] = attributes_lookup[s]
      BY <1>1, <1>2, <2>1
    <2> QED BY <1>2, <2>1, <2>2 DEF AttributesOK
  <1>3. CASE t \notin DOMAIN attributes_lookup
    <2>1. attribute_counter' = attribute_counter + 1 /\ AttributeId(t) = attribute_counter
      BY <1>3 DEF GetAttributeId, AttributeId
    <2>2. /\ DOMAIN attributes_lookup' = DOMAIN attributes_lookup \cup {t}
          /\ attributes_lookup'[t] = attribute_counter
          /\ \A s \in DOMAIN attributes_lookup : attributes_lookup'[s] = attributes_lookup[s]
      BY <1>1, <1>3, <2>1
    <2>3. \A i \in 0..attribute_counter'-1 : i = attribute_counter \/ i \in 0..attribute_counter-1
      BY <2>1
    <2>4. \A s \in DOMAIN attributes_lookup :
            attributes_lookup[s] \in 0..attribute_counter-1
              /\ attributes_lookup[s] # attribute_counter
      BY DEF AttributesOK
    <2>5. \A i \in 0..attribute_counter'-1 :
            \E s \in DOMAIN attributes_lookup' : attributes_lookup'[s] = i
      BY <2>2, <2>3 DEF AttributesOK
    <2>6. \A r, s \in DOMAIN attributes_lookup' :
            attributes_lookup'[r] = attributes_lookup'[s] => r = s
      BY <2>2, <2>4 DEF AttributesOK
    <2>7. \A s \in DOMAIN attributes_lookup' :
            attributes_lookup'[s] \in 0..attribute_counter'-1
      BY <2>1, <2>2, <2>4
    <2> QED BY <2>1, <2>5, <2>6, <2>7
  <1> QED BY <1>2, <1>3

LEMMA NodesStep ==
  ASSUME AttributesOK, attribute_counter \in Nat, NEW t, NEW i, GetAttributeId(t),
         nodes' = Extended(nodes, i, AttributeId(t)), t = "_root" \/ DOMAIN nodes # {}
  PROVE  AttributesOK'
  <1>1. \A j \in DOMAIN nodes' :
          nodes'[j] = AttributeId(t) \/ (j \in DOMAIN nodes /\ nodes'[j] = nodes[j])
    BY DEF Extended
  <1>2. \A j \in DOMAIN nodes' : nodes'[j] \in 0..attribute_counter'-1
    BY <1>1, LookupStep DEF AttributesOK
  <1>3. /\ attributes_lookup' = [s \in DOMAIN attributes_lookup \cup {t} |->
                                   IF s = t THEN AttributeId(t) ELSE attributes_lookup[s]]
        /\ i \in DOMAIN nodes'
    BY DEF GetAttributeId, Extended
  <1>4. "_root" \in DOMAIN attributes_lookup' /\ attributes_lookup'["_root"] = 0
    <2>1. CASE DOMAIN nodes # {}
      BY <1>3, <2>1 DEF AttributesOK, AttributeId
    <2>2. CASE DOMAIN nodes = {}
      <3>1. attribute_counter = 0 /\ t = "_root"
        BY <2>2 DEF AttributesOK
      <3>2. t \notin DOMAIN attributes_lookup
        BY <3>1 DEF AttributesOK
      <3> QED BY <1>3, <3>1, <3>2 DEF AttributeId
    <2> QED BY <2>1, <2>2
  <1>5. DOMAIN nodes' # {}
    BY <1>3
  <1> QED BY <1>2, <1>4, <1>5, LookupStep DEF AttributesOK

LEMMA AttributesStep ==
  ASSUME TInv, AttributesOK, [Next]_vars
  PROVE  AttributesOK'
  <1>1. attribute_counter \in Nat
    BY DEF TInv, CountersOK
  <1>2. CASE Start
    BY <1>1, <1>2, NodesStep DEF Start
  <1>3. ASSUME NEW t, stack # <<>>, Attach(Top.node, t) PROVE AttributesOK'
    <2>1. DOMAIN nodes # {}
      BY <1>3 DEF TInv, CountersOK
    <2> QED BY <1>1, <1>3, <2>1, NodesStep DEF Attach
  <1>4. CASE UNCHANGED <<nodes, attributes>>
    BY <1>4 DEF AttributesOK, attributes
  <1> QED BY <1>2, <1>3, <1>4
          DEF Next, Key, Leaf, Running, EnterDict, EnterList, Item, Return, vars

(* Whatever texts are looked up in whatever order, attribute ids stay      *)
(* dense, different texts have different ids, and every node has one.      *)
THEOREM AttributesCorrect == Spec => []AttributesOK
  <1>1. Init => AttributesOK
    BY DEF Init, AttributesOK
  <1>2. TInv /\ AttributesOK /\ [Next]_vars => AttributesOK'
    BY AttributesStep
  <1> QED BY <1>1, <1>2, Invariance, PTL DEF Spec
-----------------------------------------------------------------------------
(* While the ids are unambiguous, a node has the label that its id is for. *)
LEMMA LabelFacts ==
  ASSUME AttributesOK, NEW v \in DOMAIN nodes, NEW t \in DOMAIN attributes_lookup,
         attributes_lookup[t] = nodes[v]
  PROVE  Label(v) = t
  BY DEF AttributesOK, Label

LEMMA LabelThere ==
  ASSUME AttributesOK, NEW v \in DOMAIN nodes
  PROVE  Label(v) \in DOMAIN attributes_lookup /\ attributes_lookup[Label(v)] = nodes[v]
  <1>1. \E t \in DOMAIN attributes_lookup : attributes_lookup[t] = nodes[v]
    BY DEF AttributesOK
  <1> QED BY <1>1 DEF Label

(* A lookup and a new node leave the labels of the older nodes alone.      *)
LEMMA LabelStep ==
  ASSUME AttributesOK, AttributesOK', NEW t, NEW w, w \notin DOMAIN nodes, GetAttributeId(t),
         nodes' = Extended(nodes, w, AttributeId(t))
  PROVE  Label(w)' = t /\ \A v \in DOMAIN nodes : Label(v)' = Label(v)
  <1>1. /\ DOMAIN attributes_lookup' = DOMAIN attributes_lookup \cup {t}
        /\ attributes_lookup'[t] = AttributeId(t)
        /\ \A s \in DOMAIN attributes_lookup : attributes_lookup'[s] = attributes_lookup[s]
    BY DEF GetAttributeId, Extended, AttributeId
  <1>2. /\ DOMAIN nodes' = DOMAIN nodes \cup {w} /\ nodes'[w] = AttributeId(t)
        /\ \A v \in DOMAIN nodes : nodes'[v] = nodes[v]
    BY DEF Extended
  <1>3. \A v \in DOMAIN nodes' : \A s \in DOMAIN attributes_lookup' :
          attributes_lookup'[s] = nodes'[v] => Label(v)' = s
    BY DEF AttributesOK, Label
  <1>4. Label(w)' = t
    BY <1>1, <1>2, <1>3
  <1>5. ASSUME NEW v \in DOMAIN nodes PROVE Label(v)' = Label(v)
    <2>1. Label(v) \in DOMAIN attributes_lookup /\ attributes_lookup[Label(v)] = nodes[v]
      BY LabelThere
    <2> QED BY <1>1, <1>2, <1>3, <2>1
  <1> QED BY <1>4, <1>5

(* For every AST: a node is labelled with the text it was made for, and    *)
(* the label never changes.                                                *)
THEOREM LabelsStayCorrect == Spec => LabelsStay
  <1> DEFINE A == /\ \A v \in DOMAIN nodes : Label(v)' = Label(v)
                  /\ \A t \in Keys : Key(t) => Label(node_counter)' = t
                  /\ \A t \in Strings \cup Others : Leaf(t) => Label(node_counter)' = t
  <1>1. TInv /\ AttributesOK /\ AttributesOK' /\ [Next]_vars => [A]_vars
    <2> SUFFICES ASSUME TInv, AttributesOK, AttributesOK', Next
                 PROVE  A
      BY Zenon
    <2>1. ASSUME NEW source, NEW t, Attach(source, t)
          PROVE  (Label(node_counter))' = t /\ \A v \in DOMAIN nodes : Label(v)' = Label(v)
      <3>1. node_counter' = node_counter + 1 /\ node_counter' \notin DOMAIN nodes
        BY <2>1 DEF Attach, FreshId, TInv, TreeOK, CountersOK
      <3>2. GetAttributeId(t) /\ nodes' = Extended(nodes, node_counter', AttributeId(t))
        BY <2>1 DEF Attach
      <3> QED BY <3>1, <3>2, LabelStep
    <2>2. \A t \in Keys : Key(t) => Label(node_counter)' = t
      BY <2>1, Zenon DEF Key
    <2>3. \A t \in Strings \cup Others : Leaf(t) => Label(node_counter)' = t
      BY <2>1, Zenon DEF Leaf
    <2>4. \A v \in DOMAIN nodes : Label(v)' = Label(v)
      <3>1. CASE \E t \in Keys : Key(t)
        BY <2>1, <3>1, Zenon DEF Key
      <3>2. CASE \E t \in Strings \cup Others : Leaf(t)
        BY <2>1, <3>2, Zenon DEF Leaf
      <3>3. CASE Start
        BY <3>3, Zenon DEF Start
      <3>4. CASE UNCHANGED <<nodes, attributes>>
        BY <3>4 DEF Label, attributes
      <3> QED BY <3>1, <3>2, <3>3, <3>4, Zenon DEF Next, EnterDict, EnterList, Item, Return
    <2> QED BY <2>2, <2>3, <2>4, Zenon
  <1> QED BY <1>1, Invariance, AttributesCorrect, PTL DEF Spec, LabelsStay
-----------------------------------------------------------------------------
(* The rule of a call is its node or an ancestor of it.                    *)
RulesOK == \A i \in 1..Len(stack) : stack[i].rule \in 0..stack[i].node

LEMMA BelowStep ==
  ASSUME TInv, RulesOK, BelowRule, stack # <<>>, StackStep(node_counter'),
         \/ UNCHANGED <<edges, node_counter>>
         \/ edges' = edges \cup {<<Top.node, node_counter'>>} /\ node_counter' = node_counter + 1
  PROVE  RulesOK' /\ BelowRule'
  <1>1. /\ Len(stack) \in Nat \ {0} /\ Top = stack[Len(stack)] /\ node_counter \in Nat
        /\ Len(stack') \in Nat /\ DOMAIN stack = 1..Len(stack) /\ DOMAIN stack' = 1..Len(stack')
    BY PoppedFacts, InputAssumption DEF TInv, CountersOK, StackTyped, StackStep
  <1>2. \A i \in 1..Len(stack) :
          /\ stack[i].rule \in Nat /\ stack[i].node \in 0..node_counter
          /\ stack[i].rule <= stack[i].node /\ stack[i].node <= Top.node
    <2>1. \A i \in 1..Len(stack) : stack[i].node <= stack[Len(stack)].node
      BY <1>1 DEF TInv, StackOK
    <2> QED BY <1>1, <2>1 DEF TInv, StackOK, RulesOK
  <1>3. \A e \in edges : e[1] \in Nat /\ e[2] \in Nat /\ e[2] <= node_counter
    BY InputAssumption DEF TInv, CountersOK, TreeOK
  <1>4. \A e \in edges' :
          e \in edges \/ (e[1] = Top.node /\ e[2] = node_counter' /\ node_counter' > node_counter)
    BY <1>1
  <1>5. ASSUME NEW i \in 1..Len(stack'),
               i \in 1..Len(stack) /\ stack'[i].node = stack[i].node /\ stack'[i].rule = stack[i].rule
        PROVE  /\ stack'[i].rule \in 0..stack'[i].node
               /\ \A e \in edges' : e[2] > stack'[i].rule => e[1] >= stack'[i].rule
    <2>1. \A e \in edges : e[2] > stack[i].rule => e[1] >= stack[i].rule
      BY <1>1, <1>5 DEF BelowRule
    <2>2. Top.node >= stack[i].rule
      BY <1>1, <1>2, <1>5
    <2> QED BY <1>2, <1>4, <1>5, <2>1, <2>2
  <1>6. ASSUME NEW i \in 1..Len(stack'), i = Len(stack'), stack'[i].node = node_counter',
               stack'[i].rule \in {node_counter', Top.rule}
        PROVE  /\ stack'[i].rule \in 0..stack'[i].node
               /\ \A e \in edges' : e[2] > stack'[i].rule => e[1] >= stack'[i].rule
    <2>1. Top.rule \in 0..node_counter /\ node_counter' \in Nat /\ node_counter <= node_counter'
          /\ node_counter \in Nat /\ Top.node \in Nat /\ Top.rule \in Nat /\ Top.node >= Top.rule
      BY <1>1, <1>2
    <2>2. CASE stack'[i].rule = Top.rule
      <3>1. \A e \in edges : e[2] > Top.rule => e[1] >= Top.rule
        BY <1>1 DEF BelowRule
      <3>2. \A e \in edges' : e[2] > Top.rule => e[1] >= Top.rule
        BY <1>4, <2>1, <3>1
      <3> QED BY <1>6, <2>1, <2>2, <3>2
    <2>3. CASE stack'[i].rule = node_counter'
      <3>1. \A e \in edges' : ~(e[2] > node_counter')
        <4> TAKE e \in edges'
        <4>1. e[2] \in Nat /\ e[2] <= node_counter'
          BY <1>3, <1>4, <2>1
        <4> QED BY <2>1, <4>1
      <3> QED BY <1>6, <2>1, <2>3, <3>1
    <2> QED BY <1>6, <2>2, <2>3
  <1>7. \A i \in 1..Len(stack') :
          /\ stack'[i].rule \in 0..stack'[i].node
          /\ \A e \in edges' : e[2] > stack'[i].rule => e[1] >= stack'[i].rule
    BY <1>5, <1>6 DEF StackStep
  <1> QED BY <1>1, <1>7 DEF RulesOK, BelowRule

(* For every AST, although the elements of a list are chained: what        *)
(* belongs to the value of a key stays below the node of that key.         *)
THEOREM BelowRuleCorrect == Spec => []BelowRule
  <1>1. Init => RulesOK /\ BelowRule
    BY DEF Init, RulesOK, BelowRule
  <1>2. TInv /\ RulesOK /\ BelowRule /\ [Next]_vars => (RulesOK /\ BelowRule)'
    <2> SUFFICES ASSUME TInv, RulesOK, BelowRule, [Next]_vars
                 PROVE  RulesOK' /\ BelowRule'
      OBVIOUS
    <2>1. StackTyped /\ CountersOK
      BY DEF TInv
    <2>2. CASE Start
      <3>1. edges' = {} /\ stack' = <<Call("dict", 0, 0, {})>>
        BY <2>2, InputAssumption DEF Start, TInv, TreeOK, CountersOK
      <3> QED BY <3>1 DEF RulesOK, BelowRule, Call
    <2>3. ASSUME NEW t \in Keys, Key(t) PROVE RulesOK' /\ BelowRule'
      BY <2>1, <2>3, KeyStack, BelowStep DEF Key, Running, Attach, FreshId
    <2>4. CASE EnterDict \/ EnterList
      <3>1. stack # <<>> /\ UNCHANGED <<edges, node_counter>>
        BY <2>4 DEF EnterDict, EnterList, Running
      <3>2. StackStep(node_counter)
        BY <2>1, <2>4, <3>1, ReplaceStack DEF EnterDict, EnterList
      <3> QED BY <3>1, <3>2, BelowStep
    <2>5. CASE Item
      BY <2>1, <2>5, ItemStack, BelowStep DEF Item, Running
    <2>6. ASSUME NEW t \in Strings \cup Others, Leaf(t) PROVE RulesOK' /\ BelowRule'
      <3>1. StackStep(node_counter')
        BY <2>1, <2>6, PoppedFacts DEF Leaf, Running, StackStep
      <3> QED BY <2>6, <3>1, BelowStep DEF Leaf, Running, Attach, FreshId
    <2>7. CASE Return
      <3>1. stack # <<>> /\ stack' = Popped /\ UNCHANGED <<edges, node_counter>>
        BY <2>7 DEF Return, Running
      <3> QED BY <2>1, <3>1, PopStack, BelowStep
    <2>8. CASE UNCHANGED vars
      BY <2>8 DEF vars, RulesOK, BelowRule
    <2> QED BY <2>2, <2>3, <2>4, <2>5, <2>6, <2>7, <2>8 DEF Next
  <1> QED BY <1>1, <1>2, Invariance, PTL DEF Spec
-----------------------------------------------------------------------------
(* What a call that may attach nodes attaches them to: the newest node, if *)
(* it is the running call, or a node that has its first child.             *)
Attaching(c) ==
  \/ c.kind = "list"
  \/ <<c.node, c.node + 1>> \in edges

FrontierOK ==
  \A i \in 1..Len(stack) :
    Attaching(stack[i]) \/ (i = Len(stack) /\ stack[i].node = node_counter)

(* Attaching to the running call's node keeps first children first.        *)
LEMMA FirstChildStep ==
  ASSUME TInv, FirstChildOK, FrontierOK, stack # <<>>, Top.kind # "list",
         NEW t, Attach(Top.node, t)
  PROVE  /\ FirstChildOK' /\ edges \subseteq edges'
         /\ <<Top.node, Top.node + 1>> \in edges'
  <1>1. Len(stack) \in 1..Len(stack) /\ Top = stack[Len(stack)]
    BY PoppedFacts DEF TInv
  <1>2. edges' = edges \cup {<<Top.node, node_counter + 1>>}
    BY DEF Attach, FreshId
  <1>3. Top.node = node_counter \/ <<Top.node, Top.node + 1>> \in edges
    BY <1>1 DEF FrontierOK, Attaching
  <1>4. <<Top.node, Top.node + 1>> \in edges'
    BY <1>2, <1>3
  <1> QED BY <1>2, <1>4 DEF FirstChildOK

LEMMA KeyFrontier ==
  ASSUME TInv, FirstChildOK, FrontierOK, NEW t \in Keys, Key(t)
  PROVE  FirstChildOK' /\ FrontierOK'
  <1>1. stack # <<>> /\ Top.kind = "dict" /\ Attach(Top.node, t)
    BY DEF Key, Running
  <1>2. FirstChildOK' /\ edges \subseteq edges' /\ <<Top.node, Top.node + 1>> \in edges'
    BY <1>1, FirstChildStep
  <1>3. StackTyped /\ CountersOK
    BY DEF TInv
  <1> DEFINE F == [Top EXCEPT !.keys = @ \cup {t}]
             G == Call("called", node_counter', node_counter', {})
             s == [stack EXCEPT ![Len(stack)] = F]
  <1>4. F \in Calls /\ F.node = Top.node /\ G \in Calls /\ G.node = node_counter'
    <2>1. node_counter' \in 0..MaxNodes
      BY <1>1, <1>3, InputAssumption DEF Attach, FreshId, CountersOK
    <2> QED BY <1>1, <1>3, <2>1, PoppedFacts DEF Calls, Call
  <1>5. stack' = Append(s, G)
    BY DEF Key, Top
  <1>6. stack \in Seq(Calls) /\ Len(stack) \in Nat \ {0}
    BY <1>1, <1>3, PoppedFacts DEF StackTyped
  <1> HIDE DEF F, G, Calls
  <1>7. s \in Seq(Calls) /\ Len(s) = Len(stack)
    BY <1>4, <1>6
  <1>8. \A i \in 1..Len(stack) : s[i] = IF i = Len(stack) THEN F ELSE stack[i]
    BY <1>6
  <1>9. /\ Len(stack') = Len(stack) + 1 /\ stack'[Len(stack) + 1] = G
        /\ \A i \in 1..Len(stack) : stack'[i] = s[i]
    <2> HIDE DEF s
    <2> QED BY <1>4, <1>5, <1>6, <1>7
  <1> HIDE DEF s
  <1>10. ASSUME NEW i \in 1..Len(stack')
         PROVE  (Attaching(stack[i]))' \/ (i = Len(stack') /\ stack'[i].node = node_counter')
    <2>1. CASE i = Len(stack) + 1
      BY <1>4, <1>9, <2>1
    <2>2. CASE i = Len(stack)
      BY <1>2, <1>4, <1>6, <1>8, <1>9, <2>2 DEF Attaching
    <2>3. CASE i \in 1..Len(stack)-1
      BY <1>2, <1>6, <1>8, <1>9, <2>3 DEF FrontierOK, Attaching
    <2> QED BY <1>6, <1>9, <2>1, <2>2, <2>3
  <1> QED BY <1>2, <1>10, Zenon DEF FrontierOK

(* The calls below the running one are left alone.                         *)
LEMMA PopFrontier ==
  ASSUME TInv, FrontierOK, stack # <<>>, stack' = Popped, edges \subseteq edges'
  PROVE  FrontierOK'
  <1>1. /\ Len(stack) \in Nat \ {0} /\ Len(stack') = Len(stack) - 1
        /\ \A i \in 1..Len(stack)-1 : stack'[i] = stack[i]
    BY PoppedFacts DEF TInv
  <1> QED BY <1>1 DEF FrontierOK, Attaching

LEMMA EnterFrontier ==
  ASSUME TInv, FrontierOK, EnterDict \/ EnterList
  PROVE  FrontierOK'
  <1>1. PICK kind \in {"dict", "list"} : stack' = [stack EXCEPT ![Len(stack)].kind = kind]
    BY DEF EnterDict, EnterList
  <1>2. stack # <<>> /\ stack \in Seq(Calls) /\ UNCHANGED <<edges, node_counter>>
        /\ Top.kind = "called" /\ Top = stack[Len(stack)]
    BY DEF TInv, StackTyped, EnterDict, EnterList, Running, Top
  <1> DEFINE F == [Top EXCEPT !.kind = kind]
  <1>3. F \in Calls /\ F.node = Top.node
    BY <1>2, PoppedFacts DEF TInv, Calls
  <1>4. stack' = [stack EXCEPT ![Len(stack)] = F]
    BY <1>1 DEF Top
  <1> HIDE DEF F, Calls
  <1>5. /\ Len(stack) \in Nat \ {0} /\ Len(stack') = Len(stack)
        /\ \A i \in 1..Len(stack) : stack'[i] = IF i = Len(stack) THEN F ELSE stack[i]
    BY <1>2, <1>3, <1>4
  <1> QED BY <1>2, <1>3, <1>5 DEF FrontierOK, Attaching

LEMMA ItemFrontier ==
  ASSUME TInv, FrontierOK, Item
  PROVE  FrontierOK'
  <1> DEFINE G == Call("called", node_counter, Top.rule, {})
  <1>1. stack # <<>> /\ stack \in Seq(Calls) /\ UNCHANGED <<edges, node_counter>>
        /\ Top.kind = "list" /\ Top = stack[Len(stack)] /\ Len(stack) \in Nat \ {0}
    BY PoppedFacts DEF TInv, StackTyped, Item, Running
  <1>2. G \in Calls /\ G.node = node_counter
    BY <1>1, PoppedFacts, InputAssumption DEF TInv, Calls, Call, CountersOK
  <1>3. stack' = Append(stack, G)
    BY DEF Item, ItemParent
  <1> HIDE DEF G, Calls
  <1>4. /\ Len(stack') = Len(stack) + 1 /\ stack'[Len(stack) + 1] = G
        /\ \A i \in 1..Len(stack) : stack'[i] = stack[i]
    BY <1>1, <1>2, <1>3
  <1> QED BY <1>1, <1>2, <1>4 DEF FrontierOK, Attaching

(* For every AST, although lists attach their elements to whatever came    *)
(* last: a node that has children has the node after it as its first.      *)
THEOREM FirstChildCorrect == Spec => []FirstChildOK
  <1>1. Init => FirstChildOK /\ FrontierOK
    BY DEF Init, FirstChildOK, FrontierOK
  <1>2. TInv /\ FirstChildOK /\ FrontierOK /\ [Next]_vars => (FirstChildOK /\ FrontierOK)'
    <2> SUFFICES ASSUME TInv, FirstChildOK, FrontierOK, [Next]_vars
                 PROVE  FirstChildOK' /\ FrontierOK'
      OBVIOUS
    <2>1. CASE Start
      <3>1. edges = {} /\ node_counter = 0
        BY <2>1 DEF Start, TInv, TreeOK, CountersOK
      <3>2. /\ stack' = <<Call("dict", 0, 0, {})>> /\ UNCHANGED <<node_counter, edges>>
        BY <2>1 DEF Start
      <3> QED BY <3>1, <3>2 DEF FirstChildOK, FrontierOK, Call
    <2>2. ASSUME NEW t \in Keys, Key(t) PROVE FirstChildOK' /\ FrontierOK'
      BY <2>2, KeyFrontier
    <2>3. CASE EnterDict \/ EnterList
      BY <2>3, EnterFrontier DEF FirstChildOK, EnterDict, EnterList
    <2>4. CASE Item
      BY <2>4, ItemFrontier DEF FirstChildOK, Item
    <2>5. ASSUME NEW t \in Strings \cup Others, Leaf(t) PROVE FirstChildOK' /\ FrontierOK'
      <3>1. stack # <<>> /\ Top.kind # "list" /\ Attach(Top.node, t) /\ stack' = Popped
        BY <2>5 DEF Leaf, Running
      <3> QED BY <3>1, FirstChildStep, PopFrontier
    <2>6. CASE Return
      BY <2>6, PopFrontier DEF FirstChildOK, Return, Running
    <2>7. CASE UNCHANGED vars
      BY <2>7 DEF vars, FirstChildOK, FrontierOK, Attaching
    <2> QED BY <2>1, <2>2, <2>3, <2>4, <2>5, <2>6, <2>7 DEF Next
  <1> QED BY <1>1, <1>2, Invariance, PTL DEF Spec
-----------------------------------------------------------------------------
LEMMA ParentFacts ==
  ASSUME TInv, NEW v \in 1..node_counter
  PROVE  /\ Parent(v) \in 0..v-1 /\ <<Parent(v), v>> \in edges
         /\ \A p : <<p, v>> \in edges => p = Parent(v)
  <1>1. \E p \in 0..node_counter : <<p, v>> \in edges
    BY InputAssumption DEF TInv, TreeOK, CountersOK
  <1>2. <<Parent(v), v>> \in edges /\ Parent(v) \in 0..node_counter
    BY <1>1, Zenon DEF Parent
  <1>3. Parent(v) < v
    BY <1>2 DEF TInv, TreeOK
  <1>4. \A p : <<p, v>> \in edges => p = Parent(v)
    <2> TAKE p
    <2> HAVE <<p, v>> \in edges
    <2>1. <<p, v>> = <<Parent(v), v>>
      BY <1>2 DEF TInv, TreeOK
    <2> QED BY <2>1
  <1> QED BY <1>2, <1>3, <1>4, InputAssumption DEF TInv, CountersOK

(* The parents of the older nodes stay, and the new node has its own.      *)
LEMMA ParentStep ==
  ASSUME TInv, TInv', NEW source, NEW m, m = node_counter + 1, node_counter' = m,
         edges' = edges \cup {<<source, m>>}
  PROVE  Parent(m)' = source /\ \A v \in 1..node_counter : Parent(v)' = Parent(v)
  <1>1. node_counter \in Nat
    BY InputAssumption DEF TInv, CountersOK
  <1>2. ASSUME NEW v \in 1..m, NEW p \in 0..m, <<p, v>> \in edges' PROVE p = Parent(v)'
    <2>1. <<Parent(v)', v>> \in edges'
      <3>1. \E q \in 0..node_counter' : <<q, v>> \in edges'
        BY <1>2
      <3> QED BY <3>1, Zenon DEF Parent
    <2>2. <<p, v>> = <<Parent(v)', v>>
      BY <1>2, <2>1 DEF TInv, TreeOK
    <2> QED BY <2>2
  <1>3. m \in 1..m /\ \A v \in 1..node_counter : v \in 1..m
    BY <1>1
  <1>4. \A v \in 1..node_counter : Parent(v) \in 0..m /\ <<Parent(v), v>> \in edges'
    BY <1>1, ParentFacts
  <1>5. source \in 0..m /\ <<source, m>> \in edges'
    <2>1. <<source, m>> \in edges'
      OBVIOUS
    <2>2. \A e \in edges' : e[1] < e[2] /\ e \in (0..MaxNodes) \X (1..MaxNodes)
      BY DEF TInv, TreeOK, CountersOK
    <2>3. source < m /\ source \in 0..MaxNodes
      BY <2>1, <2>2
    <2> QED BY <1>1, <2>1, <2>3, InputAssumption
  <1> QED BY <1>2, <1>3, <1>4, <1>5

(* The tree gets one node more, below the node of the running call.        *)
LEMMA TreeStep ==
  ASSUME TInv, TInv', AttributesOK, AttributesOK', stack # <<>>, NEW t, Attach(Top.node, t)
  PROVE  /\ Tree' = Append(Tree, [text |-> t, parent |-> Top.node])
         /\ Top.node \in Grown!RightEdge
  <1>0. PICK m, p : m = node_counter + 1 /\ p = Top.node
    OBVIOUS
  <1>1. /\ node_counter \in Nat /\ node_counter' = m /\ DOMAIN nodes = 0..node_counter
        /\ DOMAIN nodes' = 0..m /\ DOMAIN nodes # {} /\ DOMAIN nodes' # {}
        /\ edges' = edges \cup {<<p, m>>}
        /\ GetAttributeId(t) /\ nodes' = Extended(nodes, m, AttributeId(t))
    <2>1. DOMAIN nodes # {} /\ node_counter \in Nat /\ DOMAIN nodes = 0..node_counter
      BY InputAssumption DEF TInv, CountersOK, TreeOK
    <2>2. /\ node_counter' = m /\ edges' = edges \cup {<<p, m>>}
          /\ GetAttributeId(t) /\ nodes' = Extended(nodes, m, AttributeId(t))
      BY <1>0 DEF Attach, FreshId
    <2>3. DOMAIN nodes' = 0..m
      BY <1>0, <2>1, <2>2 DEF Extended
    <2> QED BY <1>0, <2>1, <2>2, <2>3
  <1>2. Label(m)' = t /\ \A v \in DOMAIN nodes : Label(v)' = Label(v)
    <2>1. m \notin DOMAIN nodes
      BY <1>0, <1>1
    <2> QED BY <1>1, <2>1, LabelStep
  <1>3. Parent(m)' = p /\ \A v \in 1..node_counter : Parent(v)' = Parent(v)
    BY <1>0, <1>1, ParentStep
  <1>4. Tree = [x \in 1..m |-> [text |-> Label(x-1),
                                parent |-> IF x = 1 THEN -1 ELSE Parent(x-1)]]
    BY <1>0, <1>1, Zenon DEF Tree
  <1>5. Tree' = [x \in 1..m+1 |-> [text |-> Label(x-1)',
                                   parent |-> IF x = 1 THEN -1 ELSE Parent(x-1)']]
    BY <1>1, Zenon DEF Tree
  <1>6. Len(Tree) = m
    BY <1>0, <1>1, <1>4
  <1>7. Tree' = Append(Tree, [text |-> t, parent |-> p])
    <2> DEFINE new == [text |-> t, parent |-> p]
    <2>1. ASSUME NEW x \in 1..m PROVE Tree'[x] = Tree[x]
      <3>1. x - 1 \in DOMAIN nodes /\ x \in 1..m+1 /\ (x # 1 => x - 1 \in 1..node_counter)
        BY <1>0, <1>1
      <3>2. Label(x-1)' = Label(x-1)
        BY <1>2, <3>1, Zenon
      <3>3. x # 1 => Parent(x-1)' = Parent(x-1)
        BY <1>3, <3>1, Zenon
      <3> QED BY <1>4, <1>5, <3>1, <3>2, <3>3
    <2>2. Tree'[m+1] = new
      <3>1. m + 1 \in 1..m+1 /\ m + 1 # 1 /\ (m + 1) - 1 = m
        BY <1>0, <1>1
      <3>2. \A x \in 1..m+1 : x = m + 1 =>
              Tree'[x] = [text |-> Label(x-1)', parent |-> Parent(x-1)']
        BY <1>0, <1>1, <1>5
      <3>3. \A x : x - 1 = m => Label(x-1)' = t /\ Parent(x-1)' = p
        BY <1>2, <1>3
      <3> QED BY <3>1, <3>2, <3>3
    <2> HIDE DEF new
    <2>3. Append(Tree, new) = [x \in 1..m+1 |-> IF x = m + 1 THEN new ELSE Tree[x]]
      BY <1>0, <1>1, <1>4, <1>6
    <2>4. DOMAIN Tree' = 1..m+1 /\ Tree' = [x \in 1..m+1 |-> Tree'[x]]
      BY <1>5
    <2>5. \A x \in 1..m+1 : Tree'[x] = IF x = m + 1 THEN new ELSE Tree[x]
      BY <1>0, <1>1, <2>1, <2>2
    <2> QED BY <2>3, <2>4, <2>5 DEF new
  <1>8. p \in Grown!RightEdge
    <2>1. p \in 0..node_counter /\ \A e \in edges : p < e[2] => p <= e[1]
      <3>1. Len(stack) \in 1..Len(stack) /\ p = stack[Len(stack)].node
        BY <1>0, PoppedFacts DEF TInv
      <3> QED BY <3>1 DEF TInv, StackOK
    <2>2. DOMAIN Tree = 1..m
      BY <1>4
    <2>3. ASSUME NEW x \in 1..m, p < x - 1 PROVE p <= Tree[x].parent
      <3>1. x # 1 /\ x - 1 \in 1..node_counter
        BY <1>0, <1>1, <2>1, <2>3
      <3>2. <<Parent(x-1), x-1>> \in edges
        BY <3>1, ParentFacts
      <3>3. p <= Parent(x-1)
        BY <2>1, <2>3, <3>2
      <3> QED BY <1>4, <3>1, <3>3
    <2> QED BY <1>0, <1>1, <1>6, <2>1, <2>2, <2>3 DEF Grown!RightEdge
  <1> QED BY <1>0, <1>7, <1>8
-----------------------------------------------------------------------------
(* The root is planted with its label.                                     *)
LEMMA StartPlants == ASSUME TInv, AttributesOK, AttributesOK', Start PROVE Grown!Plant
  <1>1. /\ DOMAIN nodes = {} /\ node_counter = 0 /\ node_counter' = 0
        /\ GetAttributeId("_root") /\ nodes' = Extended(nodes, 0, AttributeId("_root"))
    BY DEF Start, TInv, TreeOK, CountersOK
  <1>2. DOMAIN nodes' = {0}
    BY <1>1 DEF Extended
  <1>3. Label(0)' = "_root"
    BY <1>1, LabelStep
  <1>4. Tree = <<>>
    BY <1>1 DEF Tree
  <1>5. Tree' = <<[text |-> "_root", parent |-> -1]>>
    <2>1. Tree' = [x \in 1..1 |-> [text |-> Label(x-1)',
                                   parent |-> IF x = 1 THEN -1 ELSE Parent(x-1)']]
      <3>1. DOMAIN nodes' # {} /\ node_counter' + 1 = 1
        BY <1>1, <1>2
      <3> QED BY <3>1, Zenon DEF Tree
    <2>2. \A x \in 1..1 : x - 1 = 0 /\ x = 1
      OBVIOUS
    <2>3. \A x \in 1..1 : Label(x-1)' = "_root"
      BY <1>3, <2>2
    <2> QED BY <2>1, <2>2, <2>3
  <1> QED BY <1>4, <1>5 DEF Grown!Plant, Grown!TreeNode

LEMMA NextGrows ==
  ASSUME TInv, TInv', AttributesOK, AttributesOK', [Next]_vars
  PROVE  [Grown!Next]_Tree
  <1>1. CASE Start
    BY <1>1, StartPlants DEF Grown!Next
  <1>2. ASSUME NEW t \in Keys \cup Strings \cup Others, stack # <<>>, Attach(Top.node, t)
        PROVE  Grown!Next
    <2>1. /\ Tree' = Append(Tree, [text |-> t, parent |-> Top.node])
          /\ Top.node \in Grown!RightEdge
      BY <1>2, TreeStep
    <2> QED BY <2>1 DEF Grown!Next, Grown!Grow, Grown!TreeNode
  <1>3. ASSUME NEW t \in Keys, Key(t) PROVE Grown!Next
    <2>1. stack # <<>> /\ Attach(Top.node, t)
      BY <1>3 DEF Key, Running
    <2> QED BY <1>2, <2>1
  <1>4. ASSUME NEW t \in Strings \cup Others, Leaf(t) PROVE Grown!Next
    <2>1. stack # <<>> /\ Attach(Top.node, t)
      BY <1>4 DEF Leaf, Running
    <2> QED BY <1>2, <2>1
  <1>5. CASE EnterDict \/ EnterList \/ Item \/ Return \/ UNCHANGED vars
    <2>1. UNCHANGED <<node_counter, edges, nodes, attributes_lookup>>
      BY <1>5 DEF EnterDict, EnterList, Item, Return, vars, attributes
    <2> QED BY <2>1 DEF Tree, Label, Parent
  <1> QED BY <1>1, <1>3, <1>4, <1>5 DEF Next

(* process_node, for every AST and every set of texts, does what           *)
(* PreorderTree promises: whatever a list attaches its elements to, the    *)
(* labelled tree only grows, in preorder, at its right edge.               *)
THEOREM PreorderTreeImplemented == Spec => ImplementsPreorderTree
  <1>1. Init => Grown!Init
    BY DEF Init, Grown!Init, Tree
  <1>2. TInv /\ TInv' /\ AttributesOK /\ AttributesOK' /\ [Next]_vars => [Grown!Next]_Tree
    BY NextGrows
  <1> QED BY <1>1, <1>2, Invariance, AttributesCorrect, PTL
          DEF Spec, ImplementsPreorderTree, Grown!Spec
=============================================================================

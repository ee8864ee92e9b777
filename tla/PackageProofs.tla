--------------------------- MODULE PackageProofs ----------------------------
(***************************************************************************)
(* The composition for every AST: create_graph is called with what it is   *)
(* written for, its arrays fit the ids of process_node, and the edges come *)
(* in CSR order.                                                           *)
(***************************************************************************)
EXTENDS Package, AstTreeProofs, FiniteSetTheorems

(* What is proved of GraphBuilder, for the arguments of the package.       *)
Built == INSTANCE GraphBuilderProofs WITH
  Graphs <- {"graph"}, Attributes <- Nat, MaxNodes <- MaxNodes + 1, MaxEdges <- MaxNodes,
  nodes <- given_nodes, edges <- given_edges

(* The relation order is a strict total order of S.                        *)
Orders(order, S) ==
  /\ \A d \in S : <<d, d>> \notin order
  /\ \A d, e \in S : d # e => <<d, e>> \in order \/ <<e, d>> \in order
  /\ \A d, e, f \in S : <<d, e>> \in order /\ <<e, f>> \in order => <<d, f>> \in order

Below(e, S, order) == {d \in S : <<d, e>> \in order}
Rank(e, S, order) == Cardinality(Below(e, S, order))
-----------------------------------------------------------------------------
LEMMA RankFacts ==
  ASSUME NEW S, IsFiniteSet(S), NEW order, Orders(order, S)
  PROVE  /\ \A e \in S : Rank(e, S, order) \in 0..Cardinality(S)-1
         /\ \A d, e \in S : <<d, e>> \in order => Rank(d, S, order) < Rank(e, S, order)
  <1>1. Cardinality(S) \in Nat
    BY FS_CardinalityType
  <1>2. \A e \in S : /\ IsFiniteSet(Below(e, S, order)) /\ Rank(e, S, order) \in Nat
                     /\ IsFiniteSet(S \ {e}) /\ Cardinality(S \ {e}) = Cardinality(S) - 1
    <2> TAKE e \in S
    <2>1. Below(e, S, order) \in SUBSET S
      BY DEF Below
    <2>2. IsFiniteSet(Below(e, S, order))
      BY <2>1, FS_Subset
    <2> QED BY <2>2, FS_CardinalityType, FS_RemoveElement DEF Rank
  <1>3. ASSUME NEW e \in S
        PROVE  Rank(e, S, order) \in 0..Cardinality(S)-1
    <2>1. Below(e, S, order) \in SUBSET (S \ {e})
      BY DEF Below, Orders
    <2>2. Rank(e, S, order) <= Cardinality(S \ {e})
      BY <1>2, <2>1, FS_Subset DEF Rank
    <2> QED BY <1>1, <1>2, <2>2
  <1>4. ASSUME NEW d \in S, NEW e \in S, <<d, e>> \in order
        PROVE  Rank(d, S, order) < Rank(e, S, order)
    <2> DEFINE B == Below(e, S, order)
    <2>1. d \in B /\ Below(d, S, order) \in SUBSET (B \ {d})
      BY <1>4 DEF Below, Orders
    <2>2. IsFiniteSet(B) /\ Cardinality(B) = Rank(e, S, order)
      BY <1>2 DEF Rank
    <2> HIDE DEF B
    <2>3. IsFiniteSet(B \ {d}) /\ Cardinality(B \ {d}) = Rank(e, S, order) - 1
      BY <2>1, <2>2, FS_RemoveElement
    <2>4. Rank(d, S, order) <= Cardinality(B \ {d})
      BY <2>1, <2>3, FS_Subset DEF Rank
    <2>5. Rank(d, S, order) \in Nat /\ Rank(e, S, order) \in Nat
      BY <1>2
    <2> QED BY <2>3, <2>4, <2>5
  <1> QED BY <1>3, <1>4

(* Every rank is taken, by one element.                                    *)
LEMMA RankTaken ==
  ASSUME NEW S, IsFiniteSet(S), NEW order, Orders(order, S)
  PROVE  /\ \A r \in 0..Cardinality(S)-1 : \E e \in S : Rank(e, S, order) = r
         /\ \A d, e \in S : Rank(d, S, order) = Rank(e, S, order) => d = e
  <1> DEFINE n == Cardinality(S)
             R == [e \in S |-> Rank(e, S, order)]
  <1>1. n \in Nat
    BY FS_CardinalityType
  <1>2. \A d, e \in S : Rank(d, S, order) = Rank(e, S, order) => d = e
    <2> SUFFICES ASSUME NEW d \in S, NEW e \in S, d # e
                 PROVE  Rank(d, S, order) # Rank(e, S, order)
      OBVIOUS
    <2>1. <<d, e>> \in order \/ <<e, d>> \in order
      BY DEF Orders
    <2> QED BY <1>1, <2>1, RankFacts
  <1>3. R \in Injection(S, 0..n-1)
    BY <1>2, RankFacts DEF Injection, IsInjective
  <1>4. IsFiniteSet(0..n-1) /\ Cardinality(0..n-1) = n
    BY <1>1, FS_Interval
  <1>5. R \in Surjection(S, 0..n-1)
    BY <1>3, <1>4, FS_Injection
  <1>6. \A r \in 0..n-1 : \E e \in S : R[e] = r
    BY <1>5 DEF Surjection
  <1> QED BY <1>2, <1>6

(* Sorting a finite set by a strict total order: every element, in order.  *)
LEMMA SortedFacts ==
  ASSUME NEW S, IsFiniteSet(S), NEW order, Orders(order, S), NEW s, s = Sorted(S, order)
  PROVE  /\ s \in [1..Cardinality(S) -> S]
         /\ \A e \in S : \E x \in 1..Cardinality(S) : s[x] = e
         /\ \A x, y \in 1..Cardinality(S) : x < y => <<s[x], s[y]>> \in order
  <1> DEFINE n == Cardinality(S)
             ranked(x) == CHOOSE e \in S : Rank(e, S, order) = x - 1
  <1>1. n \in Nat
    BY FS_CardinalityType
  <1>2. s = [x \in 1..n |-> ranked(x)]
    BY Zenon DEF Sorted, Rank, Below
  <1>3. ASSUME NEW x \in 1..n
        PROVE  ranked(x) \in S /\ Rank(ranked(x), S, order) = x - 1
    <2>1. x - 1 \in 0..n-1
      BY <1>1
    <2>2. \E e \in S : Rank(e, S, order) = x - 1
      BY <2>1, RankTaken
    <2> QED BY <2>2, Zenon
  <1> HIDE DEF ranked
  <1>4. \A x \in 1..n : s[x] \in S /\ Rank(s[x], S, order) = x - 1
    BY <1>2, <1>3
  <1>5. s \in [1..n -> S]
    BY <1>2, <1>4
  <1>6. ASSUME NEW e \in S
        PROVE  \E x \in 1..n : s[x] = e
    <2> DEFINE r == Rank(e, S, order)
    <2>1. r \in 0..n-1
      BY RankFacts
    <2>2. r + 1 \in 1..n /\ (r + 1) - 1 = r
      BY <1>1, <2>1
    <2>3. s[r + 1] \in S /\ Rank(s[r + 1], S, order) = r
      BY <1>4, <2>2
    <2> HIDE DEF r
    <2>4. s[r + 1] = e
      BY <2>3, RankTaken DEF r
    <2> QED BY <2>2, <2>4
  <1>7. ASSUME NEW x \in 1..n, NEW y \in 1..n, x < y
        PROVE  <<s[x], s[y]>> \in order
    <2>1. /\ s[x] \in S /\ s[y] \in S /\ Rank(s[x], S, order) = x - 1
          /\ Rank(s[y], S, order) = y - 1 /\ x - 1 < y - 1 /\ x - 1 # y - 1 /\ ~(y - 1 < x - 1)
      BY <1>1, <1>4, <1>7
    <2>2. s[x] # s[y] /\ <<s[y], s[x]>> \notin order
      BY <2>1, RankFacts
    <2> QED BY <2>1, <2>2 DEF Orders
  <1> QED BY <1>5, <1>6, <1>7
-----------------------------------------------------------------------------
(* The steps of process_node in the composition are those of AstTree, so   *)
(* that what is proved of AstTree holds here.                              *)
THEOREM TreeImplemented == PackageSpec => Spec
  <1>1. PackageInit => Init
    BY DEF PackageInit
  <1>2. [PackageNext]_<<vars, builder>> => [Next]_vars
    BY DEF PackageNext, Parse, Build, Fill
  <1> QED BY <1>1, <1>2, PTL DEF PackageSpec, Spec

TreeDone == TInv /\ FirstChildOK /\ AttributesOK /\ Parsed

LEMMA NodesSorted ==
  ASSUME TreeDone, NEW n, n = node_counter + 1
  PROVE  /\ n \in 1..MaxNodes+1 /\ DOMAIN nodes = 0..n-1
         /\ NodesGiven \in [1..n -> [id : 0..n-1, attribute : Nat]]
         /\ \A x, y \in 1..n : NodesGiven[x].id = NodesGiven[y].id => x = y
         /\ \A v \in 0..n-1 : \E x \in 1..n : NodesGiven[x].id = v
         /\ \A x \in 1..n : NodesGiven[x].attribute = nodes[NodesGiven[x].id]
  <1> DEFINE D == DOMAIN nodes
             s == Sorted(D, NodeOrder)
  <1>1. n \in 1..MaxNodes+1 /\ D = 0..n-1
    BY InputAssumption DEF TreeDone, Parsed, TInv, TreeOK, CountersOK
  <1>2. IsFiniteSet(D) /\ Cardinality(D) = n
    BY <1>1, FS_Interval
  <1>3. \A v, w \in D : <<v, w>> \in NodeOrder <=> v < w
    BY DEF NodeOrder
  <1>4. Orders(NodeOrder, D)
    <2>1. D \subseteq Nat
      BY <1>1
    <2> HIDE DEF D
    <2> QED BY <1>3, <2>1 DEF Orders
  <1>5. /\ s \in [1..n -> D]
        /\ \A v \in D : \E x \in 1..n : s[x] = v
        /\ \A x, y \in 1..n : x < y => <<s[x], s[y]>> \in NodeOrder
    <2> HIDE DEF s
    <2>1. s \in [1..Cardinality(D) -> D]
      BY <1>2, <1>4, SortedFacts DEF s
    <2>2. \A v \in D : \E x \in 1..Cardinality(D) : s[x] = v
      BY <1>2, <1>4, SortedFacts DEF s
    <2>3. \A x, y \in 1..Cardinality(D) : x < y => <<s[x], s[y]>> \in NodeOrder
      BY <1>2, <1>4, SortedFacts DEF s
    <2> QED BY <1>2, <2>1, <2>2, <2>3
  <1>6. \A x, y \in 1..n : s[x] = s[y] => x = y
    <2> SUFFICES ASSUME NEW x \in 1..n, NEW y \in 1..n, s[x] = s[y], x # y PROVE FALSE
      OBVIOUS
    <2>1. x < y \/ y < x
      BY <1>1
    <2>2. <<s[x], s[x]>> \in NodeOrder /\ s[x] \in D
      <3> HIDE DEF s, D
      <3> QED BY <1>5, <2>1
    <2> HIDE DEF s, D
    <2> QED BY <1>4, <2>2 DEF Orders
  <1>7. \A v \in D : nodes[v] \in Nat
    BY DEF TreeDone, AttributesOK
  <1>8. NodesGiven = [x \in 1..n |-> [id |-> s[x], attribute |-> nodes[s[x]]]]
    <2>1. DOMAIN s = 1..n
      BY <1>5
    <2> QED BY <2>1, Zenon DEF NodesGiven
  <1> HIDE DEF s
  <1> QED BY <1>1, <1>5, <1>6, <1>7, <1>8

(* A source is inserted in the dict when its first child is made, the node *)
(* after it.                                                               *)
LEMMA InsertedNext ==
  ASSUME TreeDone, NEW e \in edges
  PROVE  Inserted(e[1]) = e[1] + 1
  <1>1. \A d \in edges : d[1] \in Nat /\ d[2] \in Nat /\ d[1] < d[2]
    BY InputAssumption DEF TreeDone, TInv, TreeOK, CountersOK
  <1>2. <<e[1], e[1] + 1>> \in edges
    BY DEF TreeDone, FirstChildOK
  <1>3. e[1] + 1 \in Targets(e[1])
    BY <1>2 DEF Targets
  <1>4. \A v \in Targets(e[1]) : v \in Nat /\ e[1] + 1 <= v
    BY <1>1 DEF Targets
  <1>5. \A v \in Targets(e[1]) : (\A w \in Targets(e[1]) : v <= w) => v = e[1] + 1
    BY <1>1, <1>3, <1>4
  <1> QED BY <1>3, <1>4, <1>5 DEF Inserted, Min

(* Every edge once, sorted by source and then by target.                   *)
LEMMA EdgesSorted ==
  ASSUME TreeDone, NEW l, l = Cardinality(edges)
  PROVE  /\ l \in 0..MaxNodes
         /\ EdgesGiven \in [1..l -> [source : 0..node_counter, target : 0..node_counter]]
         /\ \A x, y \in 1..l : x < y =>
              \/ EdgesGiven[x].source < EdgesGiven[y].source
              \/ /\ EdgesGiven[x].source = EdgesGiven[y].source
                 /\ EdgesGiven[x].target < EdgesGiven[y].target
  <1> DEFINE s == Sorted(edges, EdgeOrder)
  <1>1. node_counter \in 0..MaxNodes
    BY DEF TreeDone, TInv, CountersOK
  <1>2. \A e \in edges : /\ e[1] \in 0..node_counter /\ e[2] \in 1..node_counter
                         /\ e = <<e[1], e[2]>>
    BY InputAssumption DEF TreeDone, TInv, TreeOK, CountersOK
  <1>3. IsFiniteSet(edges) /\ l \in 0..node_counter
    <2> DEFINE F == [e \in edges |-> e[2]]
    <2>1. \A d, e \in edges : d[2] = e[2] => d = e
      BY DEF TreeDone, TInv, TreeOK
    <2>2. F \in Injection(edges, 1..node_counter)
      BY <1>2, <2>1 DEF Injection, IsInjective
    <2>3. IsFiniteSet(1..node_counter) /\ Cardinality(1..node_counter) = node_counter
      BY <1>1, InputAssumption, FS_Interval
    <2>4. IsFiniteSet(edges) /\ Cardinality(edges) <= node_counter
      BY <2>2, <2>3, FS_Injection
    <2> QED BY <2>4, <1>1, InputAssumption, FS_CardinalityType
  <1>4. \A d, e \in edges :
          <<d, e>> \in EdgeOrder <=> d[1] < e[1] \/ (d[1] = e[1] /\ d[2] < e[2])
    <2> TAKE d, e \in edges
    <2>1. <<d, e>> \in EdgeOrder <=>
            Inserted(d[1]) < Inserted(e[1]) \/ (d[1] = e[1] /\ d[2] < e[2])
      BY DEF EdgeOrder
    <2>2. Inserted(d[1]) = d[1] + 1 /\ Inserted(e[1]) = e[1] + 1
      BY InsertedNext
    <2> QED BY <1>1, <1>2, <2>1, <2>2, InputAssumption
  <1>5. Orders(EdgeOrder, edges)
    <2>1. \A d, e \in edges : d[1] = e[1] /\ d[2] = e[2] => d = e
      BY <1>2
    <2>2. \A e \in edges : e[1] \in Int /\ e[2] \in Int
      BY <1>2
    <2> QED BY <1>4, <2>1, <2>2 DEF Orders
  <1>6. /\ s \in [1..l -> edges]
        /\ \A x, y \in 1..l : x < y => <<s[x], s[y]>> \in EdgeOrder
    <2> HIDE DEF s
    <2> QED BY <1>3, <1>5, SortedFacts DEF s
  <1>7. EdgesGiven = [x \in 1..l |-> [source |-> s[x][1], target |-> s[x][2]]]
    <2>1. DOMAIN s = 1..l
      BY <1>6
    <2> QED BY <2>1, Zenon DEF EdgesGiven
  <1> HIDE DEF s
  <1>8. \A x \in 1..l : s[x] \in edges /\ s[x][1] \in 0..node_counter
                                       /\ s[x][2] \in 0..node_counter
    BY <1>2, <1>6
  <1>9. \A x, y \in 1..l : x < y =>
          s[x][1] < s[y][1] \/ (s[x][1] = s[y][1] /\ s[x][2] < s[y][2])
    BY <1>4, <1>6, <1>8
  <1>10. l \in 0..MaxNodes
    BY <1>1, <1>3, InputAssumption
  <1>11. EdgesGiven \in [1..l -> [source : 0..node_counter, target : 0..node_counter]]
    BY <1>7, <1>8
  <1>12. \A x \in 1..l : EdgesGiven[x].source = s[x][1] /\ EdgesGiven[x].target = s[x][2]
    BY <1>7
  <1> QED BY <1>9, <1>10, <1>11, <1>12
-----------------------------------------------------------------------------
(* create_graph runs on the dicts of the finished tree.                    *)
GivenOK ==
  /\ graph # None => Parsed /\ given_nodes = NodesGiven /\ given_edges = EdgesGiven
  /\ graph = None => given_edges = <<>>

LEMMA GivenStep ==
  ASSUME GivenOK, [PackageNext]_<<vars, builder>>
  PROVE  GivenOK'
  <1>1. UNCHANGED vars => Parsed' = Parsed /\ NodesGiven' = NodesGiven /\ EdgesGiven' = EdgesGiven
    BY DEF vars, Parsed, NodesGiven, NodeOrder, EdgesGiven, EdgeOrder, Inserted, Targets
  <1>2. CASE Parse
    <2>1. ~Parsed
      BY <1>2 DEF Parse, Parsed, Next, Start, Key, EnterDict, EnterList, Item, Leaf, Return,
         Running
    <2> QED BY <1>2, <2>1 DEF Parse, builder, GivenOK
  <1>3. CASE Build
    BY <1>1, <1>3, PackageAssumption DEF Build, Builder!CreateGraph, GivenOK
  <1>4. CASE Fill
    BY <1>1, <1>4 DEF Fill, Builder!AddNode, Builder!AddEdgeRaises, Builder!Fail, Builder!Leave,
       Builder!args, GivenOK
  <1>5. CASE UNCHANGED <<vars, builder>>
    BY <1>1, <1>5 DEF builder, GivenOK
  <1> QED BY <1>2, <1>3, <1>4, <1>5 DEF PackageNext

TreeInv == TInv /\ FirstChildOK /\ AttributesOK

LEMMA PackageInvariance == PackageSpec => [](TreeInv /\ GivenOK)
  <1>1. PackageInit => GivenOK
    BY DEF PackageInit, Builder!Init, GivenOK
  <1>2. Spec => []TreeInv
    BY Invariance, FirstChildCorrect, AttributesCorrect, PTL DEF TreeInv
  <1> QED BY <1>1, <1>2, GivenStep, TreeImplemented, PTL DEF PackageSpec

LEMMA BuilderFits ==
  /\ MaxNodes + 1 \in Nat /\ MaxNodes \in Nat /\ INT_MAX \in Nat
  /\ Nat \subseteq Int /\ None \notin {"graph"} /\ None \notin Int
  /\ MaxNodes + 1 <= Built!UINT_MAX /\ MaxNodes <= INT_MAX + 1
  BY InputAssumption, PackageAssumption DEF Built!UINT_MAX

LEMMA BuiltInvariance == Built!Spec => []Built!HInv
  BY Built!Invariance, BuilderFits

(* The dicts of a finished tree are arguments that create_graph is written *)
(* for.                                                                    *)
LEMMA DictsFit ==
  ASSUME TreeInv, Parsed
  PROVE  \E m \in 0..MaxNodes+1, l \in 0..MaxNodes :
           NodesGiven \in Builder!NodeItems(m) /\ EdgesGiven \in Builder!EdgeItems(m, l)
  <1> DEFINE m == node_counter + 1
             l == Cardinality(edges)
  <1>1. TreeDone
    BY DEF TreeInv, TreeDone
  <1>2. m \in 0..MaxNodes+1 /\ NodesGiven \in Builder!NodeItems(m)
    BY <1>1, NodesSorted, InputAssumption DEF Builder!NodeItems
  <1>3. l \in 0..MaxNodes /\ EdgesGiven \in [1..l -> [source : 0..m-1, target : 0..m-1]]
    <2>1. m - 1 = node_counter
      BY <1>1 DEF TreeDone, TInv, CountersOK
    <2> HIDE DEF m
    <2> QED BY <1>1, <2>1, EdgesSorted
  <1>4. ASSUME NEW x \in 1..l, NEW y \in 1..l, NEW z \in 1..l, x < z, z < y,
               EdgesGiven[x].source = EdgesGiven[y].source
        PROVE  EdgesGiven[z].source = EdgesGiven[x].source
    <2>1. EdgesGiven[x].source <= EdgesGiven[z].source /\ EdgesGiven[z].source <= EdgesGiven[y].source
      <3>1. \A w \in 1..l : EdgesGiven[w].source \in Int
        <4> HIDE DEF l
        <4> QED BY <1>3
      <3>2. \A v, w \in 1..l : v < w =>
              EdgesGiven[v].source < EdgesGiven[w].source \/ EdgesGiven[v].source = EdgesGiven[w].source
        BY <1>1, EdgesSorted
      <3> HIDE DEF l
      <3> QED BY <1>4, <3>1, <3>2
    <2>2. EdgesGiven[x].source \in Int /\ EdgesGiven[z].source \in Int
      <3> HIDE DEF l
      <3> QED BY <1>3
    <2> QED BY <1>4, <2>1, <2>2
  <1>5. EdgesGiven \in Builder!EdgeItems(m, l)
    <2> HIDE DEF l, m
    <2> QED BY <1>3, <1>4 DEF Builder!EdgeItems
  <1> HIDE DEF l, m
  <1> QED BY <1>2, <1>3, <1>5
-----------------------------------------------------------------------------
(* Builder and Built are one specification under two names.                *)
LEMMA SameNext == Builder!Next <=> Built!Next
  BY Zenon
     DEF Builder!Next, Built!Next, Builder!Creates, Built!Creates, Builder!Works,
         Built!Works, Builder!CreateGraph, Built!CreateGraph,
         Builder!AddNode, Built!AddNode, Builder!AddNodeRaises,
         Built!AddNodeRaises, Builder!AddEdge, Built!AddEdge,
         Builder!AddEdgeRaises, Built!AddEdgeRaises, Builder!ReturnGraph,
         Built!ReturnGraph, Builder!FreeGraph, Built!FreeGraph,
         Builder!PrintGraph, Built!PrintGraph, Builder!Match, Built!Match,
         Builder!PrintLine, Built!PrintLine, Builder!PrintNext,
         Built!PrintNext, Builder!PrintReturns, Built!PrintReturns,
         Builder!NodeItems, Built!NodeItems, Builder!EdgeItems,
         Built!EdgeItems, Builder!CUInt, Built!CUInt, Builder!UINT_MAX,
         Built!UINT_MAX, Builder!CellsUninitialised, Built!CellsUninitialised,
         Builder!Idle, Built!Idle, Builder!AddingNodes, Built!AddingNodes,
         Builder!NodesAdded, Built!NodesAdded, Builder!Node, Built!Node,
         Builder!AddingEdges, Built!AddingEdges, Builder!Edge, Built!Edge,
         Builder!CEdge, Built!CEdge, Builder!Leave, Built!Leave, Builder!Fail,
         Built!Fail, Builder!HandOut, Built!HandOut, Builder!HeapKept,
         Built!HeapKept, Builder!CInt, Built!CInt, Builder!Shown, Built!Shown,
         Builder!EdgesLeft, Built!EdgesLeft, Builder!heap, Built!heap, Builder!args,
         Built!args, Builder!creating, Built!creating, Builder!printing,
         Built!printing

LEMMA SameSpec == Builder!Spec <=> Built!Spec
  <1>1. Builder!Init <=> Built!Init
    BY DEF Builder!Init, Built!Init
  <1>2. (UNCHANGED Builder!vars) <=> (UNCHANGED Built!vars)
    BY Zenon
       DEF Builder!vars, Built!vars, Builder!heap, Built!heap, Builder!args,
           Built!args, Builder!creating, Built!creating, Builder!printing,
           Built!printing
  <1>3. [Builder!Next]_(Builder!vars) <=> [Built!Next]_(Built!vars)
    BY <1>2, SameNext, Zenon
  <1> QED BY <1>1, <1>3, PTL DEF Builder!Spec, Built!Spec

(* In the composition, create_graph is called as its own specification     *)
(* says that clients do, whatever the AST: what is proved of GraphBuilder  *)
(* holds for the graphs of syntax trees.                                   *)
THEOREM BuilderImplemented == PackageSpec => Builder!Spec
  <1>1. PackageInit => Builder!Init
    BY DEF PackageInit
  <1>2. TreeInv /\ [PackageNext]_<<vars, builder>> => [Builder!Next]_(Builder!vars)
    <2> SUFFICES ASSUME TreeInv, [PackageNext]_<<vars, builder>>
                 PROVE  Builder!Next \/ UNCHANGED Builder!vars
      OBVIOUS
    <2>1. CASE Build
      BY <2>1, DictsFit, Zenon DEF Build, Builder!Next, Builder!Creates
    <2>2. CASE Fill
      BY <2>2, Zenon DEF Fill, Builder!Next, Builder!Works
    <2>3. CASE UNCHANGED builder
      BY <2>3 DEF builder, Builder!vars, Builder!heap, Builder!creating, Builder!args,
         Builder!printing
    <2> QED BY <2>1, <2>2, <2>3 DEF PackageNext, Parse
  <1> QED BY <1>1, <1>2, PackageInvariance, PTL DEF PackageSpec, Builder!Spec
-----------------------------------------------------------------------------
(* No more attributes are looked up than nodes are made.                   *)
CountedOK == attribute_counter <= IF DOMAIN nodes = {} THEN 0 ELSE node_counter + 1

LEMMA CountedInvariance == Spec => []CountedOK
  <1>1. Init => CountedOK
    BY DEF Init, CountedOK
  <1>2. TInv /\ CountedOK /\ [Next]_vars => CountedOK'
    <2> SUFFICES ASSUME TInv, CountedOK, [Next]_vars PROVE CountedOK'
      OBVIOUS
    <2>1. attribute_counter \in Nat /\ node_counter \in Nat
      BY InputAssumption DEF TInv, CountersOK
    <2>2. \A t : GetAttributeId(t) => attribute_counter' <= attribute_counter + 1
      BY <2>1 DEF GetAttributeId
    <2>3. CASE Start
      <3>1. DOMAIN nodes' # {} /\ node_counter' = 0 /\ attribute_counter' <= 1
        BY <2>1, <2>2, <2>3 DEF Start, Extended, TInv, TreeOK, CountersOK, CountedOK
      <3> QED BY <3>1 DEF CountedOK
    <2>4. ASSUME NEW t, stack # <<>>, Attach(Top.node, t) PROVE CountedOK'
      <3>1. /\ node_counter' = node_counter + 1 /\ DOMAIN nodes' # {} /\ DOMAIN nodes # {}
            /\ attribute_counter' <= attribute_counter + 1
        BY <2>2, <2>4 DEF Attach, FreshId, Extended, TInv, CountersOK
      <3>2. attribute_counter' \in Nat
        BY <2>1, <2>4 DEF Attach, GetAttributeId
      <3> QED BY <2>1, <3>1, <3>2 DEF CountedOK
    <2>5. CASE UNCHANGED <<node_counter, nodes, attributes>>
      BY <2>5 DEF CountedOK, attributes
    <2> QED BY <2>3, <2>4, <2>5
            DEF Next, Key, Leaf, EnterDict, EnterList, Item, Return, Running, vars
  <1> QED BY <1>1, <1>2, Invariance, PTL DEF Spec

(* For every AST, create_graph is called with what it is written for.      *)
THEOREM PreconditionMetCorrect == PackageSpec => []PreconditionMet
  <1>1. TreeInv /\ GivenOK => PreconditionMet
    <2> SUFFICES ASSUME TreeInv, GivenOK, graph # None
                 PROVE  /\ given_nodes \in Builder!NodeItems(Len(given_nodes))
                        /\ given_edges \in Builder!EdgeItems(Len(given_nodes), Len(given_edges))
      BY DEF PreconditionMet
    <2>1. Parsed /\ given_nodes = NodesGiven /\ given_edges = EdgesGiven
      BY DEF GivenOK
    <2>2. PICK m \in 0..MaxNodes+1, l \in 0..MaxNodes :
            NodesGiven \in Builder!NodeItems(m) /\ EdgesGiven \in Builder!EdgeItems(m, l)
      BY <2>1, DictsFit
    <2>3. m \in Nat /\ l \in Nat
      BY InputAssumption
    <2>4. /\ NodesGiven \in [1..m -> [id : 0..m-1, attribute : Nat]]
          /\ EdgesGiven \in [1..l -> [source : 0..m-1, target : 0..m-1]]
      BY <2>2 DEF Builder!NodeItems, Builder!EdgeItems
    <2>5. Len(NodesGiven) = m /\ Len(EdgesGiven) = l
      BY <2>3, <2>4, Built!LenOfFunction, BuilderFits
    <2> QED BY <2>1, <2>2, <2>5
  <1> QED BY <1>1, PackageInvariance, PTL

(* For every AST the edges come in the order of a CSR matrix.              *)
THEOREM CsrOrderCorrect == PackageSpec => []CsrOrder
  <1>1. TreeInv /\ GivenOK => CsrOrder
    <2> SUFFICES ASSUME TreeInv, GivenOK PROVE CsrOrder
      OBVIOUS
    <2>1. CASE graph = None
      BY <2>1 DEF GivenOK, CsrOrder
    <2>2. CASE graph # None
      <3>1. given_edges = EdgesGiven /\ TreeDone
        BY <2>2 DEF GivenOK, TreeInv, TreeDone
      <3>2. DOMAIN EdgesGiven = 1..Cardinality(edges)
        BY <3>1, EdgesSorted
      <3> QED BY <3>1, <3>2, EdgesSorted DEF CsrOrder
    <2> QED BY <2>1, <2>2
  <1> QED BY <1>1, PackageInvariance, PTL

(* For every AST, the ids of process_node are indices of the arrays of     *)
(* create_graph, which ends up with the attribute of every node in its     *)
(* place.                                                                  *)
THEOREM IdsFitArraysCorrect == PackageSpec => []IdsFitArrays
  <1>1. Built!InBounds => Builder!InBounds
    BY Zenon
       DEF Builder!InBounds, Built!InBounds, Builder!AddingNodes, Built!AddingNodes,
           Builder!AddingEdges, Built!AddingEdges, Builder!NodesAdded, Built!NodesAdded,
           Builder!Node, Built!Node, Builder!CUInt, Built!CUInt, Builder!UINT_MAX, Built!UINT_MAX
  <1>2. Built!Spec => []Built!InBounds
    BY Built!InBoundsCorrect, BuilderFits
  <1>3. TreeInv /\ CountedOK /\ GivenOK /\ Built!HInv =>
          (graph # None /\ added = Len(given_nodes) =>
             /\ DOMAIN graph_nodes[graph] = DOMAIN nodes
             /\ \A v \in DOMAIN nodes : graph_nodes[graph][v] = nodes[v])
    <2> SUFFICES ASSUME TreeInv, CountedOK, GivenOK, Built!HInv,
                        graph # None, added = Len(given_nodes)
                 PROVE  /\ DOMAIN graph_nodes[graph] = DOMAIN nodes
                        /\ \A v \in DOMAIN nodes : graph_nodes[graph][v] = nodes[v]
      OBVIOUS
    <2> DEFINE n == node_counter + 1
    <2>1. TreeDone /\ given_nodes = NodesGiven
      BY DEF GivenOK, TreeInv, TreeDone
    <2>2. /\ n \in 1..MaxNodes+1 /\ DOMAIN nodes = 0..n-1
          /\ given_nodes \in [1..n -> [id : 0..n-1, attribute : Nat]]
          /\ \A v \in 0..n-1 : \E x \in 1..n : given_nodes[x].id = v
          /\ \A x \in 1..n : given_nodes[x].attribute = nodes[given_nodes[x].id]
      BY <2>1, NodesSorted
    <2>3. n \in Nat /\ Len(given_nodes) = n
      BY <2>2, InputAssumption, Built!LenOfFunction, BuilderFits
    <2>4. /\ graph_nodes[graph] = [v \in 0..n-1 |-> graph_nodes[graph][v]]
          /\ \A x \in 1..n :
               graph_nodes[graph][given_nodes[x].id] = Built!CUInt(given_nodes[x].attribute)
      BY <2>3 DEF Built!HInv, Built!Parts, Built!NodesFilled
    <2>5. ASSUME NEW v \in 0..n-1
          PROVE  graph_nodes[graph][v] = nodes[v]
      <3>1. PICK x \in 1..n : given_nodes[x].id = v
        BY <2>2
      <3>2. graph_nodes[graph][v] = Built!CUInt(nodes[v])
        BY <2>2, <2>4, <3>1
      <3>3. nodes[v] \in 0..Built!UINT_MAX
        <4>1. nodes[v] \in 0..attribute_counter-1 /\ attribute_counter \in Nat
          BY <2>2 DEF TreeInv, AttributesOK, TInv, CountersOK
        <4>2. attribute_counter <= n
          BY <2>2 DEF CountedOK
        <4> QED BY <2>2, <2>3, <4>1, <4>2, BuilderFits DEF Built!UINT_MAX
      <3>4. Built!CUInt(nodes[v]) = nodes[v]
        BY <3>3, Built!CUIntSmall, BuilderFits
      <3> QED BY <3>2, <3>4
    <2> HIDE DEF n
    <2> QED BY <2>2, <2>4, <2>5
  <1>4. PackageSpec => Built!Spec
    BY BuilderImplemented, SameSpec
  <1>5. TreeInv /\ CountedOK /\ GivenOK /\ Built!HInv /\ Built!InBounds => IdsFitArrays
    BY <1>1, <1>3, Zenon DEF IdsFitArrays
  <1> QED BY <1>2, <1>4, <1>5, BuiltInvariance, PackageInvariance, CountedInvariance,
             TreeImplemented, PTL
=============================================================================

------------------------- MODULE GraphBuilderProofs -------------------------
(***************************************************************************)
(* GraphBuilder for every number of graphs, nodes and edges: ownership and *)
(* ranges, writes in bounds, what is leaked, and the refinement of         *)
(* GraphStore, from which it follows which ids a client can read through   *)
(* the ctypes structures; and what match prints, for graphs of every size  *)
(* that print_graph can count.                                             *)
(***************************************************************************)
EXTENDS GraphBuilder, SequenceTheorems, TLAPS

HeapTyped == DOMAIN graph_nodes = Graphs /\ DOMAIN graph_edges = Graphs

ArgsOK == graph # None =>
  \E m \in 0..MaxNodes, l \in 0..MaxEdges :
    nodes \in NodeItems(m) /\ edges \in EdgeItems(m, l)

(* The arrays have a cell for each item, and those of the items already    *)
(* added are written.                                                      *)
NodesFilled == graph # None =>
  /\ graph_nodes[graph] = [v \in 0..Len(nodes)-1 |-> graph_nodes[graph][v]]
  /\ \A x \in 1..added : graph_nodes[graph][nodes[x].id] = CUInt(nodes[x].attribute)

EdgesFilled == graph # None =>
  /\ graph_edges[graph] = [c \in 0..Len(edges)-1 |-> graph_edges[graph][c]]
  /\ \A c \in 0..edges_counter-1 : graph_edges[graph][c] = CEdge(edges[c + 1])

HeldFinished == \A g \in held : \E in \in Inputs : Contents(g) = Made(in)

Parts == HeapTyped /\ ArgsOK /\ NodesFilled /\ EdgesFilled /\ HeldFinished

HInv == TypeOK /\ LeakedByRaises /\ Parts
-----------------------------------------------------------------------------
LEMMA CUIntSmall ==
  ASSUME NEW v \in 0..UINT_MAX
  PROVE  CUInt(v) = v
  <1>1. UINT_MAX \in Nat
    BY InputAssumption DEF UINT_MAX
  <1> HIDE DEF UINT_MAX
  <1> QED BY <1>1 DEF CUInt

LEMMA LenOfFunction ==
  ASSUME NEW S, NEW m \in Nat, NEW f \in [1..m -> S]
  PROVE  Len(f) = m
  <1>1. f \in Seq(S)
    BY SeqDef
  <1>2. Len(f) \in Nat /\ 1..Len(f) = 1..m
    BY <1>1, LenProperties
  <1> QED BY <1>2

(* The arguments of a running create_graph.                                *)
LEMMA ArgFacts ==
  ASSUME ArgsOK, graph # None
  PROVE  /\ Len(nodes) \in 0..MaxNodes /\ Len(edges) \in 0..MaxEdges
         /\ nodes \in [1..Len(nodes) -> [id : 0..Len(nodes)-1, attribute : Attributes]]
         /\ \A x, y \in 1..Len(nodes) : nodes[x].id = nodes[y].id => x = y
         /\ \A v \in 0..Len(nodes)-1 : \E x \in 1..Len(nodes) : nodes[x].id = v
         /\ edges \in [1..Len(edges) -> [source : 0..Len(nodes)-1, target : 0..Len(nodes)-1]]
         /\ args \in Inputs
  <1>1. PICK m \in 0..MaxNodes, l \in 0..MaxEdges :
          nodes \in NodeItems(m) /\ edges \in EdgeItems(m, l)
    BY DEF ArgsOK
  <1>2. m \in Nat /\ l \in Nat
    BY InputAssumption
  <1>3. /\ nodes \in [1..m -> [id : 0..m-1, attribute : Attributes]]
        /\ edges \in [1..l -> [source : 0..m-1, target : 0..m-1]]
    BY <1>1 DEF NodeItems, EdgeItems
  <1>4. Len(nodes) = m /\ Len(edges) = l
    BY <1>2, <1>3, LenOfFunction
  <1>5. args \in Inputs
    <2>1. args \in NodeItems(m) \X EdgeItems(m, l)
      BY <1>1 DEF args
    <2> DEFINE S == {NodeItems(a) \X EdgeItems(a, b) : a \in 0..MaxNodes, b \in 0..MaxEdges}
    <2>2. NodeItems(m) \X EdgeItems(m, l) \in S
      OBVIOUS
    <2>3. Inputs = UNION S
      BY DEF Inputs
    <2> HIDE DEF S
    <2> QED BY <2>1, <2>2, <2>3
  <1>6. /\ \A x, y \in 1..m : nodes[x].id = nodes[y].id => x = y
        /\ \A v \in 0..m-1 : \E x \in 1..m : nodes[x].id = v
    BY <1>1 DEF NodeItems
  <1> QED BY <1>3, <1>4, <1>5, <1>6
-----------------------------------------------------------------------------
(* Steps of match and print_graph change none of the graphs.               *)
Prints ==
  \/ \E g \in Graphs : PrintGraph(g)
  \/ \E g, p \in Graphs : Match(g, p)
  \/ PrintLine \/ PrintNext \/ PrintReturns \/ UNCHANGED vars

CreatesAny ==
  \E m \in 0..MaxNodes, l \in 0..MaxEdges :
    \E ns \in NodeItems(m), es \in EdgeItems(m, l) : CreateGraph(ns, es)

Fails == AddNodeRaises \/ AddEdgeRaises

LEMMA Steps ==
  ASSUME [Next]_vars
  PROVE  \/ CreatesAny \/ AddNode \/ AddEdge \/ Fails \/ ReturnGraph
         \/ (\E g \in Graphs : FreeGraph(g))
         \/ Prints
  BY Zenon DEF Next, Works, Creates, CreatesAny, Fails, Prints

LEMMA PrintsQuiet ==
  ASSUME Prints
  PROVE  UNCHANGED <<heap, held, creating, raised>>
  BY DEF Prints, PrintGraph, Match, PrintLine, PrintNext, PrintReturns, vars, printing
-----------------------------------------------------------------------------
Owners ==
  /\ live \subseteq Graphs /\ held \subseteq live /\ graph \in (live \ held) \cup {None}

Counters == added \in 0..Len(nodes) /\ edges_counter \in 0..Len(edges)

Shows == {<<>>} \cup {<<g>> : g \in held} \cup {<<g, p>> : g, p \in held}

LEMMA TypeParts ==
  TypeOK <=> Owners /\ Counters /\ raised \subseteq live /\ shown \in Shows
  BY DEF TypeOK, Owners, Counters, Shows

LEMMA OwnersStep ==
  ASSUME Owners, [Next]_vars
  PROVE  Owners'
  <1>1. CASE CreatesAny
    BY <1>1 DEF CreatesAny, CreateGraph, Owners, Idle
  <1>2. CASE AddNode \/ AddEdge
    BY <1>2 DEF AddNode, AddEdge, Owners
  <1>3. CASE Fails
    BY <1>3 DEF Fails, AddNodeRaises, AddEdgeRaises, Fail, Leave, Owners, heap
  <1>4. CASE ReturnGraph
    BY <1>4 DEF ReturnGraph, HeapKept, HandOut, Leave, Owners, heap
  <1>5. CASE \E g \in Graphs : FreeGraph(g)
    BY <1>5 DEF FreeGraph, Owners, Idle, creating
  <1>6. CASE Prints
    BY <1>6, PrintsQuiet DEF Owners, heap, creating
  <1> QED BY <1>1, <1>2, <1>3, <1>4, <1>5, <1>6, Steps

LEMMA CountersStep ==
  ASSUME Counters, ArgsOK, [Next]_vars
  PROVE  Counters'
  <1>1. CASE CreatesAny
    <2>1. PICK m \in 0..MaxNodes, l \in 0..MaxEdges :
            \E ns \in NodeItems(m), es \in EdgeItems(m, l) : CreateGraph(ns, es)
      BY <1>1 DEF CreatesAny
    <2>2. PICK ns \in NodeItems(m), es \in EdgeItems(m, l) : CreateGraph(ns, es)
      BY <2>1
    <2>3. Len(ns) = m /\ Len(es) = l /\ m \in Nat /\ l \in Nat
      BY InputAssumption, LenOfFunction DEF NodeItems, EdgeItems
    <2> QED BY <2>2, <2>3 DEF CreateGraph, Counters
  <1>2. CASE AddNode
    <2>1. Len(nodes) \in Nat
      BY <1>2, ArgFacts, InputAssumption DEF AddNode, AddingNodes
    <2> QED BY <1>2, <2>1 DEF AddNode, AddingNodes, Counters, args
  <1>3. CASE AddEdge
    <2>1. Len(edges) \in Nat
      BY <1>3, ArgFacts, InputAssumption DEF AddEdge, AddingEdges
    <2> QED BY <1>3, <2>1 DEF AddEdge, AddingEdges, Counters, args
  <1>4. CASE Fails \/ ReturnGraph
    <2>1. Leave
      BY <1>4 DEF Fails, AddNodeRaises, AddEdgeRaises, Fail, ReturnGraph, HeapKept
    <2> QED BY <2>1 DEF Leave, Counters
  <1>5. CASE \E g \in Graphs : FreeGraph(g)
    BY <1>5 DEF FreeGraph, Counters, creating, args
  <1>6. CASE Prints
    BY <1>6, PrintsQuiet DEF Counters, creating, args
  <1> QED BY <1>1, <1>2, <1>3, <1>4, <1>5, <1>6, Steps

LEMMA ShowsStep ==
  ASSUME shown \in Shows, [Next]_vars
  PROVE  shown' \in Shows'
  <1>1. CASE CreatesAny \/ AddNode \/ AddEdge \/ Fails
    <2>1. UNCHANGED <<held, shown>>
      BY <1>1 DEF CreatesAny, CreateGraph, AddNode, AddEdge, Fails, AddNodeRaises,
         AddEdgeRaises, Fail, printing
    <2> QED BY <2>1 DEF Shows
  <1>2. CASE ReturnGraph
    <2>1. held \subseteq held' /\ UNCHANGED shown
      BY <1>2 DEF ReturnGraph, HeapKept, HandOut, printing
    <2> QED BY <2>1 DEF Shows
  <1>3. CASE \E g \in Graphs : FreeGraph(g)
    BY <1>3 DEF FreeGraph, Idle, printing, Shows
  <1>4. CASE Prints
    <2>1. UNCHANGED held
      BY <1>4, PrintsQuiet
    <2>2. \/ shown' = shown \/ shown' = <<>>
          \/ \E g \in held : shown' = <<g>>
          \/ \E g, p \in held : shown' = <<g, p>>
      BY <1>4 DEF Prints, PrintGraph, Match, PrintLine, PrintNext, PrintReturns, vars, printing
    <2> QED BY <2>1, <2>2 DEF Shows
  <1> QED BY <1>1, <1>2, <1>3, <1>4, Steps

(* A call that raises leaves a graph that nobody owns, no other step does, *)
(* and none takes such a graph off the heap.                               *)
LEMMA LeakedStep ==
  ASSUME Owners, LeakedByRaises, [Next]_vars
  PROVE  LeakedByRaises'
  <1>1. CASE CreatesAny
    <2>1. /\ graph = None /\ graph' \notin live /\ live' = live \cup {graph'}
          /\ UNCHANGED <<held, raised>>
      BY <1>1 DEF CreatesAny, CreateGraph, Idle
    <2>2. None \notin live
      BY InputAssumption DEF Owners
    <2> QED BY <2>1, <2>2, Zenon DEF LeakedByRaises
  <1>2. CASE AddNode \/ AddEdge
    BY <1>2 DEF AddNode, AddEdge, LeakedByRaises
  <1>3. CASE Fails
    <2>1. /\ graph # None /\ graph' = None /\ raised' = raised \cup {graph}
          /\ UNCHANGED <<live, held>>
      BY <1>3 DEF Fails, AddNodeRaises, AddEdgeRaises, AddingNodes, AddingEdges, Fail, Leave,
         heap
    <2>2. graph \in live \ held /\ None \notin live
      BY <2>1, InputAssumption DEF Owners
    <2> QED BY <2>1, <2>2, Zenon DEF LeakedByRaises
  <1>4. CASE ReturnGraph
    <2>1. /\ graph # None /\ graph' = None /\ held' = held \cup {graph}
          /\ UNCHANGED <<live, raised>>
      BY <1>4 DEF ReturnGraph, HeapKept, HandOut, HeapKept, Leave, heap
    <2>2. None \notin live
      BY InputAssumption DEF Owners
    <2> QED BY <2>1, <2>2, Zenon DEF LeakedByRaises
  <1>5. CASE \E g \in Graphs : FreeGraph(g)
    BY <1>5 DEF FreeGraph, LeakedByRaises, creating
  <1>6. CASE Prints
    BY <1>6, PrintsQuiet DEF LeakedByRaises, heap, creating
  <1> QED BY <1>1, <1>2, <1>3, <1>4, <1>5, <1>6, Steps

LEMMA TypeStep ==
  TypeOK /\ LeakedByRaises /\ ArgsOK /\ [Next]_vars => (TypeOK /\ LeakedByRaises)'
  <1> SUFFICES ASSUME TypeOK, LeakedByRaises, ArgsOK, [Next]_vars
               PROVE  TypeOK' /\ LeakedByRaises'
    OBVIOUS
  <1>1. Owners /\ Counters /\ raised \subseteq live /\ shown \in Shows
    BY TypeParts, Zenon
  <1>2. Owners' /\ Counters' /\ LeakedByRaises' /\ shown' \in Shows'
    BY <1>1, OwnersStep, CountersStep, LeakedStep, ShowsStep, Zenon
  <1>3. raised' \subseteq live'
    BY <1>2, Zenon DEF LeakedByRaises
  <1> QED BY <1>2, <1>3 DEF TypeOK, Owners, Counters, Shows
-----------------------------------------------------------------------------
LEMMA HeapTypedStep ==
  ASSUME HeapTyped, [Next]_vars
  PROVE  HeapTyped'
  <1>1. CASE CreatesAny \/ AddNode \/ AddEdge \/ \E g \in Graphs : FreeGraph(g)
    BY <1>1 DEF CreatesAny, CreateGraph, AddNode, AddEdge, FreeGraph, HeapTyped
  <1>2. CASE Fails \/ ReturnGraph \/ Prints
    <2>1. UNCHANGED heap
      BY <1>2, PrintsQuiet DEF Fails, AddNodeRaises, AddEdgeRaises, Fail, ReturnGraph, HeapKept
    <2> QED BY <2>1 DEF HeapTyped, heap
  <1> QED BY <1>1, <1>2, Steps

LEMMA ArgsStep ==
  ASSUME ArgsOK, [Next]_vars
  PROVE  ArgsOK'
  <1>1. CASE CreatesAny
    BY <1>1 DEF CreatesAny, CreateGraph, ArgsOK
  <1>2. CASE Fails \/ ReturnGraph
    BY <1>2 DEF Fails, AddNodeRaises, AddEdgeRaises, Fail, ReturnGraph, HeapKept, Leave, ArgsOK
  <1>3. CASE AddNode \/ AddEdge \/ Prints \/ \E g \in Graphs : FreeGraph(g)
    <2>1. UNCHANGED <<graph, args>>
      BY <1>3, PrintsQuiet DEF AddNode, AddEdge, FreeGraph, creating
    <2> QED BY <2>1 DEF ArgsOK, args
  <1> QED BY <1>1, <1>2, <1>3, Steps

(* Every cell is there, and none is written, when the loops begin.         *)
LEMMA CreateFills ==
  ASSUME HeapTyped, CreatesAny
  PROVE  NodesFilled' /\ EdgesFilled'
  <1>1. PICK m \in 0..MaxNodes, l \in 0..MaxEdges :
          \E ns \in NodeItems(m), es \in EdgeItems(m, l) : CreateGraph(ns, es)
    BY DEF CreatesAny
  <1>2. PICK ns \in NodeItems(m), es \in EdgeItems(m, l) : CreateGraph(ns, es)
    BY <1>1
  <1>3. Len(ns) = m /\ Len(es) = l /\ m \in Nat /\ l \in Nat
    BY InputAssumption, LenOfFunction DEF NodeItems, EdgeItems
  <1>4. m \in 0..UINT_MAX /\ l \in 0..UINT_MAX
    BY <1>3, InputAssumption, FitsAssumption DEF UINT_MAX
  <1>5. CUInt(m) = m /\ CUInt(l) = l
    BY <1>4, CUIntSmall
  <1>6. /\ graph' \in Graphs /\ nodes' = ns /\ edges' = es /\ added' = 0 /\ edges_counter' = 0
        /\ graph_nodes' = [graph_nodes EXCEPT ![graph'] = CellsUninitialised(m)]
        /\ graph_edges' = [graph_edges EXCEPT ![graph'] = CellsUninitialised(l)]
    BY <1>2, <1>3, <1>5 DEF CreateGraph
  <1>7. /\ graph_nodes'[graph'] = [c \in 0..m-1 |-> None]
        /\ graph_edges'[graph'] = [c \in 0..l-1 |-> None]
    BY <1>6 DEF HeapTyped, CellsUninitialised
  <1>8. NodesFilled'
    <2>1. graph_nodes'[graph'] = [v \in 0..m-1 |-> graph_nodes'[graph'][v]]
      BY <1>7, Zenon
    <2>2. Len(nodes') = m /\ 1..added' = {}
      BY <1>3, <1>6
    <2> QED BY <2>1, <2>2, Zenon DEF NodesFilled
  <1>9. EdgesFilled'
    <2>1. graph_edges'[graph'] = [c \in 0..l-1 |-> graph_edges'[graph'][c]]
      BY <1>7, Zenon
    <2>2. Len(edges') = l /\ 0..edges_counter'-1 = {}
      BY <1>3, <1>6
    <2> QED BY <2>1, <2>2, Zenon DEF EdgesFilled
  <1> QED BY <1>8, <1>9

(* The next item, and that its index is that of a cell.                    *)
LEMMA NodeIndex ==
  ASSUME ArgsOK, NodesFilled, Counters, AddingNodes
  PROVE  /\ added + 1 \in 1..Len(nodes) /\ Node.id \in 0..Len(nodes)-1
         /\ CUInt(Node.id) = Node.id /\ Node.id \in DOMAIN graph_nodes[graph]
  <1>1. /\ graph # None /\ added + 1 \in 1..Len(nodes)
    BY ArgFacts, InputAssumption DEF AddingNodes, Counters
  <1>2. Node.id \in 0..Len(nodes)-1
    BY <1>1, ArgFacts DEF Node
  <1>3. Node.id \in 0..UINT_MAX
    BY <1>1, <1>2, ArgFacts, InputAssumption, FitsAssumption DEF UINT_MAX
  <1>4. DOMAIN graph_nodes[graph] = 0..Len(nodes)-1
    BY <1>1 DEF NodesFilled
  <1> QED BY <1>1, <1>2, <1>3, <1>4, CUIntSmall

LEMMA EdgeIndex ==
  ASSUME ArgsOK, EdgesFilled, Counters, AddingEdges
  PROVE  /\ edges_counter \in 0..Len(edges)-1
         /\ CUInt(edges_counter) = edges_counter /\ edges_counter \in DOMAIN graph_edges[graph]
  <1>1. /\ graph # None /\ edges_counter \in 0..Len(edges)-1
    BY ArgFacts, InputAssumption DEF AddingEdges, Counters
  <1>2. edges_counter \in 0..UINT_MAX
    BY <1>1, ArgFacts, InputAssumption, FitsAssumption DEF UINT_MAX
  <1>3. DOMAIN graph_edges[graph] = 0..Len(edges)-1
    BY <1>1 DEF EdgesFilled
  <1> QED BY <1>1, <1>2, <1>3, CUIntSmall

LEMMA AddNodeFills ==
  ASSUME Owners, Counters, HeapTyped, ArgsOK, NodesFilled, AddNode
  PROVE  NodesFilled'
  <1>1. graph # None /\ graph \in Graphs /\ AddingNodes
    BY DEF AddNode, AddingNodes, Owners
  <1> DEFINE A == graph_nodes[graph]
             id == Node.id
             attribute == CUInt(Node.attribute)
  <1>2. /\ added + 1 \in 1..Len(nodes) /\ id \in 0..Len(nodes)-1 /\ CUInt(Node.id) = id
    BY <1>1, NodeIndex
  <1>3. /\ A = [v \in 0..Len(nodes)-1 |-> A[v]]
        /\ \A x \in 1..added : A[nodes[x].id] = CUInt(nodes[x].attribute)
    BY <1>1 DEF NodesFilled
  <1>4. graph_nodes'[graph] = [A EXCEPT ![id] = attribute]
    BY <1>1, <1>2 DEF AddNode, HeapTyped
  <1>5. UNCHANGED <<graph, nodes>> /\ added' = added + 1
    BY DEF AddNode, args
  <1>6. /\ graph_nodes'[graph] = [v \in 0..Len(nodes)-1 |-> graph_nodes'[graph][v]]
        /\ \A v \in 0..Len(nodes)-1 : graph_nodes'[graph][v] = IF v = id THEN attribute ELSE A[v]
    <2> HIDE DEF A, id, attribute
    <2> QED BY <1>2, <1>3, <1>4
  <1>7. ASSUME NEW x \in 1..added+1
        PROVE  graph_nodes'[graph][nodes[x].id] = CUInt(nodes[x].attribute)
    <2>1. x \in 1..Len(nodes) /\ nodes[x].id \in 0..Len(nodes)-1
      <3>1. added \in Nat /\ Len(nodes) \in Nat
        BY <1>1, ArgFacts, InputAssumption DEF Counters
      <3>2. x \in 1..Len(nodes)
        BY <1>2, <3>1
      <3> QED BY <1>1, <3>2, ArgFacts
    <2>2. CASE x = added + 1
      BY <1>2, <1>6, <2>2 DEF Node
    <2>3. CASE x # added + 1
      <3>1. nodes[x].id # id
        BY <1>1, <1>2, <2>1, <2>3, ArgFacts DEF Node
      <3>2. x \in 1..added
        BY <1>1, <2>3, ArgFacts, InputAssumption DEF Counters
      <3> HIDE DEF A, id, attribute
      <3> QED BY <1>3, <1>6, <2>1, <3>1, <3>2
    <2> QED BY <2>2, <2>3
  <1> HIDE DEF A, id, attribute
  <1> QED BY <1>5, <1>6, <1>7 DEF NodesFilled

LEMMA AddEdgeFills ==
  ASSUME Owners, Counters, HeapTyped, ArgsOK, EdgesFilled, AddEdge
  PROVE  EdgesFilled'
  <1>1. graph # None /\ graph \in Graphs /\ AddingEdges
    BY DEF AddEdge, AddingEdges, Owners
  <1> DEFINE A == graph_edges[graph]
             c == edges_counter
             cell == CEdge(Edge)
  <1>2. c \in 0..Len(edges)-1 /\ CUInt(edges_counter) = c /\ Len(edges) \in Nat
    BY <1>1, EdgeIndex, ArgFacts, InputAssumption
  <1>3. /\ A = [v \in 0..Len(edges)-1 |-> A[v]]
        /\ \A v \in 0..c-1 : A[v] = CEdge(edges[v + 1])
    BY <1>1 DEF EdgesFilled
  <1>4. graph_edges'[graph] = [A EXCEPT ![c] = cell]
    BY <1>1, <1>2 DEF AddEdge, HeapTyped
  <1>5. UNCHANGED <<graph, edges>> /\ edges_counter' = c + 1
    BY DEF AddEdge, args
  <1>6. /\ graph_edges'[graph] = [v \in 0..Len(edges)-1 |-> graph_edges'[graph][v]]
        /\ \A v \in 0..Len(edges)-1 : graph_edges'[graph][v] = IF v = c THEN cell ELSE A[v]
    <2> HIDE DEF A, c, cell
    <2> QED BY <1>2, <1>3, <1>4
  <1>7. ASSUME NEW v \in 0..c
        PROVE  graph_edges'[graph][v] = CEdge(edges[v + 1])
    <2>1. v \in 0..Len(edges)-1 /\ (v = c \/ v \in 0..c-1)
      BY <1>2
    <2>2. CASE v = c
      BY <1>6, <2>1, <2>2 DEF Edge
    <2>3. CASE v \in 0..c-1
      <3>1. v # c
        BY <1>2, <2>3
      <3> HIDE DEF A, c, cell
      <3> QED BY <1>3, <1>6, <2>1, <2>3, <3>1
    <2> QED BY <2>1, <2>2, <2>3
  <1>8. 0..edges_counter'-1 = 0..c
    BY <1>2, <1>5
  <1> HIDE DEF A, c, cell
  <1> QED BY <1>5, <1>6, <1>7, <1>8 DEF EdgesFilled

LEMMA FilledStep ==
  ASSUME Owners, Counters, HeapTyped, ArgsOK, NodesFilled, EdgesFilled, [Next]_vars
  PROVE  NodesFilled' /\ EdgesFilled'
  <1>1. CASE CreatesAny
    BY <1>1, CreateFills
  <1>2. CASE AddNode
    <2>1. EdgesFilled'
      BY <1>2 DEF AddNode, EdgesFilled, args
    <2> QED BY <1>2, <2>1, AddNodeFills
  <1>3. CASE AddEdge
    <2>1. NodesFilled'
      BY <1>3 DEF AddEdge, NodesFilled, args
    <2> QED BY <1>3, <2>1, AddEdgeFills
  <1>4. CASE Fails \/ ReturnGraph \/ \E g \in Graphs : FreeGraph(g)
    <2>1. graph' = None
      BY <1>4 DEF Fails, AddNodeRaises, AddEdgeRaises, Fail, ReturnGraph, Leave, FreeGraph, Idle,
         creating
    <2> QED BY <2>1 DEF NodesFilled, EdgesFilled
  <1>5. CASE Prints
    BY <1>5, PrintsQuiet DEF NodesFilled, EdgesFilled, heap, creating, args
  <1> QED BY <1>1, <1>2, <1>3, <1>4, <1>5, Steps
-----------------------------------------------------------------------------
(* A graph that was handed out is changed by no step: create_graph fills   *)
(* another one, and a new one gets an address that is free.                *)
LEMMA HeldFrame ==
  ASSUME Owners, HeapTyped, [Next]_vars, NEW g \in held, g \in held'
  PROVE  Contents(g)' = Contents(g)
  <1>1. g \in Graphs /\ g \in live /\ g # graph
    BY InputAssumption DEF Owners
  <1>2. CASE CreatesAny
    <2>1. PICK m \in 0..MaxNodes, l \in 0..MaxEdges :
            \E ns \in NodeItems(m), es \in EdgeItems(m, l) : CreateGraph(ns, es)
      BY <1>2 DEF CreatesAny
    <2>2. PICK ns \in NodeItems(m), es \in EdgeItems(m, l) : CreateGraph(ns, es)
      BY <2>1
    <2>3. g # graph'
      BY <1>1, <2>2 DEF CreateGraph
    <2>4. graph_nodes'[g] = graph_nodes[g] /\ graph_edges'[g] = graph_edges[g]
      BY <1>1, <2>2, <2>3 DEF CreateGraph, HeapTyped
    <2> QED BY <2>4 DEF Contents
  <1>3. CASE AddNode \/ AddEdge
    <2>1. graph_nodes'[g] = graph_nodes[g] /\ graph_edges'[g] = graph_edges[g]
      BY <1>1, <1>3 DEF AddNode, AddEdge, HeapTyped
    <2> QED BY <2>1 DEF Contents
  <1>4. CASE Fails \/ ReturnGraph \/ Prints
    <2>1. UNCHANGED heap
      BY <1>4, PrintsQuiet DEF Fails, AddNodeRaises, AddEdgeRaises, Fail, ReturnGraph, HeapKept
    <2> QED BY <2>1 DEF Contents, heap
  <1>5. CASE \E h \in Graphs : FreeGraph(h)
    <2>1. PICK h \in Graphs : FreeGraph(h)
      BY <1>5
    <2>2. g # h
      BY <2>1 DEF FreeGraph
    <2>3. graph_nodes'[g] = graph_nodes[g] /\ graph_edges'[g] = graph_edges[g]
      BY <1>1, <2>1, <2>2 DEF FreeGraph, HeapTyped
    <2> QED BY <2>3 DEF Contents
  <1> QED BY <1>2, <1>3, <1>4, <1>5, Steps

(* When the loops are over, the graph is the one its arguments stand for.  *)
LEMMA FinishedNow ==
  ASSUME ArgsOK, NodesFilled, EdgesFilled, Counters, graph # None,
         NodesAdded, edges_counter >= Len(edges)
  PROVE  Contents(graph) = Made(args) /\ args \in Inputs
  <1>1. /\ Len(nodes) \in Nat /\ Len(edges) \in Nat /\ args \in Inputs
        /\ \A v \in 0..Len(nodes)-1 : \E x \in 1..Len(nodes) : nodes[x].id = v
    BY ArgFacts, InputAssumption
  <1>2. added = Len(nodes) /\ edges_counter = Len(edges)
    BY <1>1 DEF NodesAdded, Counters
  <1>3. args[1] = nodes /\ args[2] = edges
    BY DEF args
  <1> DEFINE writer(v) == CHOOSE x \in 1..Len(nodes) : nodes[x].id = v
  <1>4. \A v \in 0..Len(nodes)-1 :
          graph_nodes[graph][v] = CUInt(nodes[writer(v)].attribute)
    <2> TAKE v \in 0..Len(nodes)-1
    <2>1. writer(v) \in 1..Len(nodes) /\ nodes[writer(v)].id = v
      <3>1. \E x \in 1..Len(nodes) : nodes[x].id = v
        BY <1>1
      <3> QED BY <3>1, Zenon
    <2> HIDE DEF writer
    <2> QED BY <1>2, <2>1 DEF NodesFilled
  <1>5. graph_nodes[graph] = [v \in 0..Len(nodes)-1 |-> CUInt(nodes[writer(v)].attribute)]
    <2>1. graph_nodes[graph] = [v \in 0..Len(nodes)-1 |-> graph_nodes[graph][v]]
      BY DEF NodesFilled
    <2> HIDE DEF writer
    <2> QED BY <1>4, <2>1
  <1>6. graph_edges[graph] = [c \in 0..Len(edges)-1 |-> CEdge(edges[c + 1])]
    <2>1. /\ graph_edges[graph] = [c \in 0..Len(edges)-1 |-> graph_edges[graph][c]]
          /\ \A c \in 0..Len(edges)-1 : graph_edges[graph][c] = CEdge(edges[c + 1])
      BY <1>2 DEF EdgesFilled
    <2> QED BY <2>1
  <1>7. Contents(graph) = [nodes |-> NodeArray(nodes), edges |-> EdgeArray(edges)]
    BY <1>5, <1>6, Zenon DEF Contents, NodeArray, EdgeArray
  <1>8. Made(args) = [nodes |-> NodeArray(nodes), edges |-> EdgeArray(edges)]
    BY <1>3, Zenon DEF Made
  <1> QED BY <1>1, <1>7, <1>8, Zenon

LEMMA HeldStep ==
  ASSUME TypeOK, Parts, [Next]_vars
  PROVE  HeldFinished'
  <1>1. Owners /\ Counters
    BY DEF TypeOK, Owners, Counters
  <1>2. HeapTyped /\ ArgsOK /\ NodesFilled /\ EdgesFilled /\ HeldFinished
    BY DEF Parts
  <1>3. ASSUME NEW g \in held', g \in held
        PROVE  \E in \in Inputs : Contents(g)' = Made(in)
    BY <1>1, <1>2, <1>3, HeldFrame DEF HeldFinished
  <1>4. ASSUME NEW g \in held', g \notin held
        PROVE  \E in \in Inputs : Contents(g)' = Made(in)
    <2>1. ReturnGraph /\ g = graph
      BY <1>4, Steps, PrintsQuiet DEF CreatesAny, CreateGraph, AddNode, AddEdge, Fails,
         AddNodeRaises, AddEdgeRaises, Fail, ReturnGraph, HeapKept, HandOut, FreeGraph
    <2>2. Contents(graph) = Made(args) /\ args \in Inputs
      BY <1>1, <1>2, <2>1, FinishedNow DEF ReturnGraph, HeapKept
    <2>3. Contents(g)' = Contents(graph)
      BY <2>1 DEF Contents, ReturnGraph, HeapKept, heap
    <2> QED BY <2>2, <2>3
  <1>5. ASSUME NEW g \in held'
        PROVE  \E in \in Inputs : Contents(g)' = Made(in)
    BY <1>3, <1>4, Zenon
  <1> QED BY <1>5, Zenon DEF HeldFinished
-----------------------------------------------------------------------------
LEMMA InitHInv == Init => HInv
  <1> SUFFICES ASSUME Init PROVE HInv
    OBVIOUS
  <1>1. TypeOK
    <2>1. Owners /\ shown \in Shows
      BY DEF Init, Owners, Shows
    <2>2. Counters
      BY DEF Init, Counters
    <2>3. raised \subseteq live
      BY DEF Init
    <2> QED BY <2>1, <2>2, <2>3 DEF TypeOK, Owners, Counters, Shows
  <1>2. Parts
    BY DEF Init, Parts, HeapTyped, ArgsOK, NodesFilled, EdgesFilled, HeldFinished
  <1>3. LeakedByRaises
    BY DEF Init, LeakedByRaises
  <1> QED BY <1>1, <1>2, <1>3 DEF HInv

LEMMA NextHInv == HInv /\ [Next]_vars => HInv'
  <1> SUFFICES ASSUME HInv, [Next]_vars PROVE HInv'
    OBVIOUS
  <1>1. TypeOK /\ LeakedByRaises /\ Parts /\ Owners /\ Counters
    BY DEF HInv, TypeOK, Owners, Counters
  <1>2. HeapTyped /\ ArgsOK /\ NodesFilled /\ EdgesFilled
    BY <1>1 DEF Parts
  <1>3. TypeOK' /\ LeakedByRaises'
    BY <1>1, <1>2, TypeStep
  <1>4. HeapTyped' /\ ArgsOK' /\ NodesFilled' /\ EdgesFilled'
    BY <1>1, <1>2, HeapTypedStep, ArgsStep, FilledStep
  <1>5. HeldFinished'
    BY <1>1, HeldStep
  <1> QED BY <1>3, <1>4, <1>5 DEF HInv, Parts

LEMMA Invariance == Spec => []HInv
  BY InitHInv, NextHInv, PTL DEF Spec

(* Counters are in range, and neither create_graph nor match nor           *)
(* print_graph ever takes off the heap a graph that was handed out: only   *)
(* free_graph, called for it, does.  Nothing is said of pointers that a    *)
(* client keeps after that call.                                           *)
THEOREM TypeCorrect == Spec => []TypeOK
  BY Invariance, PTL DEF HInv

(* For inputs of every size that fits the C types, no call of add_node or  *)
(* add_edge writes outside the arrays.                                     *)
THEOREM InBoundsCorrect == Spec => []InBounds
  <1>1. HInv => InBounds
    <2> SUFFICES ASSUME HInv PROVE InBounds
      OBVIOUS
    <2>1. ArgsOK /\ NodesFilled /\ EdgesFilled /\ Counters
      BY DEF HInv, Parts, TypeOK, Counters
    <2> QED BY <2>1, NodeIndex, EdgeIndex DEF InBounds
  <1> QED BY <1>1, Invariance, PTL

(* After any sequence of calls, what no pointer leads to any more is what  *)
(* the calls that raised were filling, no more and no less.                *)
THEOREM LeakedByRaisesCorrect == Spec => []LeakedByRaises
  BY Invariance, PTL DEF HInv

(* In every graph, of any attributes and any size that malloc_graph takes, *)
(* an end of an edge read through c_int is the id of its node up to        *)
(* INT_MAX, and above it the id of none.                                   *)
THEOREM EdgesLeadToNodesCorrect == Spec => []EdgesLeadToNodes
  <1>1. HInv => EdgesLeadToNodes
    <2> SUFFICES ASSUME HInv, NEW g \in held, NEW c \in DOMAIN graph_edges[g],
                        NEW v \in {graph_edges[g][c].source, graph_edges[g][c].target}
                 PROVE  /\ v \in DOMAIN graph_nodes[g]
                        /\ IF v <= INT_MAX THEN CInt(v) = v
                                          ELSE CInt(v) \notin DOMAIN graph_nodes[g]
      BY Zenon DEF EdgesLeadToNodes
    <2>1. PICK in \in Inputs : Contents(g) = Made(in)
      BY DEF HInv, Parts, HeldFinished
    <2>2. graph_nodes[g] = NodeArray(in[1]) /\ graph_edges[g] = EdgeArray(in[2])
      BY <2>1 DEF Contents, Made
    <2>3. PICK m \in 0..MaxNodes, l \in 0..MaxEdges : in \in NodeItems(m) \X EdgeItems(m, l)
      BY DEF Inputs
    <2>4. /\ in[1] \in NodeItems(m) /\ in[2] \in EdgeItems(m, l)
      BY <2>3
    <2>5. /\ m \in Nat /\ l \in Nat /\ Len(in[1]) = m /\ Len(in[2]) = l
          /\ in[2] \in [1..l -> [source : 0..m-1, target : 0..m-1]]
      BY <2>4, InputAssumption, LenOfFunction DEF NodeItems, EdgeItems
    <2>6. DOMAIN graph_nodes[g] = 0..m-1 /\ c \in 0..l-1
      BY <2>2, <2>5 DEF NodeArray, EdgeArray
    <2>7. PICK e \in [source : 0..m-1, target : 0..m-1] : graph_edges[g][c] = CEdge(e)
      <3>1. in[2][c + 1] \in [source : 0..m-1, target : 0..m-1]
        BY <2>5, <2>6
      <3> QED BY <2>2, <2>5, <2>6, <3>1 DEF EdgeArray
    <2>8. INT_MAX \in Nat /\ UINT_MAX = 2 * INT_MAX + 1 /\ m <= UINT_MAX
      BY <2>3, InputAssumption, FitsAssumption DEF UINT_MAX
    <2>9. v \in 0..m-1
      <3>1. \A u \in 0..m-1 : CUInt(u) = u
        <4> TAKE u \in 0..m-1
        <4>1. u \in 0..UINT_MAX
          BY <2>5, <2>8
        <4> QED BY <4>1, CUIntSmall
      <3> QED BY <2>7, <3>1 DEF CEdge
    <2>10. CASE v <= INT_MAX
      BY <2>6, <2>9, <2>10 DEF CInt
    <2>11. CASE ~(v <= INT_MAX)
      <3>1. CInt(v) = v - (UINT_MAX + 1)
        BY <2>11 DEF CInt
      <3>2. CInt(v) \notin 0..m-1
        BY <2>5, <2>8, <2>9, <3>1
      <3> QED BY <2>6, <2>9, <2>11, <3>2
    <2> QED BY <2>10, <2>11
  <1> QED BY <1>1, Invariance, PTL
-----------------------------------------------------------------------------
LEMMA StoreKept ==
  ASSUME Owners, HeapTyped, [Next]_vars, held' = held
  PROVE  Store' = Store
  <1>1. \A g \in held : Contents(g)' = Contents(g)
    BY HeldFrame, Zenon
  <1> QED BY <1>1, Zenon DEF Store

LEMMA BuildingNone ==
  ASSUME ArgsOK
  PROVE  /\ graph = None => Building = <<>>
         /\ graph # None => Building = args /\ Building \in Inputs /\ Building # <<>>
  <1>1. args # <<>>
    BY DEF args
  <1> QED BY <1>1, ArgFacts, Zenon DEF Building

LEMMA CreateCalls ==
  ASSUME HInv, [Next]_vars, CreatesAny
  PROVE  Promised!Call
  <1>1. Owners /\ HeapTyped /\ ArgsOK /\ ArgsOK'
    BY ArgsStep DEF HInv, Parts, TypeOK, Owners
  <1>2. graph = None /\ graph' \in Graphs /\ held' = held
    BY DEF CreatesAny, CreateGraph, Idle
  <1>3. Building = <<>> /\ Building' \in Inputs
    <2>1. graph' # None
      BY <1>2, InputAssumption
    <2>2. Building' = args'
      BY <2>1 DEF Building
    <2>3. args' \in Inputs
      <3>1. PICK m \in 0..MaxNodes, l \in 0..MaxEdges :
              nodes' \in NodeItems(m) /\ edges' \in EdgeItems(m, l)
        BY <1>1, <2>1 DEF ArgsOK
      <3> DEFINE S == {NodeItems(a) \X EdgeItems(a, b) : a \in 0..MaxNodes, b \in 0..MaxEdges}
      <3>2. args' \in NodeItems(m) \X EdgeItems(m, l)
        BY <3>1 DEF args
      <3>3. NodeItems(m) \X EdgeItems(m, l) \in S
        OBVIOUS
      <3>4. Inputs = UNION S
        BY DEF Inputs
      <3> HIDE DEF S
      <3> QED BY <3>2, <3>3, <3>4
    <2> QED BY <1>1, <1>2, <2>2, <2>3, BuildingNone
  <1>4. Store' = Store
    BY <1>1, <1>2, StoreKept
  <1> QED BY <1>3, <1>4, Zenon DEF Promised!Call

LEMMA ReturnReturns ==
  ASSUME HInv, [Next]_vars, ReturnGraph
  PROVE  Promised!Return
  <1>1. Owners /\ HeapTyped /\ ArgsOK /\ NodesFilled /\ EdgesFilled /\ Counters
    BY DEF HInv, Parts, TypeOK, Owners, Counters
  <1>2. /\ graph # None /\ graph' = None /\ NodesAdded /\ edges_counter >= Len(edges)
        /\ held' = held \cup {graph} /\ UNCHANGED heap
    BY DEF ReturnGraph, HeapKept, Leave, HandOut
  <1>3. graph \in Graphs \ held
    BY <1>1, <1>2 DEF Owners
  <1>4. Building = args /\ Building # <<>> /\ Building' = <<>>
    BY <1>1, <1>2, BuildingNone DEF Building
  <1>5. Contents(graph) = Made(Building)
    BY <1>1, <1>2, <1>4, FinishedNow
  <1>6. \A g : Contents(g)' = Contents(g)
    BY <1>2 DEF heap, Contents
  <1>7. DOMAIN Store = held /\ \A h \in held : Store[h] = Contents(h)
    BY Zenon DEF Store
  <1>8. Store' = [h \in held \cup {graph} |-> Contents(h)]
    BY <1>2, <1>6, Zenon DEF Store
  <1>9. \A h \in held \cup {graph} :
          Contents(h) = IF h = graph THEN Made(Building) ELSE Store[h]
    BY <1>5, <1>7
  <1>10. Store' = [h \in held \cup {graph} |-> IF h = graph THEN Made(Building) ELSE Store[h]]
    BY <1>8, <1>9, Zenon
  <1> QED BY <1>3, <1>4, <1>7, <1>10, Zenon DEF Promised!Return

LEMMA FailRaises ==
  ASSUME HInv, [Next]_vars, Fails
  PROVE  Promised!Raise
  <1>1. Owners /\ HeapTyped /\ ArgsOK
    BY DEF HInv, Parts, TypeOK, Owners
  <1>2. graph # None /\ graph' = None /\ held' = held
    BY DEF Fails, AddNodeRaises, AddEdgeRaises, AddingNodes, AddingEdges, Fail, Leave
  <1>3. Building # <<>> /\ Building' = <<>>
    BY <1>1, <1>2, BuildingNone DEF Building
  <1>4. Store' = Store
    BY <1>1, <1>2, StoreKept
  <1> QED BY <1>3, <1>4, Zenon DEF Promised!Raise

LEMMA FreeFrees ==
  ASSUME HInv, [Next]_vars, NEW g \in Graphs, FreeGraph(g)
  PROVE  Promised!Free
  <1>1. Owners /\ HeapTyped
    BY DEF HInv, Parts, TypeOK, Owners
  <1>2. graph = None /\ graph' = None /\ g \in held /\ held' = held \ {g}
    BY DEF FreeGraph, Idle, creating
  <1>3. Building = <<>> /\ Building' = <<>>
    BY <1>2 DEF Building
  <1>4. \A h \in held \ {g} : Contents(h)' = Contents(h)
    BY <1>1, <1>2, HeldFrame
  <1>5. DOMAIN Store = held /\ \A h \in held : Store[h] = Contents(h)
    BY Zenon DEF Store
  <1>6. Store' = [h \in held \ {g} |-> Contents(h)']
    BY <1>2, Zenon DEF Store
  <1>7. \A h \in held \ {g} : Contents(h)' = Store[h]
    BY <1>4, <1>5
  <1>8. Store' = [h \in held \ {g} |-> Store[h]]
    BY <1>6, <1>7, Zenon
  <1> QED BY <1>2, <1>3, <1>5, <1>8, Zenon DEF Promised!Free

(* create_graph and free_graph keep what GraphStore promises, for inputs   *)
(* of every size that fits the C types and any order of calls.             *)
THEOREM GraphStoreImplemented == Spec => ImplementsGraphStore
  <1>1. Init => Promised!Init
    BY DEF Init, Promised!Init, Store, Building
  <1>2. HInv /\ [Next]_vars => [Promised!Next]_(Promised!vars)
    <2> SUFFICES ASSUME HInv, [Next]_vars
                 PROVE  Promised!Next \/ UNCHANGED <<Store, Building>>
      BY DEF Promised!vars
    <2>1. CASE CreatesAny
      BY <2>1, CreateCalls DEF Promised!Next
    <2>2. CASE ReturnGraph
      BY <2>2, ReturnReturns DEF Promised!Next
    <2>3. CASE Fails
      BY <2>3, FailRaises DEF Promised!Next
    <2>4. CASE \E g \in Graphs : FreeGraph(g)
      BY <2>4, FreeFrees DEF Promised!Next
    <2>5. CASE AddNode \/ AddEdge \/ Prints
      <3>1. UNCHANGED <<held, graph, args>>
        BY <2>5, PrintsQuiet DEF AddNode, AddEdge, creating
      <3>2. Owners /\ HeapTyped
        BY DEF HInv, Parts, TypeOK, Owners
      <3>3. Store' = Store
        BY <3>1, <3>2, StoreKept
      <3>4. Building' = Building
        BY <3>1 DEF Building
      <3> QED BY <3>3, <3>4
    <2> QED BY <2>1, <2>2, <2>3, <2>4, <2>5, Steps
  <1> QED BY <1>1, <1>2, Invariance, PTL DEF Spec, ImplementsGraphStore, Promised!Spec
-----------------------------------------------------------------------------
(* Printing.  What a line of print_graph says of an edge.                  *)
Cells == [source : Int, target : Int]

(* The lines of the first k edges of an array.                             *)
Lines(E, k) == [l \in 1..k |-> E[l - 1]]

(* create_graph is not running while a graph is printed.                   *)
Alone == graph = None \/ shown = <<>>

PrintedBefore == IF turn = 1 THEN <<>> ELSE Listing(shown[1])

(* k edges of the graph that is being printed have been.                   *)
PrintedThis(k) ==
  /\ \A c \in 0..k-1 : c \in DOMAIN graph_edges[Shown]
  /\ i \in {k, CInt(k)}
  /\ stdout = PrintedBefore \o Lines(graph_edges[Shown], k)

PrintOK ==
  /\ shown = <<>> => turn = 1 /\ i = 0 /\ stdout = <<>>
  /\ shown # <<>> => turn \in 1..Len(shown) /\ \E k \in Nat : PrintedThis(k)

PInv == HInv /\ Alone /\ PrintOK
-----------------------------------------------------------------------------
LEMMA HeldEdges ==
  ASSUME HInv, NEW g \in held
  PROVE  \E n \in 0..MaxEdges : /\ DOMAIN graph_edges[g] = 0..n-1
                                /\ \A c \in 0..n-1 : graph_edges[g][c] \in Cells
  <1>1. PICK in \in Inputs : Contents(g) = Made(in)
    BY DEF HInv, Parts, HeldFinished
  <1>2. graph_edges[g] = EdgeArray(in[2])
    BY <1>1 DEF Contents, Made
  <1>3. PICK m \in 0..MaxNodes, l \in 0..MaxEdges : in \in NodeItems(m) \X EdgeItems(m, l)
    BY DEF Inputs
  <1>4. in[2] \in [1..l -> [source : 0..m-1, target : 0..m-1]]
    BY <1>3 DEF EdgeItems
  <1>5. m \in Nat /\ l \in Nat /\ Len(in[2]) = l
    BY <1>4, InputAssumption, LenOfFunction
  <1>6. DOMAIN graph_edges[g] = 0..l-1
    BY <1>2, <1>5 DEF EdgeArray
  <1>7. ASSUME NEW c \in 0..l-1
        PROVE  graph_edges[g][c] \in Cells
    <2>1. in[2][c + 1] \in [source : 0..m-1, target : 0..m-1]
      BY <1>4, <1>5, <1>7
    <2>2. graph_edges[g][c] = CEdge(in[2][c + 1])
      BY <1>2, <1>5, <1>7 DEF EdgeArray
    <2>3. \A v \in 0..m-1 : CUInt(v) \in Int
      <3>1. m <= UINT_MAX + 1 /\ UINT_MAX \in Nat
        BY <1>3, InputAssumption, FitsAssumption DEF UINT_MAX
      <3>2. \A v \in 0..m-1 : v \in 0..UINT_MAX
        BY <1>5, <3>1
      <3> QED BY <3>2, CUIntSmall
    <2> QED BY <2>1, <2>2, <2>3 DEF CEdge, Cells
  <1> QED BY <1>6, <1>7

LEMMA ShownHeld ==
  ASSUME HInv, shown # <<>>, turn \in 1..Len(shown)
  PROVE  Shown \in held /\ Len(shown) \in {1, 2} /\ shown[1] \in held
  <1>1. (\E g \in held : shown = <<g>>) \/ (\E g, p \in held : shown = <<g, p>>)
    BY DEF HInv, TypeOK
  <1> QED BY <1>1 DEF Shown

(* What i says of k: the comparison as unsigned sees k even if i wrapped.  *)
LEMMA Counted ==
  ASSUME NEW k \in 0..INT_MAX+1, i \in {k, CInt(k)}
  PROVE  CUInt(i) = k /\ (k <= INT_MAX => i = k)
  <1>1. INT_MAX \in Nat /\ UINT_MAX = 2 * INT_MAX + 1 /\ k \in 0..UINT_MAX
    BY InputAssumption DEF UINT_MAX
  <1>2. CASE i = k
    BY <1>1, <1>2, CUIntSmall
  <1>3. CASE k = INT_MAX + 1 /\ i = CInt(k)
    <2>1. i = k - (UINT_MAX + 1) /\ ~(k <= INT_MAX)
      BY <1>1, <1>3 DEF CInt
    <2>2. i % (UINT_MAX + 1) = k
      <3>1. i \in -(UINT_MAX + 1)..-1
        BY <1>1, <1>3, <2>1
      <3>2. i % (UINT_MAX + 1) = i + UINT_MAX + 1
        <4>1. UINT_MAX \in Nat
          BY <1>1
        <4> HIDE DEF UINT_MAX
        <4> QED BY <3>1, <4>1
      <3> QED BY <1>1, <2>1, <3>2
    <2> QED BY <2>1, <2>2 DEF CUInt
  <1>4. k <= INT_MAX => CInt(k) = k
    BY DEF CInt
  <1> QED BY <1>1, <1>2, <1>3, <1>4

LEMMA PrintedFacts ==
  ASSUME PInv, shown # <<>>, NEW k \in Nat, PrintedThis(k)
  PROVE  \E n \in 0..MaxEdges :
           /\ DOMAIN graph_edges[Shown] = 0..n-1 /\ k \in 0..n
           /\ \A c \in 0..n-1 : graph_edges[Shown][c] \in Cells
           /\ EdgesLeft => k < n /\ i = k
           /\ ~EdgesLeft => k = n
  <1>1. Shown \in held
    BY ShownHeld DEF PInv, PrintOK
  <1>2. PICK n \in 0..MaxEdges : /\ DOMAIN graph_edges[Shown] = 0..n-1
                                 /\ \A c \in 0..n-1 : graph_edges[Shown][c] \in Cells
    BY <1>1, HeldEdges DEF PInv
  <1>3. n \in Nat /\ n <= INT_MAX + 1 /\ INT_MAX \in Nat
    BY <1>2, InputAssumption, FitsAssumption
  <1>4. k \in 0..n
    <2>1. k = 0 \/ k - 1 \in 0..n-1
      BY <1>2 DEF PrintedThis
    <2> QED BY <1>3, <2>1
  <1>5. CUInt(i) = k /\ (k <= INT_MAX => i = k)
    <2>1. k \in 0..INT_MAX+1
      BY <1>3, <1>4
    <2>2. i \in {k, CInt(k)}
      BY DEF PrintedThis
    <2> QED BY <2>1, <2>2, Counted
  <1>6. EdgesLeft <=> k \in 0..n-1
    BY <1>2, <1>5 DEF EdgesLeft
  <1>7. EdgesLeft => k < n /\ i = k
    BY <1>3, <1>4, <1>5, <1>6
  <1>8. ~EdgesLeft => k = n
    BY <1>3, <1>4, <1>6
  <1> QED BY <1>2, <1>4, <1>7, <1>8, Zenon
-----------------------------------------------------------------------------
LEMMA LinesSeq ==
  ASSUME NEW E, NEW k \in Nat, \A c \in 0..k-1 : E[c] \in Cells
  PROVE  Lines(E, k) \in Seq(Cells) /\ Len(Lines(E, k)) = k
         /\ \A l \in 1..k : Lines(E, k)[l] = E[l - 1]
  <1> HIDE DEF Cells
  <1>1. Lines(E, k) \in [1..k -> Cells]
    <2>1. \A l \in 1..k : l - 1 \in 0..k-1
      OBVIOUS
    <2>2. \A l \in 1..k : E[l - 1] \in Cells
      BY <2>1
    <2> QED BY <2>2 DEF Lines
  <1>2. Lines(E, k) \in Seq(Cells)
    BY <1>1, SeqDef
  <1> QED BY <1>1, <1>2, LenOfFunction DEF Lines

LEMMA LinesNext ==
  ASSUME NEW E, NEW k \in Nat, \A c \in 0..k : E[c] \in Cells
  PROVE  Append(Lines(E, k), E[k]) = Lines(E, k + 1)
  <1> HIDE DEF Cells
  <1> DEFINE s == Append(Lines(E, k), E[k])
             t == Lines(E, k + 1)
  <1>1. /\ Lines(E, k) \in Seq(Cells) /\ Len(Lines(E, k)) = k
        /\ \A l \in 1..k : Lines(E, k)[l] = E[l - 1]
    BY LinesSeq
  <1>2. E[k] \in Cells
    OBVIOUS
  <1>3. /\ s \in Seq(Cells) /\ Len(s) = k + 1 /\ s[k + 1] = E[k]
        /\ \A l \in 1..k : s[l] = E[l - 1]
    BY <1>1, <1>2, AppendProperties
  <1>4. t \in Seq(Cells) /\ Len(t) = k + 1 /\ \A l \in 1..k+1 : t[l] = E[l - 1]
    <2>1. k + 1 \in Nat /\ \A c \in 0..(k+1)-1 : E[c] \in Cells
      OBVIOUS
    <2> QED BY <2>1, LinesSeq
  <1>5. \A l \in 1..k+1 : s[l] = t[l]
    <2> TAKE l \in 1..k+1
    <2>1. l \in 1..k \/ (l = k + 1 /\ l - 1 = k)
      OBVIOUS
    <2> HIDE DEF s, t
    <2> QED BY <1>3, <1>4, <2>1
  <1> HIDE DEF s, t
  <1>6. s = t
    BY <1>3, <1>4, <1>5, SeqEqual
  <1> QED BY <1>6 DEF s, t

LEMMA AppendAfter ==
  \A s, t \in Seq(Cells) : \A e \in Cells : Append(s \o t, e) = s \o Append(t, e)
  <1> HIDE DEF Cells
  <1> TAKE s, t \in Seq(Cells)
  <1> TAKE e \in Cells
  <1>1. s \o t \in Seq(Cells) /\ <<e>> \in Seq(Cells)
    BY ConcatProperties
  <1>2. Append(s \o t, e) = (s \o t) \o <<e>> /\ Append(t, e) = t \o <<e>>
    BY <1>1, AppendIsConcat
  <1> QED BY <1>1, <1>2, ConcatAssociative

LEMMA ListingLines ==
  ASSUME NEW g, NEW n \in Nat, DOMAIN graph_edges[g] = 0..n-1
  PROVE  Listing(g) = Lines(graph_edges[g], n)
  <1>1. {c + 1 : c \in 0..n-1} = 1..n
    <2>1. ASSUME NEW l \in 1..n PROVE l \in {c + 1 : c \in 0..n-1}
      <3>1. l - 1 \in 0..n-1 /\ l = (l - 1) + 1
        OBVIOUS
      <3> QED BY <3>1
    <2>2. ASSUME NEW l \in {c + 1 : c \in 0..n-1} PROVE l \in 1..n
      OBVIOUS
    <2> QED BY <2>1, <2>2
  <1> QED BY <1>1, Zenon DEF Listing, Lines

LEMMA BeforeSeq ==
  ASSUME PInv, shown # <<>>
  PROVE  PrintedBefore \in Seq(Cells)
  <1>1. shown[1] \in held
    BY ShownHeld DEF PInv, PrintOK
  <1>2. PICK n \in 0..MaxEdges : /\ DOMAIN graph_edges[shown[1]] = 0..n-1
                                 /\ \A c \in 0..n-1 : graph_edges[shown[1]][c] \in Cells
    BY <1>1, HeldEdges DEF PInv
  <1>3. n \in Nat
    BY <1>2, InputAssumption
  <1>4. Listing(shown[1]) = Lines(graph_edges[shown[1]], n)
    BY <1>2, <1>3, ListingLines
  <1>5. Lines(graph_edges[shown[1]], n) \in Seq(Cells)
    BY <1>2, <1>3, LinesSeq
  <1> HIDE DEF Cells
  <1> QED BY <1>4, <1>5 DEF PrintedBefore
-----------------------------------------------------------------------------
(* The steps that have nothing to do with printing.                        *)
Others ==
  CreatesAny \/ AddNode \/ AddEdge \/ Fails \/ ReturnGraph \/ \E g \in Graphs : FreeGraph(g)

LEMMA OthersStep ==
  ASSUME Alone, PrintOK, Others
  PROVE  UNCHANGED printing /\ shown = <<>> /\ Alone' /\ PrintOK'
  <1>1. shown = <<>>
    BY DEF Others, CreatesAny, CreateGraph, Idle, AddNode, AddingNodes, AddEdge, AddingEdges,
       Fails, AddNodeRaises, AddEdgeRaises, ReturnGraph, HeapKept, FreeGraph, Alone
  <1>2. UNCHANGED printing
    BY DEF Others, CreatesAny, CreateGraph, AddNode, AddEdge, Fails, AddNodeRaises,
       AddEdgeRaises, Fail, ReturnGraph, HeapKept, FreeGraph
  <1>3. PrintOK'
    BY <1>1, <1>2 DEF PrintOK, printing
  <1> QED BY <1>1, <1>2, <1>3 DEF Alone, printing

LEMMA BeginStep ==
  ASSUME PrintOK, \/ \E g \in Graphs : PrintGraph(g)
                  \/ \E g, p \in Graphs : Match(g, p)
  PROVE  Alone' /\ PrintOK'
  <1>1. /\ graph' = None /\ turn' = 1 /\ i' = 0 /\ stdout' = <<>>
        /\ shown' # <<>> /\ turn' \in 1..Len(shown')
    BY DEF PrintGraph, Match, Idle, PrintOK, creating
  <1>2. PrintedThis(0)'
    <2>1. Lines(graph_edges'[Shown'], 0) = <<>>
      BY DEF Lines
    <2>2. PrintedBefore' = <<>>
      BY <1>1 DEF PrintedBefore
    <2>3. <<>> \o <<>> = <<>>
      BY ConcatEmptySeq, EmptySeq
    <2>4. stdout' = PrintedBefore' \o Lines(graph_edges'[Shown'], 0)
      BY <1>1, <2>1, <2>2, <2>3, Zenon
    <2> QED BY <1>1, <2>4 DEF PrintedThis
  <1> QED BY <1>1, <1>2 DEF Alone, PrintOK

LEMMA LineStep ==
  ASSUME PInv, PrintLine
  PROVE  PrintOK'
  <1>1. shown # <<>> /\ EdgesLeft /\ UNCHANGED <<graph_edges, shown, turn>>
    BY DEF PrintLine, EdgesLeft, heap
  <1>2. turn \in 1..Len(shown)
    BY <1>1 DEF PInv, PrintOK
  <1>3. PICK k \in Nat : PrintedThis(k)
    BY <1>1 DEF PInv, PrintOK
  <1> DEFINE E == graph_edges[Shown]
  <1>4. PICK n \in 0..MaxEdges : /\ DOMAIN E = 0..n-1 /\ k < n /\ i = k
                                 /\ \A c \in 0..n-1 : E[c] \in Cells
    BY <1>1, <1>3, PrintedFacts
  <1>5. n \in Nat /\ (\A c \in 0..k : E[c] \in Cells /\ c \in DOMAIN E)
    BY <1>4, InputAssumption
  <1>6. Shown' = Shown /\ E' = E /\ PrintedBefore' = PrintedBefore
    BY <1>1 DEF Shown, PrintedBefore, Listing
  <1>7. stdout' = Append(PrintedBefore \o Lines(E, k), E[k])
    BY <1>3, <1>4 DEF PrintLine, PrintedThis
  <1>8. stdout' = PrintedBefore \o Lines(E, k + 1)
    <2>1. PrintedBefore \in Seq(Cells)
      BY <1>1, BeforeSeq
    <2>2. Lines(E, k) \in Seq(Cells) /\ E[k] \in Cells
      BY <1>5, LinesSeq
    <2>3. Append(Lines(E, k), E[k]) = Lines(E, k + 1)
      BY <1>5, LinesNext
    <2> HIDE DEF E, Cells
    <2>4. Append(PrintedBefore \o Lines(E, k), E[k]) = PrintedBefore \o Append(Lines(E, k), E[k])
      BY <2>1, <2>2, AppendAfter, Zenon
    <2> QED BY <1>7, <2>3, <2>4, Zenon
  <1>9. i' \in {k + 1, CInt(k + 1)}
    BY <1>4 DEF PrintLine
  <1>10. \A c \in 0..(k+1)-1 : c \in DOMAIN E
    BY <1>5
  <1>11. PrintedThis(k + 1)'
    <2> HIDE DEF E
    <2> SUFFICES /\ \A c \in 0..(k+1)-1 : c \in DOMAIN E'
                 /\ i' \in {k + 1, CInt(k + 1)}
                 /\ stdout' = PrintedBefore' \o Lines(E', k + 1)
      BY DEF PrintedThis, E
    <2> QED BY <1>6, <1>8, <1>9, <1>10
  <1>12. k + 1 \in Nat
    OBVIOUS
  <1> QED BY <1>1, <1>2, <1>11, <1>12 DEF PrintOK

(* At the end of a graph its whole listing has been printed.               *)
LEMMA GraphDone ==
  ASSUME PInv, shown # <<>>, ~EdgesLeft
  PROVE  stdout = PrintedBefore \o Listing(Shown) /\ Listing(Shown) \in Seq(Cells)
  <1>1. PICK k \in Nat : PrintedThis(k)
    BY DEF PInv, PrintOK
  <1>2. DOMAIN graph_edges[Shown] = 0..k-1 /\ \A c \in 0..k-1 : graph_edges[Shown][c] \in Cells
    BY <1>1, PrintedFacts
  <1>3. Listing(Shown) = Lines(graph_edges[Shown], k)
    BY <1>2, ListingLines
  <1>4. Lines(graph_edges[Shown], k) \in Seq(Cells)
    BY <1>2, LinesSeq
  <1> QED BY <1>1, <1>3, <1>4 DEF PrintedThis

LEMMA NextGraphStep ==
  ASSUME PInv, PrintNext
  PROVE  PrintOK'
  <1>1. /\ shown # <<>> /\ ~EdgesLeft /\ turn \in 1..Len(shown) /\ Len(shown) \in {1, 2}
        /\ turn < Len(shown)
    BY ShownHeld DEF PrintNext, PInv, PrintOK
  <1>2. turn = 1 /\ turn' = 2 /\ Len(shown) = 2 /\ shown' = shown /\ i' = 0 /\ stdout' = stdout
        /\ UNCHANGED graph_edges
    <2>1. turn = 1 /\ Len(shown) = 2
      <3>1. CASE Len(shown) = 1
        BY <1>1, <3>1
      <3>2. CASE Len(shown) = 2
        BY <1>1, <3>2
      <3> QED BY <1>1, <3>1, <3>2
    <2> QED BY <2>1 DEF PrintNext, heap
  <1>3. stdout = <<>> \o Listing(shown[1]) /\ Listing(shown[1]) \in Seq(Cells)
    <2>1. stdout = PrintedBefore \o Listing(Shown) /\ Listing(Shown) \in Seq(Cells)
      BY <1>1, GraphDone
    <2>2. PrintedBefore = <<>> /\ Shown = shown[1]
      BY <1>2 DEF PrintedBefore, Shown
    <2> QED BY <2>1, <2>2, Zenon
  <1>4. PrintedBefore' = Listing(shown[1])
    BY <1>2 DEF PrintedBefore, Listing
  <1>5. Lines(graph_edges'[Shown'], 0) = <<>>
    BY DEF Lines
  <1>6. stdout' = PrintedBefore' \o Lines(graph_edges'[Shown'], 0)
    <2>1. <<>> \o Listing(shown[1]) = Listing(shown[1]) \o <<>>
      BY <1>3, ConcatEmptySeq
    <2> QED BY <1>2, <1>3, <1>4, <1>5, <2>1, Zenon
  <1>7. PrintedThis(0)'
    BY <1>2, <1>6 DEF PrintedThis
  <1> QED BY <1>2, <1>7 DEF PrintOK

LEMMA InitPInv == Init => PInv
  <1>1. Init => Alone /\ PrintOK
    BY DEF Init, Alone, PrintOK
  <1> QED BY <1>1, InitHInv DEF PInv

LEMMA NextPInv == PInv /\ [Next]_vars => PInv'
  <1> SUFFICES ASSUME PInv, [Next]_vars PROVE PInv'
    OBVIOUS
  <1>1. HInv'
    BY NextHInv DEF PInv
  <1>2. CASE Others
    BY <1>1, <1>2, OthersStep DEF PInv
  <1>3. CASE (\E g \in Graphs : PrintGraph(g)) \/ (\E g, p \in Graphs : Match(g, p))
    BY <1>1, <1>3, BeginStep DEF PInv
  <1>4. CASE PrintLine \/ PrintNext
    <2>1. Alone'
      BY <1>4 DEF PInv, Alone, PrintLine, PrintNext, creating
    <2> QED BY <1>1, <1>4, <2>1, LineStep, NextGraphStep DEF PInv
  <1>5. CASE PrintReturns
    BY <1>1, <1>5 DEF PInv, PrintReturns, Alone, PrintOK
  <1>6. CASE UNCHANGED vars
    BY <1>1, <1>6 DEF PInv, vars, creating, printing, heap, Alone, PrintOK, PrintedThis, Shown,
       PrintedBefore, Listing
  <1> QED BY <1>2, <1>3, <1>4, <1>5, <1>6, Steps DEF Others, Prints

(* For any two graphs that were handed out, match prints both in full, in  *)
(* order, up to the number of edges that its loop variable can count.      *)
THEOREM MatchPrintsBothCorrect == Spec => MatchPrintsBoth
  <1>1. PInv /\ [Next]_vars =>
          [Len(shown) = 2 /\ shown' = <<>> =>
             stdout = Listing(shown[1]) \o Listing(shown[2])]_vars
    <2> SUFFICES ASSUME PInv, [Next]_vars, Len(shown) = 2, shown' = <<>>
                 PROVE  stdout = Listing(shown[1]) \o Listing(shown[2])
      BY Zenon
    <2>1. shown # <<>>
      OBVIOUS
    <2>2. ~Others
      BY <2>1, OthersStep DEF PInv
    <2>3. PrintReturns
      BY <2>1, <2>2, Steps DEF Others, Prints, PrintGraph, Match, PrintLine, PrintNext,
         vars, printing
    <2>4. ~EdgesLeft /\ turn = 2
      BY <2>3 DEF PrintReturns
    <2> QED BY <2>1, <2>4, GraphDone DEF PrintedBefore, Shown
  <1>2. Spec => []PInv
    BY InitPInv, NextPInv, PTL DEF Spec
  <1> QED BY <1>1, <1>2, PTL DEF Spec, MatchPrintsBoth
=============================================================================

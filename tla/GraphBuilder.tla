---------------------------- MODULE GraphBuilder ----------------------------
(***************************************************************************)
(* The graphs that a Python client builds, prints, matches and frees: the  *)
(* function create_graph of arboql/graph_builder.py on top of graph.c, the *)
(* ctypes conversions between them, match and print_graph.  A graph is     *)
(* malloced with uninitialised arrays; each add_node or add_edge, one per  *)
(* step, writes one cell by index, unchecked; a ctypes error may leave     *)
(* create_graph in the middle.  malloc is taken to succeed.                *)
(***************************************************************************)
EXTENDS Integers, Sequences

CONSTANTS
  Graphs,              (* addresses that malloc can return                 *)
  MaxNodes, MaxEdges,  (* bounds of the sizes of the inputs                *)
  Attributes,          (* the Python ints that the client stores in nodes  *)
  INT_MAX,             (* largest C int                                    *)
  None                 (* no address; a cell that has not been written     *)

UINT_MAX == 2 * INT_MAX + 1

ASSUME InputAssumption ==
  /\ MaxNodes \in Nat /\ MaxEdges \in Nat /\ INT_MAX \in Nat
  /\ Attributes \subseteq Int /\ None \notin Graphs /\ None \notin Int

(* Sizes fit their C types; print_graph counts edges in an int.            *)
ASSUME FitsAssumption == MaxNodes <= UINT_MAX /\ MaxEdges <= INT_MAX + 1

VARIABLES
  graph_nodes, graph_edges,  (* the arrays of each allocated Graph         *)
  live,       (* graphs malloced and not freed                             *)
  held,       (* history: graphs that create_graph has handed out and the  *)
              (* client has not freed since                                *)
  graph,      (* the Graph that the running create_graph fills, or None    *)
  added,      (* add_node calls it has made                                *)
  edges_counter,
  nodes, edges,  (* its arguments, in the order of its loops               *)
  raised,     (* history: the graphs that the calls of create_graph which  *)
              (* have raised were filling                                  *)
  shown,      (* the arguments of the running match or print_graph         *)
  turn, i,    (* which of them is printed, and the loop variable           *)
  stdout      (* the lines it has printed                                  *)

heap == <<graph_nodes, graph_edges, live>>
args == <<nodes, edges>>
creating == <<graph, added, edges_counter, args>>
printing == <<shown, turn, i, stdout>>
vars == <<heap, held, creating, raised, printing>>

Init ==
  /\ graph_nodes = [g \in Graphs |-> <<>>] /\ graph_edges = [g \in Graphs |-> <<>>]
  /\ live = {} /\ held = {} /\ graph = None /\ added = 0 /\ edges_counter = 0
  /\ nodes = <<>> /\ edges = <<>> /\ raised = {}
  /\ shown = <<>> /\ turn = 1 /\ i = 0 /\ stdout = <<>>
-----------------------------------------------------------------------------
(* The items of a nodes dict whose keys are 0..m-1 in any order, and those *)
(* of an edges dict, source by source: what create_graph is called with.   *)
(* That a value is no int after all is found out when it is converted.     *)
NodeItems(m) ==
  {ns \in [1..m -> [id : 0..m-1, attribute : Attributes]] :
     /\ \A x, y \in 1..m : ns[x].id = ns[y].id => x = y
     /\ \A v \in 0..m-1 : \E x \in 1..m : ns[x].id = v}

EdgeItems(m, l) ==
  {es \in [1..l -> [source : 0..m-1, target : 0..m-1]] :
     \A x, y, z \in 1..l : x < z /\ z < y /\ es[x].source = es[y].source
                             => es[z].source = es[x].source}

(* A Python int as a c_uint argument: ctypes checks no range.              *)
CUInt(v) == v % (UINT_MAX + 1)

(* Mutations: the arrays are one cell short; the last node is left out;    *)
(* the graph is not handed out, or freed on the way out; match prints its  *)
(* first graph again; INT_MAX is read back negative.                       *)
CellsShort(size) == [c \in 0..size-2 |-> None]
LastNodeLeftOut == added >= Len(nodes) - 1
PointerDropped == UNCHANGED held
FreedFinally == live' = live \ {graph} /\ UNCHANGED <<graph_nodes, graph_edges>>
FirstAgain == shown[1]
CIntNarrow(v) == IF v < INT_MAX THEN v ELSE v - (UINT_MAX + 1)

CellsUninitialised(size) == [c \in 0..size-1 |-> None]

Idle == graph = None /\ shown = <<>>

(* malloc_graph(len(nodes), edges_n).                                      *)
CreateGraph(ns, es) ==
  /\ Idle
  /\ graph' \in Graphs \ live
  /\ live' = live \cup {graph'}
  /\ graph_nodes' = [graph_nodes EXCEPT ![graph'] = CellsUninitialised(CUInt(Len(ns)))]
  /\ graph_edges' = [graph_edges EXCEPT ![graph'] = CellsUninitialised(CUInt(Len(es)))]
  /\ nodes' = ns /\ edges' = es /\ added' = 0 /\ edges_counter' = 0
  /\ UNCHANGED <<held, raised, printing>>

AddingNodes == graph # None /\ added < Len(nodes)
NodesAdded == added = Len(nodes)
Node == nodes[added + 1]

AddNode ==
  /\ AddingNodes /\ ~NodesAdded
  /\ graph_nodes' = [graph_nodes EXCEPT ![graph][CUInt(Node.id)] = CUInt(Node.attribute)]
  /\ added' = added + 1
  /\ UNCHANGED <<graph_edges, live, held, graph, edges_counter, args, raised, printing>>

AddingEdges == graph # None /\ NodesAdded /\ edges_counter < Len(edges)
Edge == edges[edges_counter + 1]
CEdge(e) == [source |-> CUInt(e.source), target |-> CUInt(e.target)]

AddEdge ==
  /\ AddingEdges
  /\ graph_edges' = [graph_edges EXCEPT ![graph][CUInt(edges_counter)] = CEdge(Edge)]
  /\ edges_counter' = edges_counter + 1
  /\ UNCHANGED <<graph_nodes, live, held, graph, added, args, raised, printing>>

(* The locals of create_graph go.                                          *)
Leave ==
  /\ graph' = None /\ nodes' = <<>> /\ edges' = <<>>
  /\ added' = 0 /\ edges_counter' = 0

(* An attribute or a target is no int: ctypes.ArgumentError leaves         *)
(* create_graph, which does not free the graph.                            *)
Fail == Leave /\ raised' = raised \cup {graph} /\ UNCHANGED <<heap, held, printing>>

AddNodeRaises == AddingNodes /\ ~NodesAdded /\ Fail

AddEdgeRaises == AddingEdges /\ Fail

HandOut == held' = held \cup {graph}
HeapKept == UNCHANGED heap

ReturnGraph ==
  /\ graph # None /\ NodesAdded /\ edges_counter >= Len(edges)
  /\ HandOut /\ HeapKept /\ Leave
  /\ UNCHANGED <<raised, printing>>

(* free_graph knows nothing of the pointers that the client keeps.  That a *)
(* client frees only what it was handed out, once, and does not read it    *)
(* afterwards, is taken from src/test.py: the code would not notice.       *)
FreeGraph(g) ==
  /\ Idle /\ g \in held
  /\ live' = live \ {g} /\ held' = held \ {g}
  /\ graph_nodes' = [graph_nodes EXCEPT ![g] = <<>>]
  /\ graph_edges' = [graph_edges EXCEPT ![g] = <<>>]
  /\ UNCHANGED <<creating, raised, printing>>
-----------------------------------------------------------------------------
(* print_graph(g), and match(g, p), which prints both and returns 42.      *)
PrintGraph(g) ==
  /\ Idle /\ g \in held /\ shown' = <<g>>
  /\ UNCHANGED <<heap, held, creating, raised, turn, i, stdout>>

Match(g, p) ==
  /\ Idle /\ g \in held /\ p \in held /\ shown' = <<g, p>>
  /\ UNCHANGED <<heap, held, creating, raised, turn, i, stdout>>

(* What a c_int field of a ctypes structure makes of an unsigned id, and a *)
(* C int of the successor of INT_MAX, if that wraps.                       *)
CInt(v) == IF v <= INT_MAX THEN v ELSE v - (UINT_MAX + 1)

Shown == shown[turn]

(* i < edges_n compares as unsigned.                                       *)
EdgesLeft == shown # <<>> /\ CUInt(i) \in DOMAIN graph_edges[Shown]

(* i++ past INT_MAX wraps, or goes on if the build has i in a wider type.  *)
PrintLine ==
  /\ EdgesLeft
  /\ stdout' = Append(stdout, graph_edges[Shown][i])
  /\ i' \in {i + 1, CInt(i + 1)}
  /\ UNCHANGED <<heap, held, creating, raised, shown, turn>>

PrintNext ==
  /\ shown # <<>> /\ ~EdgesLeft /\ turn < Len(shown)
  /\ turn' = turn + 1 /\ i' = 0
  /\ UNCHANGED <<heap, held, creating, raised, shown, stdout>>

PrintReturns ==
  /\ shown # <<>> /\ ~EdgesLeft /\ turn = Len(shown)
  /\ shown' = <<>> /\ turn' = 1 /\ i' = 0 /\ stdout' = <<>>
  /\ UNCHANGED <<heap, held, creating, raised>>

Creates(m) ==
  \E l \in 0..MaxEdges :
    \E ns \in NodeItems(m), es \in EdgeItems(m, l) : CreateGraph(ns, es)

Works ==
  \/ AddNode \/ AddNodeRaises \/ AddEdge \/ AddEdgeRaises \/ ReturnGraph
  \/ \E g \in Graphs : FreeGraph(g) \/ PrintGraph(g)
  \/ \E g, p \in Graphs : Match(g, p)
  \/ PrintLine \/ PrintNext \/ PrintReturns

Next == (\E m \in 0..MaxNodes : Creates(m)) \/ Works

Spec == Init /\ [][Next]_vars
-----------------------------------------------------------------------------
(* Ranges; what has been handed out and not freed is still on the heap,    *)
(* and is not the graph that create_graph is filling.                      *)
TypeOK ==
  /\ live \subseteq Graphs /\ held \subseteq live
  /\ graph \in (live \ held) \cup {None}
  /\ added \in 0..Len(nodes) /\ edges_counter \in 0..Len(edges) /\ raised \subseteq live
  /\ shown \in {<<>>} \cup {<<g>> : g \in held} \cup {<<g, p>> : g, p \in held}

(* add_node and add_edge, which check no index, write inside the arrays    *)
(* that create_graph sized beforehand.                                     *)
InBounds ==
  /\ AddingNodes => CUInt(Node.id) \in DOMAIN graph_nodes[graph]
  /\ AddingEdges => CUInt(edges_counter) \in DOMAIN graph_edges[graph]

(* The graphs on the heap that nobody has a pointer to any more, neither   *)
(* the client nor the running create_graph, are exactly those that the     *)
(* calls which raised were filling: each such call leaks its graph, for    *)
(* ever, and nothing else leaks one.                                       *)
LeakedByRaises == live \ (held \cup {graph}) = raised

Inputs ==
  UNION {NodeItems(m) \X EdgeItems(m, l) : m \in 0..MaxNodes, l \in 0..MaxEdges}

(* The finished graph of an input: every cell of both arrays is written.   *)
NodeArray(ns) ==
  [v \in 0..Len(ns)-1 |-> CUInt(ns[CHOOSE x \in 1..Len(ns) : ns[x].id = v].attribute)]
EdgeArray(es) == [c \in 0..Len(es)-1 |-> CEdge(es[c + 1])]
Made(in) == [nodes |-> NodeArray(in[1]), edges |-> EdgeArray(in[2])]

Contents(g) == [nodes |-> graph_nodes[g], edges |-> graph_edges[g]]
Store == [g \in held |-> Contents(g)]
Building == IF graph = None THEN <<>> ELSE args

Promised == INSTANCE GraphStore WITH
  Addresses <- Graphs, None <- <<>>, store <- Store, building <- Building

(* create_graph hands out finished graphs only, made of its own arguments  *)
(* with no cell left uninitialised for match to read, and nothing that     *)
(* happens later to other graphs changes one, not even an address reused.  *)
ImplementsGraphStore == Promised!Spec

Listing(g) ==
  [l \in {c + 1 : c \in DOMAIN graph_edges[g]} |-> graph_edges[g][l - 1]]

(* When match returns, it has printed every edge of both its graphs, those *)
(* of the first before those of the second, each once and in their order.  *)
MatchPrintsBoth ==
  [][Len(shown) = 2 /\ shown' = <<>> =>
       stdout = Listing(shown[1]) \o Listing(shown[2])]_vars

(* The ends of every edge are ids of nodes.  A client that reads them      *)
(* through the c_int fields of the ctypes structure gets the id of a node, *)
(* and then the right one, up to INT_MAX and never above: in a larger      *)
(* graph the edges of the later nodes lead nowhere.                        *)
EdgesLeadToNodes ==
  \A g \in held : \A c \in DOMAIN graph_edges[g] :
    LET e == graph_edges[g][c]
    IN \A v \in {e.source, e.target} :
         /\ v \in DOMAIN graph_nodes[g]
         /\ IF v <= INT_MAX THEN CInt(v) = v ELSE CInt(v) \notin DOMAIN graph_nodes[g]
=============================================================================

------------------------------ MODULE Package -------------------------------
(***************************************************************************)
(* The functions of the Python package as they are meant to be used        *)
(* together: when process_node has made a tree of an AST, of any AST, its  *)
(* dicts nodes and edges are given to create_graph.  The target of an edge *)
(* stands for the pair (ATTR_UNSIGNED, target) that process_node appends:  *)
(* add_edge cannot convert it, so of the steps of create_graph that handle *)
(* an edge only the failing one exists here.                               *)
(***************************************************************************)
EXTENDS AstTree, FiniteSetsExt

CONSTANTS INT_MAX, None  (* of GraphBuilder                                *)

ASSUME PackageAssumption ==
  INT_MAX \in Nat /\ MaxNodes <= INT_MAX /\ None \notin Int /\ None # "graph"

VARIABLES  (* those of GraphBuilder; its nodes and edges are given_...     *)
  graph_nodes, graph_edges, live, held, graph, added, edges_counter,
  given_nodes, given_edges, raised, shown, turn, i, stdout

builder == <<graph_nodes, graph_edges, live, held, graph, added, edges_counter,
             given_nodes, given_edges, raised, shown, turn, i, stdout>>

(* The root makes one node more than MaxNodes, and every other node has    *)
(* one edge.                                                               *)
Builder == INSTANCE GraphBuilder WITH
  Graphs <- {"graph"}, Attributes <- Nat, MaxNodes <- MaxNodes + 1, MaxEdges <- MaxNodes,
  nodes <- given_nodes, edges <- given_edges

PackageInit == Init /\ Builder!Init
-----------------------------------------------------------------------------
Parsed == stack = <<>> /\ DOMAIN nodes # {}

(* The elements of S in an order that is given as a set of pairs.          *)
Sorted(S, order) ==
  [x \in 1..Cardinality(S) |->
     CHOOSE e \in S : Cardinality({d \in S : <<d, e>> \in order}) = x - 1]

Targets(s) == {e[2] : e \in {d \in edges : d[1] = s}}

(* Mutation: a source moves to the end of edges with every new target.     *)
InsertedAgain(s) == Max(Targets(s))

(* A source is inserted in the dict edges together with its first target,  *)
(* and a node in the dict nodes when its id is assigned.                   *)
Inserted(s) == Min(Targets(s))

NodeOrder == {p \in (DOMAIN nodes) \X (DOMAIN nodes) : p[1] < p[2]}

EdgeOrder ==
  {p \in edges \X edges :
     LET d == p[1]  e == p[2]
     IN Inserted(d[1]) < Inserted(e[1]) \/ (d[1] = e[1] /\ d[2] < e[2])}

(* The items of the two dicts in the order of their insertion.             *)
NodesGiven ==
  LET ids == Sorted(DOMAIN nodes, NodeOrder)
  IN [x \in DOMAIN ids |-> [id |-> ids[x], attribute |-> nodes[ids[x]]]]

EdgesGiven ==
  LET es == Sorted(edges, EdgeOrder)
  IN [x \in DOMAIN es |-> [source |-> es[x][1], target |-> es[x][2]]]

Parse == Next /\ UNCHANGED builder

Build ==
  /\ Parsed /\ raised = {}
  /\ Builder!CreateGraph(NodesGiven, EdgesGiven)
  /\ UNCHANGED vars

Fill == (Builder!AddNode \/ Builder!AddEdgeRaises) /\ UNCHANGED vars

PackageNext == Parse \/ Build \/ Fill

PackageSpec == PackageInit /\ [][PackageNext]_<<vars, builder>>
-----------------------------------------------------------------------------
(* Whatever the AST, create_graph is called with what it is written for:   *)
(* keys 0..n-1, each once, and the edges source by source, between them.   *)
PreconditionMet ==
  graph # None =>
    /\ given_nodes \in Builder!NodeItems(Len(given_nodes))
    /\ given_edges \in Builder!EdgeItems(Len(given_nodes), Len(given_edges))

(* The ids of process_node fit the arrays that create_graph sizes by       *)
(* len(nodes) and the number of edges: no add_node writes past its array,  *)
(* and when the edges are reached every node has been written.             *)
IdsFitArrays ==
  /\ Builder!InBounds
  /\ graph # None /\ added = Len(given_nodes) =>
       /\ DOMAIN graph_nodes[graph] = DOMAIN nodes
       /\ \A v \in DOMAIN nodes : graph_nodes[graph][v] = nodes[v]

(* README.md: "CSR-only tree representation".  Although edges is a dict    *)
(* filled in the middle of a recursion, and lists are attached to whatever *)
(* node came last, the edges reach create_graph in the order of a CSR      *)
(* matrix, sorted by source and then by target.                            *)
CsrOrder ==
  \A x, y \in DOMAIN given_edges : x < y =>
    \/ given_edges[x].source < given_edges[y].source
    \/ /\ given_edges[x].source = given_edges[y].source
       /\ given_edges[x].target < given_edges[y].target
=============================================================================

------------------------------- MODULE AstTree -------------------------------
(***************************************************************************)
(* ast_dict_to_incidence_list_and_attributes of arboql/ast_utils.py: the   *)
(* recursion of process_node over the nested dicts, lists and leaves that  *)
(* ast_to_dict makes of a Python AST, with the counters it shares through  *)
(* nonlocal.  The recursion is a stack of calls; the input is any AST, its *)
(* next key, element or leaf being chosen when process_node reads it.      *)
(***************************************************************************)
EXTENDS Integers, Sequences

CONSTANTS
  Keys,      (* field names of AST classes, and "type"                     *)
  Strings,   (* str leaves: class names, identifiers, string constants     *)
  Others,    (* f"_{x}" for the other leaves: None, numbers, ...           *)
  MaxNodes   (* bound of node_counter                                      *)

ASSUME InputAssumption == "type" \in Keys /\ MaxNodes \in Nat

AttributeTexts == Keys \cup Strings \cup Others \cup {"_root"}

VARIABLES
  node_counter, attribute_counter,
  edges,              (* the pairs <<source, target>> appended so far      *)
  nodes,              (* node id -> attribute id                           *)
  attributes_lookup,  (* text -> attribute id                              *)
  stack               (* calls of process_node, the running one last       *)

attributes == <<attribute_counter, attributes_lookup>>
vars == <<node_counter, edges, nodes, attributes, stack>>

(* A call: not yet dispatched on the type of its value, or in the loop of  *)
(* the dict or of the list branch.  node is its current_node, keys are the *)
(* keys of the dict it has seen; history: rule is the node of the key its  *)
(* value belongs to in the input.                                          *)
Call(kind, node, rule, keys) ==
  [kind |-> kind, node |-> node, rule |-> rule, keys |-> keys]

Init ==
  /\ node_counter = 0 /\ attribute_counter = 0
  /\ edges = {} /\ nodes = <<>> /\ attributes_lookup = <<>> /\ stack = <<>>
-----------------------------------------------------------------------------
Extended(f, x, y) == [z \in DOMAIN f \cup {x} |-> IF z = x THEN y ELSE f[z]]

AttributeId(t) ==
  IF t \in DOMAIN attributes_lookup THEN attributes_lookup[t] ELSE attribute_counter

(* Mutations: an id is given out without advancing the counter; a node     *)
(* takes the id of the one before, or leaves one out; an element of a list *)
(* is attached to the root, or to the node before the newest one.          *)
SameAttributeAgain(t) ==
  /\ attributes_lookup' = Extended(attributes_lookup, t, AttributeId(t))
  /\ UNCHANGED attribute_counter
StaleId == node_counter
IdSkipped == node_counter + 2
ItemParentRoot == 0
ItemParentBefore == node_counter - 1

GetAttributeId(t) ==
  /\ attributes_lookup' = Extended(attributes_lookup, t, AttributeId(t))
  /\ attribute_counter' = IF t \in DOMAIN attributes_lookup THEN attribute_counter
                                                            ELSE attribute_counter + 1

FreshId == node_counter + 1

(* The three statements shared by the dict, str and object branches.       *)
Attach(source, t) ==
  /\ node_counter < MaxNodes
  /\ node_counter' = FreshId
  /\ edges' = edges \cup {<<source, node_counter'>>}
  /\ nodes' = Extended(nodes, node_counter', AttributeId(t))
  /\ GetAttributeId(t)

Top == stack[Len(stack)]
Popped == SubSeq(stack, 1, Len(stack) - 1)
Running(kind) == stack # <<>> /\ Top.kind = kind

(* process_node(ast_dict): the root node, then the dict of the Module.     *)
Start ==
  /\ DOMAIN nodes = {}
  /\ nodes' = Extended(nodes, 0, AttributeId("_root"))
  /\ GetAttributeId("_root")
  /\ stack' = <<Call("dict", 0, 0, {})>>
  /\ UNCHANGED <<node_counter, edges>>

(* One key of a dict: its node, then the call for its value.  The first    *)
(* key that ast_to_dict stores is "type".                                  *)
Key(t) ==
  /\ Running("dict")
  /\ t \notin Top.keys /\ (Top.keys = {} => t = "type")
  /\ Attach(Top.node, t)
  /\ stack' = Append([stack EXCEPT ![Len(stack)].keys = @ \cup {t}],
                     Call("called", node_counter', node_counter', {}))

EnterDict ==
  /\ Running("called")
  /\ stack' = [stack EXCEPT ![Len(stack)].kind = "dict"]
  /\ UNCHANGED <<node_counter, edges, nodes, attributes>>

(* No field of an AST holds a list of lists, and "type" holds no list.     *)
EnterList ==
  /\ Running("called")
  /\ stack[Len(stack) - 1].kind = "dict" /\ stack[Len(stack) - 1].keys # {"type"}
  /\ stack' = [stack EXCEPT ![Len(stack)].kind = "list"]
  /\ UNCHANGED <<node_counter, edges, nodes, attributes>>

ItemParent == node_counter

(* One element of a list: what it is called with is node_counter.          *)
Item ==
  /\ Running("list")
  /\ stack' = Append(stack, Call("called", ItemParent, Top.rule, {}))
  /\ UNCHANGED <<node_counter, edges, nodes, attributes>>

Leaf(t) ==
  /\ Running("called")
  /\ Attach(Top.node, t)
  /\ stack' = Popped

Return ==
  /\ Running("list") \/ (Running("dict") /\ Top.keys # {})
  /\ stack' = Popped
  /\ UNCHANGED <<node_counter, edges, nodes, attributes>>

Next ==
  \/ Start
  \/ \E t \in Keys : Key(t)
  \/ EnterDict \/ EnterList \/ Item
  \/ \E t \in Strings \cup Others : Leaf(t)
  \/ Return

Spec == Init /\ [][Next]_vars
-----------------------------------------------------------------------------
Calls == [kind : {"called", "dict", "list"}, node : 0..MaxNodes,
          rule : 0..MaxNodes, keys : SUBSET Keys]

(* Ranges; node 0, the root, is the target of no edge, and every call of   *)
(* process_node is given a node id.                                        *)
TypeOK ==
  /\ node_counter \in 0..MaxNodes /\ attribute_counter \in Nat
  /\ edges \subseteq (0..MaxNodes) \X (1..MaxNodes)
  /\ stack \in Seq(Calls)

(* The result is always a tree: the ids are 0..node_counter without gaps,  *)
(* as create_graph needs them to be, every node but the root has exactly   *)
(* one parent, and the parent is older.                                    *)
TreeOK ==
  /\ DOMAIN nodes = 0..node_counter \/ (DOMAIN nodes = {} /\ node_counter = 0)
  /\ \A e \in edges : e[1] < e[2] /\ e[2] <= node_counter
  /\ \A i \in 1..node_counter : \E p \in 0..i-1 : <<p, i>> \in edges
  /\ \A d, e \in edges : d[2] = e[2] => d = e

(* Node ids number the tree in preorder, so that a subtree is an interval  *)
(* of ids: no edge leaves from between a node and its child to before it.  *)
PreorderOK ==
  \A d, e \in edges : d[1] < e[2] /\ e[2] < d[2] => d[1] <= e[1]

(* The children of a node are appended from the id after its own on,       *)
(* whatever is attached in between.  As sources enter the dict edges with  *)
(* their first child, and ids are in preorder, it is filled in CSR order.  *)
FirstChildOK == \A e \in edges : <<e[1], e[1] + 1>> \in edges

(* Attribute ids are 0..attribute_counter-1, one for each text, "_root"    *)
(* the first, and every node has the id of a text in the lookup.           *)
AttributesOK ==
  /\ \A t \in DOMAIN attributes_lookup : attributes_lookup[t] \in 0..attribute_counter-1
  /\ \A c \in 0..attribute_counter-1 : \E t \in DOMAIN attributes_lookup : attributes_lookup[t] = c
  /\ \A s, t \in DOMAIN attributes_lookup :
       attributes_lookup[s] = attributes_lookup[t] => s = t
  /\ \A i \in DOMAIN nodes : nodes[i] \in 0..attribute_counter-1
  /\ IF DOMAIN nodes = {} THEN attribute_counter = 0
     ELSE "_root" \in DOMAIN attributes_lookup /\ attributes_lookup["_root"] = 0

Label(v) == CHOOSE t \in DOMAIN attributes_lookup : attributes_lookup[t] = nodes[v]

(* The text that a node was made for can be read back from its attribute   *)
(* id at once and for ever: whatever is looked up later, through the dict  *)
(* and the counter shared by all calls, no node changes its label.         *)
LabelsStay ==
  [][/\ \A v \in DOMAIN nodes : Label(v)' = Label(v)
     /\ \A t \in Keys : Key(t) => Label(node_counter)' = t
     /\ \A t \in Strings \cup Others : Leaf(t) => Label(node_counter)' = t]_vars

Parent(v) == CHOOSE p \in 0..node_counter : <<p, v>> \in edges

(* The tree that has been made, with the texts back in place of their ids. *)
Tree ==
  IF DOMAIN nodes = {} THEN <<>>
  ELSE [x \in 1..node_counter+1 |->
          [text |-> Label(x-1), parent |-> IF x = 1 THEN -1 ELSE Parent(x-1)]]

Grown == INSTANCE PreorderTree WITH Texts <- Keys \cup Strings \cup Others, tree <- Tree

(* Whatever the AST, and although a list attaches its elements to whatever *)
(* node came last: in preorder the tree only ever grows, at its right edge.*)
ImplementsPreorderTree == Grown!Spec

(* The elements of a list hang below each other, but not outside of their  *)
(* rule: from when the node of a key is made until process_node is done    *)
(* with its value, every edge leaves from that node or from a newer one.   *)
BelowRule ==
  \A x \in DOMAIN stack : \A e \in edges :
    e[2] > stack[x].rule => e[1] >= stack[x].rule

(* What a list holds are "Children of a rule": the elements of the list    *)
(* become children of the node of the key that the list belongs to.        *)
ListChildrenOfRule == \A i \in DOMAIN stack : stack[i].node = stack[i].rule
=============================================================================

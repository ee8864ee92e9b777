------------------------------ MODULE AstDict -------------------------------
(***************************************************************************)
(* ast_to_dict of arboql/ast_utils.py, and what process_node makes of its  *)
(* result, as functions of the AST.  A node of an AST is its class and the *)
(* sequence of its fields; a value is a node, a list of values or a leaf.  *)
(***************************************************************************)
EXTENDS Integers, SequencesExt

(* Values, of ASTs and of the dicts made of them.  The text of a leaf is   *)
(* the label that process_node gives it: f"_{x}" unless x is a str.        *)
Node(class, fields) == [kind |-> "ast", class |-> class, fields |-> fields]
List(items) == [kind |-> "list", items |-> items]
Str(text) == [kind |-> "str", text |-> text]
Other(text) == [kind |-> "other", text |-> text]
Dict(items) == [kind |-> "dict", items |-> items]
Entry(key, value) == [key |-> key, value |-> value]
-----------------------------------------------------------------------------
(* Mutation: a key that is assigned again keeps its first value.           *)
FirstKept(items, key, value) ==
  IF \E x \in DOMAIN items : items[x].key = key THEN items
  ELSE Append(items, Entry(key, value))

(* node_dict[key] = value: the first assignment of a key fixes its place.  *)
Stored(items, key, value) ==
  IF \E x \in DOMAIN items : items[x].key = key
  THEN [x \in DOMAIN items |-> IF items[x].key = key THEN Entry(key, value) ELSE items[x]]
  ELSE Append(items, Entry(key, value))

RECURSIVE AstToDict(_)
AstToDict(value) ==
  CASE value.kind = "ast" ->
         Dict(FoldLeft(LAMBDA d, field : Stored(d, field[1], AstToDict(field[2])),
                       <<Entry("type", Str(value.class))>>, value.fields))
    [] value.kind = "list" ->
         List([x \in DOMAIN value.items |-> AstToDict(value.items[x])])
    [] OTHER -> value
-----------------------------------------------------------------------------
(* A tree is the sequence of its nodes by id, the root, which has id 0,    *)
(* first: the label of each node and the id of its parent.                 *)
TreeNode(text, parent) == [text |-> text, parent |-> parent]

RECURSIVE ProcessNode(_, _, _)
ProcessNode(tree, value, current_node) ==
  CASE value.kind = "dict" ->
         FoldLeft(LAMBDA t, item : ProcessNode(Append(t, TreeNode(item.key, current_node)),
                                               item.value, Len(t)),
                  tree, value.items)
    [] value.kind = "list" ->
         FoldLeft(LAMBDA t, child : ProcessNode(t, child, Len(t) - 1), tree, value.items)
    [] OTHER -> Append(tree, TreeNode(value.text, current_node))

TreeOf(ast) == ProcessNode(<<TreeNode("_root", -1)>>, AstToDict(ast), 0)

RECURSIVE Texts(_)
Texts(value) ==
  CASE value.kind = "dict" ->
         FoldLeft(LAMBDA s, item : s \o <<item.key>> \o Texts(item.value), <<>>, value.items)
    [] value.kind = "list" ->
         FoldLeft(LAMBDA s, child : s \o Texts(child), <<>>, value.items)
    [] OTHER -> <<value.text>>
=============================================================================

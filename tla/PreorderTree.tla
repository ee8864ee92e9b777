---------------------------- MODULE PreorderTree ----------------------------
(***************************************************************************)
(* What process_node promises whoever reads its result, whatever the AST:  *)
(* a labelled tree that grows in preorder.  A new node becomes the last    *)
(* child of the newest node or of an ancestor of that; no node that is in  *)
(* the tree ever changes its label or its parent.                          *)
(***************************************************************************)
EXTENDS Integers, Sequences

CONSTANT Texts  (* the labels of nodes                                     *)

VARIABLE tree   (* the nodes by id, the root, which has id 0, first        *)

TreeNode(text, parent) == [text |-> text, parent |-> parent]

Init == tree = <<>>

Plant == tree = <<>> /\ tree' = <<TreeNode("_root", -1)>>

(* The newest node and its ancestors: the nodes p such that no node after  *)
(* p has a parent before p.                                                *)
RightEdge ==
  {p \in 0..Len(tree)-1 : \A x \in DOMAIN tree : p < x - 1 => p <= tree[x].parent}

Grow ==
  \E p \in RightEdge, t \in Texts : tree' = Append(tree, TreeNode(t, p))

Next == Plant \/ Grow

Spec == Init /\ [][Next]_tree
=============================================================================

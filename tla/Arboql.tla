------------------------------- MODULE Arboql -------------------------------
(***************************************************************************)
(* DictReader for ASTs: the dict of a program and the texts of a value are *)
(* what the functions of AstDict make of them.                             *)
(***************************************************************************)
EXTENDS AstDict, DictReader

(* Lists of at most one element.                                           *)
RECURSIVE Plain(_)
Plain(value) ==
  CASE value.kind = "ast" -> \A x \in DOMAIN value.fields : Plain(value.fields[x][2])
    [] value.kind = "list" ->
         Len(value.items) <= 1 /\ \A x \in DOMAIN value.items : Plain(value.items[x])
    [] OTHER -> TRUE

(* A value without the types of its constants: only their texts are left.  *)
RECURSIVE Unkinded(_)
Unkinded(value) ==
  CASE value.kind = "ast" ->
         Node(value.class,
              [x \in DOMAIN value.fields |-> <<value.fields[x][1], Unkinded(value.fields[x][2])>>])
    [] value.kind = "list" -> List([x \in DOMAIN value.items |-> Unkinded(value.items[x])])
    [] OTHER -> Str(value.text)

PlainTrees == [q \in {p \in Programs : Plain(p)} |-> TreeOf(q)]
PlainValues == [q \in DOMAIN PlainTrees |-> Unkinded(q)]

(* Where no list has a second element, two programs have the same tree if  *)
(* and only if they differ in nothing but the types of constants: a str    *)
(* that reads as another constant is lost by f"_{node}", and nothing else  *)
(* is, although lists leave no node of their own and an ExceptHandler      *)
(* loses the name of its class.                                            *)
PlainProgramsDistinguished ==
  Parsed /\ Plain(program) =>
    \A q \in DOMAIN PlainTrees :
      PlainTrees[q] = Tree <=> PlainValues[q] = PlainValues[program]

(* "edges: dict[int, list[int]]": what ast_to_tree returns can be given to *)
(* create_graph, which then returns a graph.                               *)
AstTreesBuild == raised = {}
=============================================================================

------------------------------ MODULE MCArboql ------------------------------
(* Small Python programs, with the fields that their classes have in ast.  *)
EXTENDS Arboql

NoneLeaf == Other("_None")
Constant(c) == Node("Constant", << <<"value", c>>, <<"kind", NoneLeaf>> >>)
Name(id) ==
  Node("Name", << <<"id", Str(id)>>, <<"ctx", Node("Load", <<>>)>> >>)
Pass == Node("Pass", <<>>)
Expr(c) == Node("Expr", << <<"value", Constant(c)>> >>)
Global(names) == Node("Global", << <<"names", List(names)>> >>)
If(test, body, orelse) ==
  Node("If", << <<"test", test>>, <<"body", List(body)>>, <<"orelse", List(orelse)>> >>)
ExceptHandler(type, name) ==
  Node("ExceptHandler", << <<"type", type>>, <<"name", name>>, <<"body", List(<<Pass>>)>> >>)
Try(handler) ==
  Node("Try", << <<"body", List(<<Pass>>)>>, <<"handlers", List(<<handler>>)>>,
                 <<"orelse", List(<<>>)>>, <<"finalbody", List(<<>>)>> >>)
Module(body) == Node("Module", << <<"body", List(body)>>, <<"type_ignores", List(<<>>)>> >>)

Simple == {Pass, Global(<<Str("a")>>), Global(<<Str("a"), Str("_1")>>)}
            \cup {Expr(c) : c \in {Str("a"), Str("_1"), Other("_1")}}

Ifs ==
  {If(test, <<s>>, orelse) :
     test \in {Name("a"), Constant(Other("_1"))}, s \in {Pass, Expr(Str("a"))},
     orelse \in {<<>>, <<Pass>>, <<Expr(Str("a"))>>}}

Tries ==
  {Try(ExceptHandler(NoneLeaf, NoneLeaf)), Try(ExceptHandler(Name("a"), NoneLeaf)),
   Try(ExceptHandler(Name("a"), Str("a")))}

MCPrograms ==
  {Module(<<>>)} \cup {Module(<<s>>) : s \in Simple \cup Ifs \cup Tries}
    \cup {Module(<<s, t>>) : s \in Ifs \cup Tries, t \in {Pass, Expr(Str("a"))}}

(* A value and what process_node is given of it, or has left of it.        *)
RECURSIVE Parts(_)
Parts(value) ==
  IF IsLeaf(value) \/ value.items = <<>> THEN {value}
  ELSE {value} \cup Parts(Unread(value))
         \cup Parts(IF value.kind = "dict" THEN Head(value.items).value ELSE Head(value.items))

MCValues == UNION {Parts(AstToDict(p)) : p \in MCPrograms}

MCKeys ==
  {"type", "body", "type_ignores", "value", "kind", "id", "ctx", "names", "test",
   "orelse", "handlers", "finalbody", "name"}
MCStrings ==
  {"Module", "Constant", "Name", "Load", "Pass", "Expr", "Global", "If", "Try",
   "ExceptHandler", "a", "_1"}
MCOthers == {"_None", "_1"}
=============================================================================

----------------------------- MODULE DictReader -----------------------------
(***************************************************************************)
(* The Python package on whole programs: ast_to_dict makes a dict of the   *)
(* AST of a source file, and process_node reads it: the steps are those of *)
(* Package, directed by the dict.  What ast_to_dict returns, and which     *)
(* texts a value consists of, are parameters here; AstDict defines both as *)
(* recursive functions and Arboql puts the two together.                   *)
(***************************************************************************)
EXTENDS Package

CONSTANTS
  Programs,    (* source files                                             *)
  DictOf(_),   (* the dict that load_python_file makes of one              *)
  Values,      (* the dicts, lists and leaves in them, and what is left of *)
               (* a dict or a list when some of its items have been read   *)
  TextsOf(_)   (* the keys and leaves of a value, in its own order         *)

IsLeaf(value) == value.kind \in {"str", "other"}
Unread(value) == [kind |-> value.kind, items |-> Tail(value.items)]

(* The items of a dict are its keys and values; process_node labels a leaf *)
(* with its text.                                                          *)
ASSUME ValuesAssumption ==
  /\ \A p \in Programs : DictOf(p) \in Values /\ DictOf(p).kind = "dict"
  /\ \A v \in Values : v.kind \in {"dict", "list", "str", "other"}
  /\ \A v \in Values : IsLeaf(v) => v.text \in Strings \cup Others
  /\ \A v \in Values :
       ~IsLeaf(v) /\ v.items # <<>> =>
         /\ Unread(v) \in Values
         /\ v.kind = "dict" => Head(v.items).key \in Keys /\ Head(v.items).value \in Values
         /\ v.kind = "list" => Head(v.items) \in Values

ASSUME TextsAssumption ==
  \A v \in Values :
    /\ TextsOf(v) \in Seq(AttributeTexts)
    /\ IsLeaf(v) => TextsOf(v) = <<v.text>>
    /\ ~IsLeaf(v) /\ v.items = <<>> => TextsOf(v) = <<>>
    /\ v.kind = "dict" /\ v.items # <<>> =>
         TextsOf(v) =
           <<Head(v.items).key>> \o TextsOf(Head(v.items).value) \o TextsOf(Unread(v))
    /\ v.kind = "list" /\ v.items # <<>> =>
         TextsOf(v) = TextsOf(Head(v.items)) \o TextsOf(Unread(v))

VARIABLES
  program,  (* the source file                                             *)
  pending   (* what each call on the stack has still to read of its value  *)

input == <<program, pending>>

ProgramInit == program \in Programs /\ pending = <<>> /\ PackageInit
-----------------------------------------------------------------------------
Left == pending[Len(pending)]
Finished == SubSeq(pending, 1, Len(pending) - 1)
WithoutFirst == [pending EXCEPT ![Len(pending)] = Unread(Left)]

ReadFile == Start /\ pending' = <<DictOf(program)>>

ReadKey ==
  /\ Running("dict") /\ Left.items # <<>>
  /\ Key(Head(Left.items).key)
  /\ pending' = Append(WithoutFirst, Head(Left.items).value)

ReadItem ==
  /\ Running("list") /\ Left.items # <<>>
  /\ Item
  /\ pending' = Append(WithoutFirst, Head(Left.items))

Dispatch ==
  /\ Running("called")
  /\ \/ Left.kind = "dict" /\ EnterDict /\ UNCHANGED pending
     \/ Left.kind = "list" /\ EnterList /\ UNCHANGED pending
     \/ IsLeaf(Left) /\ Leaf(Left.text) /\ pending' = Finished

ReadAll ==
  /\ Running("dict") \/ Running("list")
  /\ Left.items = <<>>
  /\ Return
  /\ pending' = Finished

ReadProgram ==
  /\ ReadFile \/ ReadKey \/ ReadItem \/ Dispatch \/ ReadAll
  /\ UNCHANGED <<program, builder>>

ProgramNext == ReadProgram \/ ((Build \/ Fill) /\ UNCHANGED input)

ProgramSpec == ProgramInit /\ [][ProgramNext]_<<input, vars, builder>>
-----------------------------------------------------------------------------
(* The labels of the nodes made so far, by id.                             *)
Labels == [x \in 1..node_counter+1 |-> Label(x-1)]

(* Every key and every leaf of the dict that ast_to_dict made, with what   *)
(* is left in it of the AST, is the label of a node of its own, in the     *)
(* order of the dict and of its lists, and nothing else is.                *)
TextsInOrder == Parsed => Labels = <<"_root">> \o TextsOf(DictOf(program))
=============================================================================

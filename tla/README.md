# Formal models of gpu-graphs

TLA+ modules, TLC configurations and TLAPS proofs for the graph pattern matching
library `arboqllib` (C, `src/src`) and its Python package `arboql`
(`src/bindings/python/src/arboql`). Paths in this file and in `PROJECT.json` start
with `src/`, the root of the repository.

## The system

The library is meant to match patterns in trees of source code. What exists is a
store for graphs, two coroutines that enumerate candidate assignments, a stub of the
matcher, and Python code that turns a source file into a tree and builds a graph.
Everything is sequential: OpenMP and a GPU runtime are linked (`src/CMakeLists.txt`)
but no thread is started and no kernel launched, so there is no concurrency to model.
What is hard is state that lives across calls: coroutines that resume in the middle
of a search, memory owned now by the caller and now by the struct, counters shared by
a recursion, arrays that are filled cell by cell.

| component | state | operations | modules |
|---|---|---|---|
| injective mappings coroutine, `src/src/algorithms/injective_mappings.c` | `inj_coroutine`: partial assignment `a`, candidates `nextc`, marks `used`, depth `pos`, flags, `owns_mem` | `inj_init`, `inj_next`, `inj_destroy` | `InjectiveMappings` |
| Cartesian product coroutine, `src/src/algorithms/cartesian_product.c` | `cp_coroutine`: mixed-radix counter `idx`, borrowed `sets` and `sizes`, flags | `cp_init`, `cp_next`, `cp_destroy` | `CartesianProduct` |
| AST to tree, `ast_utils.py` | `node_counter`, `attribute_counter`, `edges`, `nodes`, `attributes_lookup`, the call stack | `load_python_file`, `ast_to_dict`, `process_node`, `get_attribute_id`, `ast_to_tree` | `AstTree`, `PreorderTree`, `AstDict`, `DictReader` |
| graph store and builder, `src/src/graph.c`, `graph_builder.py` | heap of `Graph`s, locals of `create_graph` | `malloc_graph`, `add_node`, `add_edge`, `free_graph`, `create_graph` | `GraphBuilder`, `GraphStore` |
| matcher, `src/src/algorithms/pattern_matching.c`, with `print_graph` of `logger.c` | its loop variable and the output | `match`, a stub that prints both graphs and returns 42; `print_graph` | `GraphBuilder` |
| logger, `src/src/logger.c` | `static_logger`: level, location flag, streams | `init_logger`, `set_log_level`, `LOG_*` | `Logger` |
| ctypes bindings, `ctype_bindings.py` | mirrored structs | one wrapper per C function, fields read back as `c_int` | conversions, in `GraphBuilder` and `Logger` |
| package, `__init__.py` | all of the above | `ast_to_tree`, then `create_graph` | `Package`, `DictReader`, `Arboql` |
| example client and build files, `src/test.py`, `CMakeLists.txt` | none | one linear script | not modelled |
| sample data, `src/data/sample0.py` | none | none, a file to parse | not modelled |

Interactions. `create_graph` calls `malloc_graph`, `add_node` and `add_edge` through
ctypes, which converts the arguments and raises when it cannot; `ast_to_tree` produces
the two dicts `create_graph` takes; `match` and `print_graph` read a graph; all C
functions may log through the static logger. The coroutines are `static`, declared
in `algorithms.h` and not called yet; their callers are modelled from the usage
comments above them.

What makes each component correct:

- coroutines: every element exactly once, in lexicographic order, then 0 for ever;
  every array access in bounds; destroy frees what init allocated and nothing else,
  whatever sequence of calls went before; the caller's loop ends;
- AST to tree: a tree, ids dense (they become array indices), attribute ids
  unambiguous, every text of the dict of the program a node, edges in CSR order,
  programs that differ told apart, and the shape the comments promise;
- graph store: writes in bounds, no uninitialised cell in a graph that is handed out, a
  graph made of its own arguments and unchanged until it is freed, nothing leaked but
  what a call that raised was filling;
- bindings and matcher: what is written as `unsigned` and read back as `int` means the
  same; `match` prints all of both its graphs;
- logger: the level asked for is the level in force, and nothing is written to the
  streams before `init_logger` has set them;
- package: a tree can be made a graph.

## Modules and the code

`Enumerator` is the abstract specification of a coroutine: a set, what was handed out,
whether 0 was returned. `Yield` hands out the least element that is left in the order
`Precedes`; `Finish` needs that nothing is left. `parity` flips with every call that
returns 1: without it, a call that hands out an old element again, before or after
the end, would change nothing and pass for a stuttering step. `LexOrder` defines the
order.

`InjectiveMappings`. The fields of the struct are variables of the same name.
`InjInit*` are the ways through `inj_init` (trivial, caller's buffers, malloced,
out of memory), `InjNextDone`/`InjNextEmpty`/`InjNextCall` the entry of `inj_next`,
and each of `Emit`, `Choose`, `Backtrack`, `Exhaust` one iteration of its `for (;;)`.
The inner `while` that skips used candidates is "the least element of `Candidates`".
`mem`, `blocks` and `life` describe what the pointers point to and what the caller did.
`yielded`, `status` and `parity` are history variables. `CInt` is the cast to `int`: a wrap
modulo `2 * (INT_MAX + 1)`.

`CartesianProduct`. `CpInit*` are the ways through `cp_init`; `Resolve`, `Carry`,
`Overflow` one iteration of the carry loop each. A tuple is named by its indices:
`cp_next` copies `sets[i][idx[i]]`, so the values carry no more information, and a
read in bounds is an index below its size. `idx_at` says what `idx` points to and
`passed` what the caller passed as `idx_storage`.
`cp_destroy` is given "same pointer you passed to init" (the comment on its
parameter). `DestroyRejected` says whether callers destroy a struct whose `cp_init`
rejected its arguments.

`AstTree`. The recursion of `process_node` is a stack of calls; `Key`, `Item`, `Leaf`
are one iteration of the dict loop, one of the list loop, and the two leaf branches.
The AST is not built beforehand: which key, element or leaf comes next is chosen when
the code reads it, so every AST within the bound is covered. The order of edges inside
one incidence list is the order of their targets, so `edges` is a set of pairs.
Every value in `nodes` and every target has the constant `ATTR_UNSIGNED` as its first
component, which is left out. `rule` in a call is a history field.

`PreorderTree` is the abstract specification of `process_node` for whoever reads its
result: a labelled tree that grows in preorder. `Grow` adds a last child to the newest node
or to one of its ancestors (`RightEdge`), and nothing else ever changes. The refinement
(`Grown`) reads the tree back from the state: `Label` undoes the attribute ids through
`attributes_lookup`, `Parent` looks up the edge. That lists attach their elements to the
newest node does not take the code out of this specification; it only loses which
of the growing nodes are siblings.

`AstDict` has `ast_to_dict` and `process_node` as functions of a whole AST. `Stored`
is the assignment `node_dict[key] = value`: a field named `type` (of `ExceptHandler`)
takes the place of the class name. The recursive functions here say what `AstTree`
does in steps, on inputs that are given rather than chosen while they are read.

`GraphStore` is the abstract specification of `create_graph` and `free_graph`: a
function from addresses to finished graphs, a call that is running, and `Made`,
which says what graph an input stands for.

`GraphBuilder`. One step per `add_node` and `add_edge`, which write unchecked by index;
a cell not yet written is `None`. `CUInt` is the conversion of an argument to
`c_uint`, which ctypes does without a range check, and `CInt` the reading of an
unsigned field through `c_int`. A conversion error may occur at any item, which
leaves `create_graph` between two writes without freeing the graph (`Fail`). `match`
and `print_graph` are `Match`, `PrintGraph`, and one `PrintLine` per turn of the loop,
whose `int i` counts up to an `unsigned`: past `INT_MAX` it wraps or goes on, as the
build decides. `held` and `raised` are history variables: what has been handed out and
not freed since, and what the calls that raised were filling. `free_graph` takes no
pointer away from the client. That a client frees each graph at most once, only if it
was handed out, and does not print or match it afterwards is an assumption on the
client, taken from `test.py`: it is the guard `g \in held` of `FreeGraph`, `PrintGraph` and
`Match`. The refinement maps the graphs in `held` to the store, and the call of
`create_graph` that is running, if any, to the inputs it was given. `MCGraphBuilder`
bounds the heap for the run.

`Logger`. `static_logger` starts zeroed, as static memory does. `client` says who uses the
library: the Python package runs `init_logger` when it is imported
(`ctype_bindings.py:123-124`), before its clients can call anything and never again; a
C client may call it at any time or not at all. `CLevel` is the conversion of a level to
the unsigned enum, and levels are compared as unsigned. The three streams are set
together and are one variable. `asked` is a history variable, `wrote` the line that the
last call wrote; after a line to a NULL stream (`Crashed`) nothing happens any more.

`Package` composes `AstTree` and `GraphBuilder` (by `INSTANCE`) as the package means
them to be used: when `process_node` has made a tree of any AST, `Build` gives its two
dicts to `create_graph`, and `Fill` are the steps of `create_graph` from there on. A dict
is iterated in insertion order, which the state of `AstTree` does not keep: `nodes` is
filled with increasing ids, and a source enters `edges` with its first target
(`Inserted`), so `NodesGiven` and `EdgesGiven` sort by that. The targets are the tuples of
`process_node`, on which `add_edge` raises, so of the edge steps only the raising one is
in `Fill`.

`DictReader` directs `Package` by whole programs: `program` is a source file, `DictOf` the
dict that `load_python_file` makes of it, and `pending` what the running calls have still
to read of that dict, so `ReadKey`, `ReadItem` and `Dispatch` take the steps of `AstTree` that
the program asks for. The dict and the texts of a value are parameters, with assumptions that
say what a dict is made of and that `TextsOf` satisfies the recursive equations of the texts
(a dict: the first key, the texts of its value, those of the rest). `Arboql` gives
the parameters the recursive functions of `AstDict`; `MCArboql` has the programs.

## Model checking

| run | shows |
|---|---|
| `injective_mappings` | `TypeOK`, `PrefixOK` (marks = images of the prefix, distinct, `nextc` their successors), `YieldedExactly` (handed out = behind the search), `MemoryOK`, `SearchAdvances` (each iteration moves a bounded lexicographic variant forward), and `ImplementsEnumerator` |
| `injective_mappings_loop` | `LoopEnds` for the documented loop |
| `injective_mappings_wide` | violation: images out of `0..n-1` once `n > INT_MAX + 1` |
| `cartesian_product` | `TypeOK`, `CounterOK` (reads in bounds, zeros behind the carry), `YieldedExactly`, `FreesOnlyOwn`, `CounterAdvances` (the variant of the carry), `ImplementsEnumerator` |
| `cartesian_product_loop` | `LoopEnds` for the documented loop |
| `cartesian_product_reject` | violation: `cp_destroy` frees a foreign pointer after a rejected `cp_init` |
| `package` | of the tree: `TypeOK`, `TreeOK`, `PreorderOK`, `FirstChildOK` (a node with children has the next id as a child), `AttributesOK`, `LabelsStay` (a node keeps the text it was made for), `BelowRule` (what belongs to a key hangs below its node), `ImplementsPreorderTree` (the labelled tree only grows, at its right edge); of the composition: `PreconditionMet` (dense keys, edges between them), `IdsFitArrays`, `CsrOrder` |
| `ast_tree_lists` | violation: later elements of a list are not children of the rule |
| `graph_builder` | `TypeOK` (ranges; what was handed out and not freed is on the heap, and not the graph being filled), `InBounds`, `LeakedByRaises` (unreachable graphs are exactly those of the calls that raised), `EdgesLeadToNodes` (ids read through `c_int`: right up to `INT_MAX`, no node above), `ImplementsGraphStore`, `MatchPrintsBoth` |
| `logger` | `LevelReadBack` (set through `c_uint`, read through `c_int`), `LevelInForce` (which levels turn DEBUG lines on, -1 included), `NullStreamsUnused` (who can crash on a NULL stream, and how) |
| `arboql` | `TextsInOrder`, `PlainProgramsDistinguished` on whole programs |
| `arboql_build` | violation: no program can be built into a graph |

Bounds. `MaxN = MaxK = 4` includes k = 0, k = n, k > n, n = 0 and backtracking over
three levels; any number of enumerations on one struct. `INT_MAX = 127` is out of the
way of n <= 4 except in the wide run, where `INT_MAX = 1` stands for a 2-bit int and
n reaches 4. `MaxSets = MaxSize = 3` includes empty sets, singletons, and carries over
three digits. `package` has 3 keys, 2 leaf texts (one of them also a key, so that texts
are shared) and at most 8 nodes below the root: several keys, nested dicts, and lists
of two and three elements with subtrees; `INT_MAX = 8` is the least that
`PackageAssumption` allows. Each AST is converted and built once.

`GraphBuilder` has 2 addresses, so that addresses are reused while another graph is
live, and every input of up to 2 nodes in either order and 2 edges. `INT_MAX = 1`
scales `int` down to 2 bits: 2 edges are then the `INT_MAX + 1` of the assumption, so
that `int i` wraps at the end of a loop, and the attribute 6 is out of the range of
`unsigned` while 1 is not. A third node has the id 2, above `INT_MAX`: `MCGraphBuilder` lets
graphs of 3 nodes on the heap only alone (their edges lead to nodes or not whatever
else is there), since pairs of them would be millions of states. `Logger` has 3-bit ints and levels -9..9, on both sides of
both C ranges, and both kinds of clients. `Arboql` has 52 programs: every way to put two statements out of `if`
with and without `else` and `try` with a handler that is bare, typed or named, next to
`pass`, `global` with one or two names, and constants that look like each other;
`MaxNodes = 60` is never reached.

`package`, `graph_builder`, `arboql` and `logger` do not check deadlock: `package` and `arboql`
end when `create_graph` has raised, and where `MaxNodes` cuts an AST short;
`graph_builder` when leaked graphs have used up the addresses; `logger` when the process
has crashed on a NULL stream. The coroutines never stop.

Fairness. `LoopSpec` of the coroutines lets the caller loop on the next function until
it returns 0, as the usage comments do, with weak fairness of the call and of the loop
inside it: sequential code that is not blocked runs. No fairness is put on inits and
destroys, and none is used for safety.

## Proofs

Checked by `tlapm` for every value of the constants (given the named assumptions of the modules):

- `InjectiveMappingsProofs`: `TypeCorrect`, `PrefixCorrect`, `MemoryCorrect`, from
  `IInv == TypeOK /\ MemoryOK /\ PrefixOK /\ Resumable`. None of the three is inductive alone:
  `pos - 1` is a filled position only because `Resumable` says that a search is left
  below full depth between calls, and that `k > n` is always marked done.
  `SearchAdvancesCorrect`: `Progress` counts twice the candidate of each position, plus one
  where it is taken, so that descending, yielding and backing up all raise it at the
  position they touch and leave the more significant ones alone. With its bound this is
  the variant that `LoopEnds` rests on.
  Under `NoTruncation` (`MaxN <= INT_MAX + 1`, the bound the wide
  run shows to be necessary), `YieldedExactlyCorrect` and `EnumeratorImplemented`. One lemma
  per action says how the set of injections behind the search changes: `Choose` and
  `Backtrack` leave it alone, `Emit` adds exactly the current one, and on `Exhaust` all
  are behind. `ImagesInRangeCorrect` follows: under the same bound the property that the
  wide run violates holds.
- `CartesianProductProofs`: `TypeCorrect`, `CounterCorrect`, and, for callers that leave rejected
  structs alone, `MemoryCorrect`, from
  `IInv == TypeOK /\ OwnerOK /\ CounterOK /\ Resumable`; `CounterAdvancesCorrect` with the same
  kind of variant (a carry stands half way between two values of its digit).
  `YieldedExactlyCorrect`, `EnumeratorImplemented`: while a carry runs, only the digits not yet
  reset count, which makes `Carry` leave the passed tuples alone.
- `AstTreeProofs`: `TypeCorrect`, `TreeCorrect`, `PreorderCorrect`, from `TInv`, whose `StackOK` says
  that the nodes of pending calls grow along the stack and that no edge has left from
  before a pending call since it was made; `AttributesCorrect` on top.

  `FirstChildCorrect` needs `FrontierOK` besides: a call that may still attach a node to an
  inner node that has no child yet is the running one, and that node is the newest.
  `BelowRuleCorrect` needs `RulesOK`: the rule of a call is not newer than its node, and the
  rules grow along the stack. It says what is left of "Children of a rule": the elements
  of a list may hang below each other, but never outside of their rule.
  `LabelsStayCorrect` rests on attribute ids being unambiguous before and after a step.

  `PreorderTreeImplemented`: `AstTree` implements `PreorderTree`. `ParentFacts` makes `Parent` the
  one edge into a node, `ParentStep` and `LabelStep` say that `Attach` changes neither the
  parent nor the label of an older node, and `StackOK` that the node of the running call
  is on the right edge: no edge has left from before it since it was made.
- `GraphBuilderProofs`: `TypeCorrect`, `InBoundsCorrect`, `LeakedByRaisesCorrect`,
  `EdgesLeadToNodesCorrect` and `GraphStoreImplemented`, from
  `HInv == TypeOK /\ LeakedByRaises /\ Parts`. `LeakedByRaises` and the ownership part of
  `TypeOK` need each other: that a leaked graph stays on the heap follows from its not
  being in `held`, out of which `free_graph` takes what it frees. `Parts` says:
  the arrays of the running `create_graph` have the sizes of its arguments and hold,
  in the cells its loops have passed, what the arguments say; every graph in `held` is the
  `Made` of some input. The keys of `nodes` come in any order, so that all cells are
  written only follows when the loop ends, from the keys being distinct and dense.
  `MatchPrintsBothCorrect`, from `HInv /\ Alone /\ PrintOK`: `create_graph`
  and `match` do not overlap, and `stdout` is the listing of what `turn` and `i` have
  passed, also when `i` has wrapped (then the loop has seen the last edge).
- `PackageProofs`: the composition uses its parts as they are specified. `TreeImplemented`:
  every behaviour of `PackageSpec` is one of `AstTree!Spec`. `BuilderImplemented`: it is also one
  of `GraphBuilder!Spec` (with one address and any attribute), so that what was proved of
  both components holds here without being proved again (`GraphBuilderProofs` is
  instantiated). The step that matters is `Build`: `GraphBuilder` lets a client call
  `create_graph` with keys 0..n-1 in any order and edges between them, and
  `PreconditionMetCorrect` says that the dicts of every AST are of that kind. The argument:
  in a finite set with a strict total order the ranks of the elements are 0..n-1, each
  taken once (`RankFacts`, `RankTaken`), so `Sorted` lists each element once and in order; ids
  are dense by `TreeCorrect`; `FirstChildOK` makes the first target of a source its successor
  (`InsertedNext`), hence ordering sources by insertion is ordering them by id, which is
  `CsrOrderCorrect`. `IdsFitArraysCorrect` adds that what has been written when the edges are
  reached is `nodes` itself.
- `DictReaderProofs`: `PackageImplemented` and `TextsInOrderCorrect`, for any set of programs.
  The invariant is `ProgramInv == TInv /\ AttributesOK /\ ReadInv`. Its core, `ReadInOrder`, says
  that while a file is being read, the labels made so far followed by what the calls on the stack
  have still to read, innermost first, are the texts of the whole dict. How much is
  left at each depth is an existential witness (`Composed`), since a concatenation over the
  stack would need recursion. Each step moves texts within that sum: `ReadKey` and a leaf
  move one to the labels (`LabelsGrow`, which rests on `LabelStep`), `ReadItem` and `Dispatch` move
  them between calls, and `ReadAll` drops a call that has nothing left. When the stack
  is empty nothing is left to read, so the labels are the keys and leaves of the dict: in
  spite of the chains that lists make, none is lost, repeated or moved. What `ast_to_dict`
  has lost before (the class name of an `ExceptHandler`) is not in the dict either. `PackageImplemented` maps every step to
  one of `Package`, so that all theorems above hold for given programs too.
- `LoggerProofs`: `LevelReadBackCorrect`, `LevelInForceCorrect`, `NullStreamsUnusedCorrect`, from
  `LevelOK`, which ties the level in force to the one asked for, or to 0 or INFO if none
  was.

Assumptions. `FitsAssumption` of `GraphBuilder`: a graph has at most `UINT_MAX` nodes
and `INT_MAX + 1` edges, as many as the C types of `malloc_graph` and the `int` of
`print_graph` can count. `PackageAssumption`: `MaxNodes <= INT_MAX`, as many as ids that can
be read back, and the value for "nothing" is neither an attribute nor the address.
`LevelsAssumption` of `Logger`: an `int` can hold 2. `ValuesAssumption` of `DictReader`: the values
are dicts, lists and leaves, closed under reading an item, with keys and texts out of
`Keys`, `Strings` and `Others`; `TextsAssumption`: the equations of the texts of a
value. TLC evaluates both with the functions of `AstDict` in the runs of `Arboql`.

Only model-checked: liveness (`LoopEnds`), which is beyond the prover; what is proved of it
is the variant. `PlainProgramsDistinguished`, which says when a recursive function takes two programs to
one tree, and that the recursive functions of `AstDict` satisfy the assumptions of `DictReader`: induction
over data is beyond the prover too, so both rest on the 52 programs. The violations of `FreesOnlyAllocated`, `ListChildrenOfRule`
and `AstTreesBuild`; where the code does keep such a promise, a theorem says so: `MemoryCorrect`,
`BelowRuleCorrect`, `ImagesInRangeCorrect`.

## Divergences found

1. `injective_mappings.c:100` casts a `size_t` image to `int`; line 80 promises values in
   `[0..n-1]`.
2. `cartesian_product.c:58` frees whatever `idx` holds after `cp_init` rejected its arguments
   at line 21 without writing the struct; line 57 says "Free only if we allocated internally".
3. `ast_utils.py:83` passes `node_counter` as the parent of each element of a list, so elements
   after the first hang below the previous one; line 81 says "Children of a rule".
4. `ast_utils.py:72` appends tuples where line 48 declares `dict[int, list[int]]`; `create_graph`
   raises on them at its first `add_edge`, and leaks the graph.

## Not modelled

- `src/data/sample0.py`: a copy of CPython's tests of `typing`, 5512 of the 5778 lines of
  Python outside `test.py`. Nothing imports or executes it; it is text for
  `load_python_file` to parse, with no state or operation in this system. Of the 266 lines
  that are the package, the models stand for about two thirds; the rest is imports,
  declarations of types and signatures, and blank lines. The C sources are modelled
  function by function.
- `ast.parse` and reading files (Python's; the AST is the input), the formatting of
  lines and leaves (`f"_{node}"` is abstracted to sets of texts).
- attribute types, and the layout of the mirrored ctypes structs.
- failing mallocs in `graph.c` (the next statement crashes); node ids that are not
  dense; a client that frees a graph twice or reads it after freeing it; graphs of
  more than `INT_MAX + 1` edges, where the loop of `print_graph` is undefined.
- NULL struct pointers and NULL output buffers: the functions return 0 and change
  nothing. A caller that changes `sets` or `sizes` during an enumeration.
- Python's recursion limit, which ends `ast_to_dict` and `process_node` on deep sources.
- build files, `test.py`, the development container.

Known ambiguities. A list of several elements leaves a chain and not siblings, so an
`if` without `else` that a statement follows has the same tree as the `if` with that
statement in its `else`: this is why `PlainProgramsDistinguished` is stated for plain
programs, whose lists have at most one element. The string `"_1"` and the number `1` have
the same text: `PlainProgramsDistinguished` says that among the plain programs of the run
nothing else is lost, two of them have the same tree if and only if they differ in the
types of constants alone (`Unkinded`).

## Plan

1. Done: both coroutines, their abstract specification, refinement proofs and variants;
   `AstTree` and `GraphBuilder` with their proofs; their composition for every AST with the
   proof that each part behaves in it as specified; the logger with its proofs; the
   composition on whole programs; the abstract tree that `process_node` implements; the order
   of the texts, proved for programs of every size.
2. Left to prove: that the tree of a list is a chain, as a statement about whole lists (the
   parent of each later element is the newest node of the one before), which needs the
   elements as history.
3. Left to model: the mirrored `Edge` and `Graph` layouts, if attributes get types.

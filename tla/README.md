# A verification project for Monty

Monty is an ahead-of-time compiler for a strongly typed dialect of Python, written in
Rust. It evaluates the module level of a program at compile time, type checks the functions
that an entry function leads to, and hands them to Cranelift. This directory holds TLA+
models of the parts of it that carry state, the TLC configurations that check them on small
instances, and proofs, checked by TLAPS, of their central properties for instances of every
size.

Paths below are relative to the repository's root, `src/`.

## 1. Inventory

| Part | State | Operations | What is hard about it |
|---|---|---|---|
| Id arena `SSAMap` (`montyc_core/src/utils/ssamap.rs`) | a vector of slots and, apart from it, the next key | skip, skip_to_nth, reserve, cancel_reserve, try_set_value, insert, get_or_insert, entry | two pieces of state that must agree; a key handed back while others hold theirs |
| Lowering (`montyc_flatcode/src/lower.rs`) | the instructions emitted so far | one visitor per kind of syntax node | branches emitted with placeholders and patched afterwards, some twice |
| Blocks (`montyc_driver/src/typeck/mod.rs`, `block_cfg.rs`) | the block graph | cut flat code into blocks, connect them | transfers of control without an edge |
| Type checker loop (`typeck/cfg_reducer.rs`) | sorted list of processed blocks, sorted queue | pop, visit, push | binary search on lists that must stay sorted; termination; order |
| Block analysis (`typeck/typing_machine.rs`) | types of values, locals, the emitted code | one case per instruction | assertions and panics on unusual shapes |
| Session (`global_context/mod.rs`, `query.rs`, `value_store.rs`) | loaded modules, the runtime's objects, the value store that mirrors them, cached types and flow graphs | initialize, include_module, eval_module, stir_the_pot, get_type_of, get_function_cg_cfg, call_graph_of | a mirror of a graph that changes behind its back; caches of results whose side effects are not cached; recursion in the call graph |
| Import machinery (`montyc_driver/src/import.rs`, `global_context/host.rs`, `montyc_hlirt/src/import`) | sys.path, the importer cache, finders and their listings | import, find_spec, setup | finders and listings cached while directories change; objects changed after they were mirrored |
| Evaluator (`montyc_hlirt/src/eval`) | frames, values, tick counter | one handler per instruction, lookup, calls | scope chains, bounded execution, exceptions as control flow |
| Object space (`montyc_hlirt/src/rt`, `object`, `storage.rs`) | objects, interned strings and numbers | allocate, get and set attributes | dicts copied, changed and put back |
| Type table (`TypingData` in `global_context/mod.rs`) | types and a map back from a type to its id | insert, insert_property | a key of a map that is changed in place |
| Code generation (`montyc_codegen/src/cranelift`) | functions in order of inclusion, names and FuncIds of the object module | include_function, build_all_functions, define_main, define_builtins, build_func | two numberings of functions that must agree |
| Block lowering (`cranelift/builder.rs`) | queue of blocks, values, locals | lower | unsorted list probed with binary search, blocks sealed early |
| Parsers, pretty printer, core data types, query trait, struct buffers | none or local | | pure functions |

How the parts interact. `montyc/src/main.rs` initializes a session: it includes
`builtins.py` and `importlib/_bootstrap.py`, each of which is parsed, lowered, evaluated
and stirred, and then `import::setup` patches the runtime's objects. `montyc build` hands the
session to the code generator, which asks it for the call graph of the entry. That query
includes the input, type checks one function after the other (lowering, blocks, worklist,
block analysis), and follows the references of each. The code generator includes every
function (asking for its flow graph again), declares them all, and builds them one by one.
The program is single threaded and keeps nothing across runs: there are no messages, no
crashes to recover from and no timeouts. The hard behaviours are long sequences of legal
calls, caches that outlive what they depend on, worklists over cyclic graphs, failures half
way through a query, numberings kept in two places, and a file system that others change
while modules are searched for.

`PROJECT.json` lists the hazards, each at its line, with the properties that cover it.

## 2. Modules

| Module | Models | State and actions |
|---|---|---|
| `SSAMap` | the id arena | `inner`, `next_free`, and the history variable `handed` (keys held by callers); one action per method |
| `Search` | nothing of the code: what a graph search promises | `visited`, `frontier`; `Visit`, `Fail`, `Finish` |
| `CfgReducer` | `CFGReducer::visit` and the outcome of `visit_block` | the two lists, the block in hand; `PopFront`, `VisitBlock`, `VisitError`, `PushNode`, `EndPush`, `Return` |
| `Session` | initialization, inclusion, stirring, flow graph cache, call graph | runtime objects and their references (`heap`, `held`), their mirror (`values`, `internal_refs`, `properties`), `cg_flowgraph`, the stack and the result of `call_graph_of`; one action per query, one per round of its loop |
| `Build` (extends `Session`) | `montyc build` | `funcs_ordered` and `index` (CgData), `declared` and `fids` (object module), `built`; one action per round of each loop of `finish` and `build_all_functions` |
| `FlatCode` | all of `lower.rs` | operators: a visitor takes the code so far (sequences, the current one, the value of what was visited) and returns it extended |
| `Blocks` | the basic blocks of flat code, and the edges between them | operators on a sequence of instructions |
| `Flow` (extends `FlatCode`, `Blocks`) | the instructions of control flow, next to a run of the source | `code`, `current_inst_ix`, `frame`, and what Python has left to do (`todo`) |
| `Runtime` | the runtime's objects: ids, interning, attributes, modules, classes, functions | operators from a runtime to a runtime |
| `Evaluator` (extends `Runtime`) | evaluation of modules given as flat code: frames, ticks, scopes, calls, one handler per instruction | `codes` (the lowered modules of the session), `rt`, `frames`, `ticks`, `scope` (where a look-up stands), `state`; one action per instruction, one per step of a look-up |
| `Scoping` (extends `Evaluator`, `FlatCode`) | sessions lowered from statements, and what their namespaces must hold | the operators of `ScopesExact` |
| `Typing` | the type table and the type constructors of `typing.rs`: tuples, unions, properties, unification, layouts | operators from a table to a table, with the `id` of the type made last |
| `Types` (extends `Typing`) | the session's use of it: set-up of the builtin classes, `get_type_of`, classes that get attributes, tuples | `tcx`, `type_id` (the cache), `dict` (`__dict__` of each class), `answers` (history); one action per query |
| `Compiler` (extends `Blocks`, `Typing`) | one function on its way from flat code to IR: the block graph, `analyze_block`, `Builder::lower` | `cfg`; `tm`, `cg`, the worklist; `block_indecies`, `blocks_processed`, `ir` |
| `Codegen` (extends `Compiler`) | the compilation, and then a run of the IR next to one of the flat code | the state of `Compiler`, which the run leaves alone, and the two runs |
| `Chaining` | one step after another, for the operators that translate a sequence of calls (`FlatCode`, `Typing`) | the operator `Then` |
| `Import` | the path finders of both hosts over a file system | `sys_path`, `fs`, `path_importer_cache`, `finders`, `find` (the search under way); one action per import, per entry of sys.path and per question to a finder, and the changes others make |
| `*Proofs` | theorems of the module they extend (`BuildProofs`: of `Session`, then of `Build`; `TypingProofs`: of the operators of `Typing`, used by `TypesProofs` and `CodegenProofs`; `CodegenProofs`: of `Compiler`, then of `Codegen`) | |
| `MC*` | instances for TLC | |

Notes on faithfulness.

* In `Session` a `Thing` is an object of the runtime and, once mirrored, its value. The
  program (what a module creates, what those objects refer to, what a function's code uses,
  which values are callable) is a record chosen in the initial state from a constant set, so
  that one specification covers all programs of that set. Computing a type is abstracted to
  its outcome: callable, another type, or a panic, and any query may fail.
* `binary_search` in `CfgReducer` is what the standard library promises: on a list that is
  not sorted it may miss an element and name any place. That it is used on sorted lists only
  is a property, not an assumption.
* The object module of `cranelift_module` is external: a name declared again keeps its
  FuncId, which is all that is used of it.
* `Flow` reads the truth of a name as an unconstrained choice, since loops must be able to end.
  The evaluator does not implement `GetDunder`, so conditionals are only compiled; for them
  the handlers stand for the meaning of the instructions, which `raw_inst.rs` documents.
* `EdgesCover` leaves out the transfers inside a conditional expression: `new_from_blocks` makes no
  edges for them, and the analysis of a phi is still to be written.
* `Evaluator` runs a session of three modules (builtins, the bootstrap module, the user's), which
  is how `initialize_hlirt` and `include_module` call it. An exception or a panic ends the session;
  which one it is, is kept. Hashes of names are taken to be free of collisions. Instructions that
  `inst_exec.rs` leaves as `todo!` are panics. `Evaluator` knows nothing of statements: a session is a
  sequence of lowered modules, each with its sequences of instructions, and `Scoping` makes them with
  `FlatCode`. The shape of code that `lower.rs` guarantees is named, twice. `WellFormed` is about classes and callees. `ReadsItsOwn` is about operands: an
  instruction reads values of its own expression, nothing jumps into one, and what it reads was left by an
  instruction that leaves a value, or lies behind one that ends the evaluation (a conditional expression asks
  for `__bool__` before its branch, and `inst_exec.rs` has no code for that). The exception is the `SetVar` that
  `visit_classdef` adds for an assignment and for a decorated method, which is what `OperandsDefined` excepts.
* `make_union` collects the members of a union in a hash set, and their order is part of the union's
  identity: in `Typing` it may answer any order. `MaxTypes` bounds how many types a run makes beyond
  the builtin ones.
* `Compiler` takes the least block of the worklist, which `CfgReducer` shows to be what the sorted
  list gives. `binary_search` on the unsorted `blocks_processed` is the algorithm of the standard
  library, step by step, because what it misses depends on it; so is the order of edges, newest first, of
  petgraph. `Compiler` starts from flat code, which `MCCodegen` makes with `FlatCode`; of that code it assumes
  that there is some, that branches stay inside of it, and that what an instruction is made from is in its
  block, or else its block begins with a phi-recv, which the analysis does not get past
  (`FunctionsAssumption`). That annotations are builtin types and that methods are functions of the module is
  `GlobalsAssumption`. Cranelift is external: the IR of a block is the list of its instructions with their offsets;
  a block filled twice is refused, and so is one without a terminator, or one that jumps to a block that is not
  there. The methods of the builtin classes are external too: of a function it is assumed
  that it returns what it is annotated with (`OutcomesAssumption`), and of a method that it is one of the four
  that `Codegen` knows (`MethodsAssumption`). Debug assertions of Cranelift are off.
* `TypesHold` of `Codegen` has five parts: each value of a run has the type that `analyze_block` gave it
  (`ValuesTyped`); so have the members of each tuple in memory, by the type it was allocated with (`HeapTyped`); an
  instruction reads only what is there (`ReadsDefined`); a function is given as many arguments as it takes, of
  types that it takes (`ArgumentsAccepted`); and what is returned has the annotated type (`ReturnTyped`). A value
  has a union type if it has the type of one of the members.
* `TracesAgree` of `Codegen` is checked over functions whose loops test booleans, and it is restricted to them.
  `visit_while` branches on its test as it is, without the `__bool__` that `visit_ifstmt` asks for, and the compiled
  branch compares with 1 or 0: `while n():` with a result of 2 enters the body in the flat code and leaves the loop
  in the IR (`MCCodegenWhile`). Three other shapes never run there: a callee that is neither a variable, an
  attribute nor a dunder (section 4); a conditional expression, because the analysis of a phi is a `todo!`; and
  reading a name that the function binds, because `RunFlat` keeps no locals. What these do is not shown.
* `LowerBlock` of `Compiler` stops at a block that is filled twice (`refilled`), where a Cranelift with debug
  assertions stops. Without them the loop of `Builder::lower` goes on and the verifier refuses the function
  afterwards; `CompilingEnds` does not look into what the loop does until then.
* `GetTypeOf` of `Types` gives the type of a class a property for every entry of its `__dict__`, and `SetAttribute`
  changes the `__dict__` between queries, as `import::setup` does (import.rs:594). Equality of types includes
  properties, so a class has one id for each state of its `__dict__` that it was asked for in, and this is what
  `OneIdPerKind` and `TypesStable` say. The *type* of such a property is left `Unknown`: query.rs:56 makes it
  from `type_id` and `value`, two names that are not in scope there.
* In a class body an assignment to an attribute has no name to bind (`as_name().unwrap()`, lower.rs:307): `FlatCode`
  refuses it, as it refuses a statement without a value.
* `Import`: the hook tests that a path is a directory and then makes it canonical; `HookLosesDir` is the panic
  when others remove it in between. What `FileFinder::find_spec` looks at in a directory is which names have a source
  file, and which have a package inside a directory of the same name (`twins`). The bootstrap of the
  runtime is built for its tests; the driver has its own, without the two caches. Neither host gets to the
  compilation of what it found: the driver's finder is a class, on which no method can be called.
* `todo` in `Flow` is the reference semantics: a structural semantics of the statements
  that consumes one event (a test, an assignment, a return) at a time.

## 3. Runs

| Run | Instance | Checks |
|---|---|---|
| `MCSSAMap` | 2 values, 4 slots, skips of up to 2 | `Aligned`, `NoAliasing`, `NeverVacated` |
| `MCCfgReducer` | flow graphs of 4 blocks with up to two out-edges each | `Sorted`, `VisitedOnce`, `TypedReachable`, `DominatorsFirst`, `Terminates`, `ImplementsSearch` |
| `MCSession` | 3 library and input modules, functions with self and mutual calls, a native object, an object of the runtime | `MirrorComplete`, `MirrorClosed`, `CollectsOnlyReachable`, `CallGraphTerminates` |
| `MCBuild` | every call graph of 3 functions and a stub, one foreign function | `BuildTypeOK`, `CallGraphExact`, `FidsResolve`, `NumbersAgree`, `BuildEnds`, `CallGraphIsSearch` |
| `MCFlow` | bodies of up to two statements and a return, loops, ifs with one arm and conditional expressions, nested two deep | `Faithful`, `NoSilentLoop`, `EdgesCover`, `BlocksHoldCode` |
| `MCEvaluator` | builtins, the bootstrap module and every user module of one or two of 30 statements, alone or after two functions; 30 ticks | `ScopeMirrored`, `InternedOnce`, `WorkBounded`, `ScopesExact`, `OperandsDefined`, `EvalEnds` |
| `MCTypes` | two methods of the builtin classes, the types of an integer, a class, a function and a list asked for in any order, between which the class gets an attribute or another value for it (`MCEntry`), and tuples of the types there are, up to 5 new types | `OneIdPerKind`, `FieldsApart`, `TypesStable`, `TypesKept` |
| `MCCodegen` | functions with calls, tuples and fields, sums and comparisons, loops that test booleans and ifs nested two deep; functions that are rejected or cannot be lowered | `TracesAgree`, `TypesHold`, `LoweredReachable`, `CompilingEnds` |
| `MCImport` | two directories, one of which is also the working directory and reached by a link; two modules; three changes of the file system at any moment | `OneFinderPerPath`, `FromFirstListed`, `SearchEnds` |

Each property has a mutant of the modelled code in its module ("Mutant of ...") that TLC
shows to violate it.

What the new runs show, in short. Evaluation: however functions, classes, decorators and loops are
nested, each scope ends up with the names of its own statements, the locals of a frame and
the attributes of its object agree, equal strings and integers are one object, and the tick
bound ends every evaluation within twice its count. Types: the clobber map keeps the types as they were before
`insert_property` changed them, and this is what makes a kind keep one id; asking for the type of a class, which is
not cached, makes no second type as long as its `__dict__` is what it was, and leads back to the first one when the
`__dict__` does; a class whose `__dict__` has changed is of another type, which compares different. Code generation: a function that gets through does what its flat code
does, call by call, and every value has the type that the analysis gave it. Import: in the bootstrap a module comes out of the listing of the
first entry of sys.path that has a listing (an entry that was no directory when it was asked is passed for good), the importer cache never holds two finders for a path, and a search ends
whatever happens to the directories.

Three runs end in a violation; they show where the code and what is written about it
disagree:

| Run | Property | What happens |
|---|---|---|
| `MCSessionCallees` | `UsedFunctionsCollected` | A function is type checked, then a module is included. Stirring replaces the references of the function by those of its object, and the cached flow graph keeps the used values from being added again: a later `call_graph_of` leaves out functions that are called. The pipeline of `montyc build` is not affected, which `AlwaysExact` proves. |
| `MCFlowElse` | `Faithful` | The else body is never reached: its branch is patched a second time. |
| `MCEvaluatorNested` | `LookupResolves` | A name of the module that is used in a class inside of a class is looked up for ever: the loop stays at the enclosing class. |

Further configurations, each of one property that TLC finds violated, delimit the runs above. They
are the reason for what the instances of the runs leave out:

| Configuration | Property | What happens |
|---|---|---|
| `MCSessionExports` | `ExportsMirrored` | What `import::setup` adds to a module after its stirring never becomes a property of its value. |
| `MCBuildShared` | `NumbersAgree` | A foreign function named malloc (or two of the same name) is numbered twice by CgData and once by the object module; later functions are called by the wrong number. |
| `MCFlowElif` | `NoSilentLoop` | A failed first test of an if/elif jumps to itself. |
| `MCFlowTail` | `BlocksHoldCode` | A function that ends in an if or while trips an assertion of the block analysis. |
| `MCEvaluatorForeign` | `OwnCode` | A function of another module that makes a class takes the class body from the code of its caller. |
| `MCCodegenRefill` | `LoweredOnce` | `blocks_processed` is not sorted, a search in it misses a block, and the block is filled twice. |
| `MCCodegenWhile` | `TracesAgree` | A while over a number leaves its loop in the IR where the flat code enters it: the test is not asked for its `__bool__`, and a branch compares with 1. |
| `MCImportSpec` | `ImportsModules` | What the bootstrap imports is the spec of the module: the class that tells modules apart is not set. |

Bounds. Four blocks are enough for a diamond with a back edge and for a queue of two blocks
that are found again; four slots for a reservation, a cancellation and a reuse around a skip;
three functions for self recursion, mutual recursion and a function reached twice before it
is collected, which is when `call_graph_of` pushes it twice; two nested statements for a
patched branch inside a patched branch. The proofs remove these bounds for the first four
models, and for those properties of the evaluator, the types, the imports and the compiler that section 4 names. Thirty ticks are enough for every module of `MCEvaluator` that ends on its own, and are used up by
those that do not (recursion, loops on a true test). Five types let a tuple of tuples, a union and a method type
come about in different orders, and a class be asked for under two states of its `__dict__` and under the first
again. Three changes of the file system are enough for a directory to go and come back
with other files between the test of the hook and the listing.

Fairness. `WF(Next)` in `CfgReducer`, `Build`, `Flow` and `Evaluator`, `WF(Loop)` in `Session`,
`WF(Compiles)` in `Codegen`, `WF(Step)` in `Import` (nothing makes others change the file system): the code is
sequential and its loops run until they are done, so a step that can be taken is taken.
Nothing is assumed of the choices a step makes; that the truth of a test comes out either way
is not assumed, and no liveness property needs it. In `Session` the caller is free to stop.
`CHECK_DEADLOCK FALSE` is set where the program ends.

## 4. Proofs

All theorems hold for every value of the constants under the named assumptions of the
modules (`VacantAssumption`, `BlockAssumption`, `GraphAssumption`, `ModuleAssumption`,
`ProgramAssumption`, ...), which TLC evaluates in each run.

* **SSAMap.** `Aligned` with the types is inductive; `NoAliasing` needs it, since a fresh key is
  `next_free`, which `Aligned` puts outside every held key. `NeverVacated` follows step by
  step: the only step that drops a slot is `CancelReserve`, which `Aligned` restricts to the
  last slot, and its assertion to an empty one.
* **CfgReducer.** The inductive invariant says that both lists are sorted and disjoint, that
  everything known is reachable, and that the targets of processed blocks are known. When the
  queue is empty the processed blocks are closed under the edges, hence all of the reachable
  ones (`TypedReachable`). `DominatorsFirst` is the same argument with the set of processed
  blocks and the queue cut at the dominator. `ImplementsSearch` maps each round of the inner
  loop to a stutter and each visit to a visit of `Search`.
* **Session.** The invariant relates each stage of initialization to the objects that exist
  (`Phases`, `HeapExact`, `HeldInside`), says how far the mirror may lag (`ValuesLag`: between
  `import::setup` and the next stirring only), and that the mirror of a thing is what it holds
  plus, for a type-checked function, what its code uses (`MirrorExact`). `LoopInv` says that
  what is on the stack of `call_graph_of` is reachable.
* **Build.** In a build no function is type checked before the last inclusion (`Fresh`), so the
  references of a type-checked function contain what it uses (`Cached`) and what a collected
  function calls is collected or on the stack (`CallsKnown`). `AlwaysExact` follows, and from
  it `AlwaysFidsResolve`, since the declared functions are the collected ones.
  `AlwaysNumbersAgree` assumes `DistinctNames`, without which it is false (`MCBuildShared`); its
  invariant says that the object module's list begins as CgData's (`InStep`) and that every
  place of the latter belongs to one name (`Numbered`).
  `CallGraphImplementsSearch` is the refinement to `Search`: a function popped a second time is
  a stutter.

* **Import.** The invariant relates the importer cache and the finders: a path that the hook has seen
  has one finder, which is filed under the path with links resolved, and no finder is filed
  twice (`AlwaysOneFinderPerPath`). Of a search it says that the entries before its place had nothing when they
  were asked: no finder, or a finder whose directory could not be listed. The answer of a search therefore comes out
  of the listing of the first entry that has one (`AlwaysFromFirstListed`). It does not say that no earlier entry has
  the module by now: an entry that is cached as None may have become a directory since. Both hold for every search path, every file system and any changes to it.
* **Types.** The clobber map is the hard part: `insert_property` changes the type that a key stands for. The
  invariant keeps for each id the type under which it was inserted (`Entered`: the bare kind, or for a class the kind
  with its properties, which nothing changes later) and says that the map is an injection from those
  (`AlwaysOneIdPerKind`). `AlwaysTypesStable` follows for the cached answers of `get_type_of`, and for the uncached ones
  because the type of a class determines the `__dict__` it was made from (`ClassTypeInjective`). A type's parts have smaller ids than the type has, so a layout exists for each
  (`LayoutIsSound`, an induction over the fields of a tuple), and `AlwaysFieldsApart` says what code
  generation reads from it.
* **Evaluator.** All theorems are for any session whose code is well formed (`SessionsAssumption`, and `OperandsAssumption`
  for `AlwaysOperandsDefined`): what a class
  definition puts between the making of a class and its building are assignments of the name and the
  docstring, nothing jumps in there, and callees are computed by an earlier instruction. `WellFormed` says this of the
  output of `lower.rs`, and TLC evaluates it on all the lowered sessions of the runs. The proof has two halves. Each
  action is shown to have one of five effects on the stack: the running frame continues in an extended runtime, the
  evaluation halts, a frame is pushed, a frame returns to one that waits at a call, a look-up moves on. Then
  each effect keeps the invariant:
  * the runtime refers only to objects that exist, and every string and integer that it, a frame or the search
    refers to is the one filed in the table (`RuntimeOK`, `FrameOK`), hence `AlwaysInternedOnce`;
  * no two frames have the same namespace object, frames below the top wait at a call or the building of a
    class, and a class under construction has no attributes but a docstring and is no frame's namespace
    (`Fresh`): this last fact is what makes `AlwaysScopeMirrored` inductive, because the frame of a class body starts
    without locals while its object exists since the `Class` instruction;
  * an instruction that pushes a frame is never the first of its sequence, so the frame that waits was
    paid for by a tick (`BudgetInv`): at most two instructions for a tick, and never more frames than
    ticks (`AlwaysWorkBounded`). That a return is not ticked, as in the code, is part of the count;
  * of every frame, running or waiting: the values that the code from where it stands reads of the expression it
    stands in are there, and it does not stand behind an instruction that ends the evaluation (`Supplied`). A jump
    keeps this because it cannot land inside an expression, a call because the frame that waits is given the value of
    the call when it resumes, and a step because an instruction with a reader leaves a value. Hence
    `AlwaysOperandsDefined`: the frame's values are never indexed at a number that is not there, but for
    the class bodies above, whose bindings (lower.rs:309) do miss their value when they are read. `OperandsAssumption` is a fact about `lower.rs`, evaluated by TLC on
    every lowered session; it fails if either of its exceptions is left out.
* **Compiler.** Analysis and lowering walk the same graph, each with its own list of what is done and what is to
  do. The invariant (`Explores`, once for either) says that the two together hold the entry, stay inside of every
  set of blocks that is closed under edges, and hold the targets of what is done. The step that adds targets to the
  queue of `Builder::lower` needs one fact about the search in the unsorted `blocks_processed`: what it finds
  is there (`BinarySearchOK`, an induction over its windows). It may miss a block, which is then lowered
  twice and refused (`MCCodegenRefill`), but it never drops one: hence `AlwaysLoweredReachable`, for every
  function that compiles. `AlwaysGraphOfCode` says that the graph, built edge by edge, has the edges of
  `Blocks.Edges` and no others, which is what ties it to `EdgesCover`. These are theorems of `CompileSpec`: a
  step of `Codegen` is a step of that or leaves the state of `Compiler` alone.
* **Codegen.** `AlwaysTypesHold` is type soundness: whatever the flat code, the signatures and the results of calls,
  a function that compiles never reads a value that is not there, never gives a function what it does not take,
  and returns what it is annotated with. It follows from `AlwaysSound`, an invariant of four layers:
  * `IInv`, of the graph and the two worklists (above);
  * `TypingInv`, of the analysis: every value with a type is of code that was analysed, its type is in the table,
    and it is of the kind that its instruction makes (`MachineOK`); every emitted instruction is judged
    correctly by the types known so far (`Judged`): what it gives has the type on record, calls fit the signature,
    an allocation stores what the tuple type says, and the type of a field load covers that of each member it
    may read (`Covers`: the `__getitem__` of a tuple has the union of its members for a type).
    A judgement made early must survive what the analysis does later, and the type table grows all the time: it
    keeps kinds and properties (the lemmas of `TypingProofs`), and a value is given a type once;
  * `LowerInv`, of the lowering: the IR of a block is its code up to the first terminator with fields
    resolved, and an instruction reads what instructions before it in the same block give (`ReadsBefore`). That
    they are in the same block is the assumption on flat code; that they are before it is what `values` is
    for, which holds values of all blocks that were lowered: a value that is read is of its own block, and only
    what was lowered of it is in `values`;
  * `RunInv`, of the run: it is in a block that was lowered, the values given so far in the block are there, and
    values and memory have their types. A jump leads to a lowered block because the verifier refuses others.

  A value is of a type by way of the unfolding of unions, a recursive function on the table: that it is defined for
  every table that arises, and does not change when the table grows, is an induction over the ids (`UnfoldedIs`),
  and so are the types of the `__getitem__` of tuples. TLC checked `SoundInv` on the instance of `MCCodegen`
  before it was proved.

Types are part of the inductive invariants (`TypeOK` of `SSAMap`, `CfgReducer` and `Session`; `RuntimeOK` and
`FrameOK` of `EvaluatorProofs`). Inductions over sequences (fields of a tuple, the small integers of `try_init`, the
parameters of a call, the instructions of a function, the windows of a search) are carried out from the least counterexample, which the library's theorem on well-founded
orders gives; the theorems are about the recursive functions of the models themselves. The evaluator's
invariant was checked by TLC on the instances of `MCEvaluator` before it was proved.

Only model-checked:

* all liveness (`Terminates`, `CallGraphTerminates`, `BuildEnds`, `NoSilentLoop`, `EvalEnds`, `CompilingEnds`,
  `SearchEnds`), which TLAPS does not reach;
* what depends on how statements are lowered: `Faithful`, `EdgesCover` and `BlocksHoldCode` of `Flow`, `ScopesExact`
  of the evaluator, and that lowered sessions satisfy `WellFormed` and `ReadsItsOwn`. The visitors of
  `FlatCode` are recursive operators over syntax trees: neither they nor a module that uses them can be reasoned about
  here;
* `TracesAgree` of `Codegen`: that the IR does what the flat code does, event by event. `AlwaysTypesHold` says that
  a run does not go wrong, not that it is the right one; the proof of that would be a simulation which relates the
  places and the values of both runs, over the judgements of `AlwaysSound`. It does not hold of all flat code:
  the analysis emits nothing for a call whose callee is neither a variable, an attribute nor a dunder
  (typing_machine.rs:388), so a function with the statement `(f, f)[0]()` compiles without that call. The functions of
  `MCCodegen` have no such call, and no loop over a number.

## 5. Not modelled, and the plan

Not modelled: the parsers (pure functions from text to trees; `FlatCode` starts from their
trees), the span interner (an `SSAMap` and a map beside it), the selection of Cranelift instructions and memory other than
tuples, struct buffers, argument parsing, formatting, options, and `montyc_parser2`,
which the compiler does not use yet. `compile_from_spec` is not modelled because no import reaches it
with a spec. Python's dicts and lists as objects are left out of `Runtime`, since evaluated code cannot
make them.

Planned, in this order:

1. The two worklists of `Compiler` as refinements of `Search`, and the worklist of sets as what the sorted lists of
   `CfgReducer` hold.
2. The span interner on top of `SSAMap`.
3. A composition of `Evaluator` and `Session`, so that the objects of the session come from evaluated code.

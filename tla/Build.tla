------------------------------- MODULE Build -------------------------------
(***************************************************************************)
(* `montyc build`: main.rs initializes a session and hands it to the code  *)
(* generator (montyc_codegen), which asks for the call graph of the entry, *)
(* includes every function of it, declares them all to the object module   *)
(* and then builds them.                                                   *)
(*                                                                         *)
(* Functions are numbered twice.  CgData numbers them as they are included *)
(* and that number is the ExternalName written into the code; the object   *)
(* module numbers them, by name, as they are declared (FuncId), and takes  *)
(* an ExternalName for a FuncId.  Both are counted from 1 here.            *)
(***************************************************************************)
EXTENDS Session

CONSTANTS Entry,   \* the function named by the entry path
          Extern,  \* functions under @extern
          Stub,    \* functions whose body is an ellipsis
          Symbol,  \* names for the linker
          SymbolOf,\* the name of the function, as written
          Malloc, MainSymbol

ASSUME EntryAssumption == Entry \in Object
ASSUME SymbolAssumption ==
  /\ SymbolOf \in [Object -> Symbol]
  /\ {Malloc, MainSymbol} \subseteq Symbol
  /\ Malloc # MainSymbol
  /\ Symbol \cap Object = {}

VARIABLES stage,
          to_include,    \* functions of the call graph still to be included
          funcs_ordered, \* CgData: names, in the order of inclusion
          index,         \* the number of a function in funcs_ordered, 0 for none
          alloc,         \* the number under which malloc is called
          n_declared,    \* how many of funcs_ordered are declared
          declared,      \* names the object module knows, the FuncId is the place
          fids,          \* FuncIds of the functions, 0 for none
          built          \* functions whose code is defined

codegen == <<to_include, funcs_ordered, index, alloc, n_declared, declared, fids, built>>
buildVars == <<vars, stage, codegen>>

\* The name under which a function is declared: the name in the source for a
\* foreign one, value_<id> for the others.
NameOf(f) == IF f \in Extern THEN SymbolOf[f] ELSE f

BuildInit ==
  /\ Init
  /\ stage = "session"
  /\ to_include = {} /\ funcs_ordered = << >> /\ alloc = 0
  /\ n_declared = 0 /\ declared = << >>
  /\ index = [f \in Object |-> 0]
  /\ fids = [f \in Object |-> 0]
  /\ built = {}

\* The session is initialized and asked for the call graph of the entry.
SessionStep ==
  /\ stage = "session"
  /\ Initialize \/ (pc = "idle" /\ CallGraphOf(Entry)) \/ Loop
  /\ UNCHANGED <<stage, codegen>>

\* call_graph_of returned.
StartInclude ==
  /\ stage = "session"
  /\ pc = "ok"
  /\ stage' = "include"
  /\ to_include' = collected_functions
  /\ UNCHANGED <<vars, funcs_ordered, index, alloc, n_declared, declared, fids, built>>

\* Mutant of IncludeFunction: foreign functions go to the front of the list.
IncludeFunctionFront(f) ==
  /\ stage = "include"
  /\ f \in to_include
  /\ CacheFlowgraph(f)
  /\ funcs_ordered' = IF f \in Extern THEN <<NameOf(f)>> \o funcs_ordered
                                      ELSE Append(funcs_ordered, NameOf(f))
  /\ index' = [index EXCEPT ![f] = IF f \in Extern THEN 1 ELSE Len(funcs_ordered) + 1]
  /\ to_include' = to_include \ {f}
  /\ UNCHANGED <<search, pc, stage, alloc, n_declared, declared, fids, built>>

\* include_function: the flow graph is asked for again, and the function gets the
\* next number, through decl_foreign_function or insert_function.
IncludeFunction(f) ==
  /\ stage = "include"
  /\ f \in to_include
  /\ CacheFlowgraph(f)
  /\ funcs_ordered' = Append(funcs_ordered, NameOf(f))
  /\ index' = [index EXCEPT ![f] = Len(funcs_ordered) + 1]
  /\ to_include' = to_include \ {f}
  /\ UNCHANGED <<search, pc, stage, alloc, n_declared, declared, fids, built>>

\* build_all_functions begins: malloc is added to the list.
DeclMalloc ==
  /\ stage = "include"
  /\ to_include = {}
  /\ funcs_ordered' = Append(funcs_ordered, Malloc)
  /\ alloc' = Len(funcs_ordered) + 1
  /\ stage' = "declare"
  /\ UNCHANGED <<vars, to_include, index, n_declared, declared, fids, built>>

\* Mutant of FuncIdOf: off by one.
FuncIdOfOffByOne(name) ==
  IF name \in ToSet(declared) THEN CHOOSE i \in DOMAIN declared : declared[i] = name
                              ELSE Len(declared) + 2

\* declare_function of the object module: a name it knows keeps its FuncId.
FuncIdOf(name) ==
  IF name \in ToSet(declared) THEN CHOOSE i \in DOMAIN declared : declared[i] = name
                              ELSE Len(declared) + 1
Declared(name) == IF name \in ToSet(declared) THEN declared ELSE Append(declared, name)

\* One round of the loop that declares the functions and fills fids.
DeclareFunction ==
  /\ stage = "declare"
  /\ n_declared < Len(funcs_ordered)
  /\ n_declared' = n_declared + 1
  /\ declared' = Declared(funcs_ordered[n_declared + 1])
  /\ fids' = [f \in Object |-> IF index[f] = n_declared + 1
                               THEN FuncIdOf(funcs_ordered[n_declared + 1]) ELSE fids[f]]
  /\ UNCHANGED <<vars, stage, to_include, funcs_ordered, index, alloc, built>>

Included == {f \in Object : index[f] # 0}
Stubbed == (Included \cap Stub) \ Extern
Defined == Included \ (Stub \cup Extern)

\* define_builtins, in which a stub without a builtin is logged and left out, and
\* define_main, which panics when the entry is a stub or foreign.
DefineMain ==
  /\ stage = "declare"
  /\ n_declared = Len(funcs_ordered)
  /\ \E S \in SUBSET Stubbed : built' = S
  /\ IF Entry \in Defined THEN stage' = "build" /\ declared' = Declared(MainSymbol)
                          ELSE stage' = "panic" /\ UNCHANGED declared
  /\ UNCHANGED <<vars, to_include, funcs_ordered, index, alloc, n_declared, fids>>

\* build_func: the code of f refers to the functions it uses by fids[value], which
\* panics for a value that was not declared.
BuildFunc(f) ==
  /\ stage = "build"
  /\ f \in Defined \ built
  /\ IF \A u \in prog.uses[f] : fids[u] # 0
       THEN built' = built \cup {f} /\ UNCHANGED stage
       ELSE stage' = "panic" /\ UNCHANGED built
  /\ UNCHANGED <<vars, to_include, funcs_ordered, index, alloc, n_declared, declared, fids>>

\* A step fails for reasons left out here: a function has no Python body or a type
\* that is not callable, a name is declared again with another signature (unwrap
\* panics), the verifier rejects the code, the file cannot be written.
BuildFails ==
  /\ stage \in {"include", "declare", "build"}
  /\ stage = "declare" => /\ n_declared < Len(funcs_ordered)
                         /\ funcs_ordered[n_declared + 1] \in ToSet(declared)
  /\ stage' = "panic"
  /\ UNCHANGED <<vars, codegen>>

\* The object file is emitted and linked.
Emit ==
  /\ stage = "build"
  /\ Defined \subseteq built
  /\ stage' = "done"
  /\ UNCHANGED <<vars, codegen>>

BuildNext ==
  \/ SessionStep \/ StartInclude
  \/ \E f \in Object : IncludeFunction(f) \/ BuildFunc(f)
  \/ DeclMalloc \/ DeclareFunction \/ DefineMain \/ BuildFails \/ Emit

BuildSpec == BuildInit /\ [][BuildNext]_buildVars
FairBuildSpec == BuildSpec /\ WF_buildVars(BuildNext)

-----------------------------------------------------------------------------
\* The variables of the code generator keep their types.
BuildTypeOK ==
  /\ TypeOK
  /\ stage \in {"session", "include", "declare", "build", "done", "panic"}
  /\ to_include \subseteq Object
  /\ funcs_ordered \in Seq(Object \cup Symbol)
  /\ declared \in Seq(Object \cup Symbol)
  /\ index \in [Object -> 0 .. Len(funcs_ordered)]
  /\ alloc \in 0 .. Len(funcs_ordered)
  /\ n_declared \in 0 .. Len(funcs_ordered)
  /\ fids \in [Object -> 0 .. Len(declared)]
  /\ built \subseteq Object

\* In a build, call_graph_of returns the functions the entry leads to, neither
\* more nor fewer.
CallGraphExact == pc = "ok" => collected_functions = Reachable

\* When functions are built, every function that the code of one of them uses has
\* a FuncId: the lookups fids[value] of the builder find all functions.
FidsResolve ==
  stage \in {"build", "done"} =>
    \A f \in Defined : \A u \in prog.uses[f] \cap Callable : fids[u] # 0

\* No two foreign functions of the program have the same name, and none is called
\* malloc.
DistinctNames ==
  \A f \in Extern \cap Object :
    SymbolOf[f] # Malloc /\ \A g \in Extern \cap Object : SymbolOf[f] = SymbolOf[g] => f = g

\* "We need to keep the order of functions when we include them so that the
\* declare, define, and importing logic works correctly" (CgData): the number of a
\* function in the list is its FuncId and stands for its name, and the number of
\* malloc stands for malloc, so that main calls the entry and allocations malloc.
NumbersAgree ==
  stage \in {"build", "done"} =>
    /\ \A f \in Included :
         fids[f] = index[f] /\ index[f] <= Len(declared) /\ declared[index[f]] = NameOf(f)
    /\ alloc <= Len(declared) /\ declared[alloc] = Malloc

\* A build ends: with an object file, an error, or a panic.
BuildEnds == <>(stage \in {"done", "panic"} \/ pc \in {"err", "panic", "failed"})

\* The calls of a function, from the program alone; what import::setup adds is
\* never callable.
FinalCalls(f) == (prog.holds[f] \cup prog.uses[f]) \cap Callable

\* The refinement mapping to the abstract search.
Searching == pc \in {"loop", "ok"} \/ (pc \in {"err", "panic"} /\ functions_to_process # << >>)
AbstractSearch == INSTANCE Search WITH
  Node <- Object, Start <- Entry,
  succ <- [f \in Object |-> FinalCalls(f)],
  visited <- collected_functions,
  frontier <- IF Searching THEN ToSet(functions_to_process) \ collected_functions ELSE {Entry},
  outcome <- IF pc = "ok" THEN "done"
             ELSE IF pc \in {"err", "panic", "failed"} THEN "failed" ELSE "running"

\* call_graph_of implements the abstract search of the call graph: a function
\* popped a second time is a stutter, and none is dropped from the stack.
CallGraphIsSearch == AbstractSearch!Spec
=============================================================================

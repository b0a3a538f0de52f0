------------------------------ MODULE Session ------------------------------
(***************************************************************************)
(* The compiler session (montyc_driver, global_context): it evaluates      *)
(* modules in the compile-time runtime, mirrors the runtime's object graph *)
(* into the value store ("stirring the pot"), type checks functions on     *)
(* demand, caching their flow graphs, and collects the call graph of an    *)
(* entry function for the code generator.                                  *)
(*                                                                         *)
(* A Thing is an object of the runtime and, once mirrored, the value of    *)
(* the store associated with it.  The program that is compiled (what its   *)
(* modules create, what those objects refer to, what the code of a         *)
(* function uses) is chosen once, in the initial state.                    *)
(***************************************************************************)
EXTENDS Naturals, FiniteSets, SequencesExt

CONSTANTS Module,     \* source files; the object of a module is named by its file
          Builtins,   \* libstd/builtins.py
          Bootstrap,  \* libstd/importlib/_bootstrap.py
          Main,       \* the input of the command line
          Object,     \* objects other than modules
          Setup,      \* owner of the native objects that import::setup creates
          Program     \* the programs considered

Thing == Module \cup Object

\* The type of a value: Callable, anything else, or none: native functions, whose
\* type is a todo!, and those typed UntypedFunc, both of which panic.
Kind == {"callable", "other", "untyped"}

ProgramType ==
  [owner : [Object -> Module \cup {Setup}],
   kind  : [Object -> Kind],
   holds : [Thing -> SUBSET Thing],   \* references of the object, after evaluation
   patch : [Thing -> SUBSET Thing],   \* references that import::setup adds
   uses  : [Object -> SUBSET Object]] \* Use and Call instructions of its flow graph

\* Evaluation follows the order of inclusion: code refers to its own module and to
\* builtins.py, which every program includes first (the runtime's own objects, such
\* as sys, count as created with it).  import::setup adds native objects and things
\* of _bootstrap.py (to sys.modules and sys.meta_path), none of them a function.
InScope(p, m) == {m, Builtins} \cup {o \in Object : p.owner[o] \in {m, Builtins}}
ThingsOf(p, m) == {m} \cup {o \in Object : p.owner[o] = m}
WellFormed(p) ==
  /\ \A m \in Module : \A t \in ThingsOf(p, m) : p.holds[t] \subseteq InScope(p, m)
  /\ \A o \in Object : p.owner[o] \in Module => p.uses[o] \subseteq InScope(p, p.owner[o])
  /\ \A o \in Object : p.owner[o] = Setup => p.uses[o] = {} /\ p.holds[o] = {} /\ p.kind[o] # "callable"
  /\ \A t \in Thing : p.patch[t] \subseteq {Bootstrap} \cup
       {o \in Object : p.owner[o] = Setup \/ (p.owner[o] = Bootstrap /\ p.kind[o] # "callable")}

ASSUME ModuleAssumption ==
  /\ {Builtins, Bootstrap, Main} \subseteq Module
  /\ Builtins # Bootstrap /\ Main \notin {Builtins, Bootstrap}
  /\ Setup \notin Module /\ Module \cap Object = {}
ASSUME ProgramAssumption == Program \subseteq {p \in ProgramType : WellFormed(p)}
ASSUME ObjectAssumption == IsFiniteSet(Object) /\ Object # {}

VARIABLES prog,
          loaded,        \* modules in SessionContext::modules
          heap,          \* objects of the runtime
          held,          \* the references each of them holds
          dirty,         \* the pot's flag
          values,        \* things the value store knows
          internal_refs, \* metadata of a value: references to other values
          properties,    \* what the value of a module exports to the type checker
          cg_flowgraph,  \* functions whose flow graph is cached
          entry, functions_to_process, collected_functions, \* of call_graph_of
          pc

store == <<values, internal_refs, properties>>
runtime == <<loaded, heap, held, dirty>>
search == <<entry, functions_to_process, collected_functions>>
vars == <<prog, runtime, store, cg_flowgraph, search, pc>>

Resting == {"idle", "ok", "err"}  \* the session is between two calls

Callable == {o \in Object : prog.kind[o] = "callable"}
Untyped == {o \in Object : prog.kind[o] = "untyped"}
OwnedBy(m) == {o \in Object : prog.owner[o] = m}

-----------------------------------------------------------------------------
Init ==
  /\ prog \in Program
  /\ loaded = {} /\ heap = {} /\ held = [t \in Thing |-> {}] /\ dirty = FALSE
  /\ values = {}
  /\ internal_refs = [t \in Thing |-> {}]
  /\ properties = [m \in Module |-> {}]
  /\ cg_flowgraph = {}
  /\ entry = CHOOSE o \in Object : TRUE  \* set by call_graph_of before it is read
  /\ functions_to_process = << >> /\ collected_functions = {}
  /\ pc = "builtins"

\* eval_module: the runtime runs the body of the module.  It marks the pot dirty,
\* which the stirring that follows undoes.
Eval(m) ==
  /\ heap' = heap \cup {m} \cup OwnedBy(m)
  /\ held' = [t \in Thing |-> IF t \in heap' \ heap THEN prog.holds[t] ELSE held[t]]

\* Mutant of Stir: objects that already have a value are not looked at again.
StirNewOnly ==
  /\ values' = heap'
  /\ internal_refs' =
       [t \in Thing |-> IF t \in heap' \ values THEN held'[t] ELSE internal_refs[t]]
  /\ properties' =
       [m \in Module |-> IF m \in heap' \ values THEN held'[m] ELSE properties[m]]
  /\ dirty' = FALSE

\* Mutant of Stir: native objects get no value.
StirSkipsNative ==
  /\ values' = heap' \ OwnedBy(Setup)
  /\ internal_refs' =
       [t \in Thing |-> IF t \in heap' THEN held'[t] ELSE internal_refs[t]]
  /\ properties' =
       [m \in Module |-> IF m \in heap' \ values THEN held'[m] ELSE properties[m]]
  /\ dirty' = FALSE

\* stir_the_pot on a dirty pot.  An object without a value gets one; references
\* that differ from the object's are replaced by the object's; the exports of a
\* module are filled in only when its value is created.
Stir ==
  /\ values' = heap'
  /\ internal_refs' =
       [t \in Thing |-> IF t \in heap' THEN held'[t] ELSE internal_refs[t]]
  /\ properties' =
       [m \in Module |-> IF m \in heap' \ values THEN held'[m] ELSE properties[m]]
  /\ dirty' = FALSE

\* include_module: the path is new, the file is read and parsed, its body is
\* evaluated, the pot is stirred.  A path that is loaded, or that cannot be read,
\* is an error that leaves the session as it was.
IncludeModule(m) ==
  /\ m \notin loaded
  /\ loaded' = loaded \cup {m}
  /\ Eval(m)
  /\ Stir
  /\ UNCHANGED <<prog, cg_flowgraph>>

-----------------------------------------------------------------------------
\* initialize_hlirt, in three steps: builtins.py, importlib/_bootstrap.py, and the
\* native objects import::setup puts into the latter.
InitBuiltins ==
  /\ pc = "builtins"
  /\ IncludeModule(Builtins)
  /\ pc' = "bootstrap"
  /\ UNCHANGED search

InitBootstrap ==
  /\ pc = "bootstrap"
  /\ IncludeModule(Bootstrap)
  /\ pc' = "setup"
  /\ UNCHANGED search

InitSetup ==
  /\ pc = "setup"
  /\ heap' = heap \cup OwnedBy(Setup)
  /\ held' = [t \in Thing |-> IF t \in OwnedBy(Setup) THEN prog.holds[t]
                              ELSE IF t \in heap THEN held[t] \cup prog.patch[t]
                              ELSE held[t]]
  /\ pc' = "idle"
  /\ UNCHANGED <<prog, loaded, dirty, store, cg_flowgraph, search>>

\* A file of the library cannot be read (the process exits with the error) or its
\* body raises an exception (todo! panics).
InitFails ==
  /\ pc \in {"builtins", "bootstrap", "setup"}
  /\ pc' = "failed"
  /\ UNCHANGED <<prog, runtime, store, cg_flowgraph, search>>

Initialize == InitBuiltins \/ InitBootstrap \/ InitSetup \/ InitFails

\* A module is included between two queries; an exception in its body, or a body
\* that uses up its ticks, is a panic.
Include(m) ==
  /\ pc \in Resting
  /\ \/ IncludeModule(m) /\ pc' = "idle"
     \/ /\ m \notin loaded /\ pc' = "panic"
        /\ UNCHANGED <<prog, runtime, store, cg_flowgraph>>
  /\ UNCHANGED search

-----------------------------------------------------------------------------
\* Mutant of RefsAfter: the used values are not added to the references.
RefsAfterNoUses(f) == internal_refs[f]

\* The references of f once its flow graph is there: get_function_cg_cfg adds the
\* used values when it computes the graph, not when it finds it in the cache.
RefsAfter(f) ==
  IF f \in cg_flowgraph THEN internal_refs[f] ELSE internal_refs[f] \cup prog.uses[f]

\* get_function_cg_cfg, when the type checker accepts the function.
CacheFlowgraph(f) ==
  /\ cg_flowgraph' = cg_flowgraph \cup {f}
  /\ internal_refs' = [internal_refs EXCEPT ![f] = RefsAfter(f)]
  /\ UNCHANGED <<prog, runtime, values, properties>>

\* get_function_cg_cfg as a query of its own.
GetFunctionCgCfg(f) ==
  /\ pc \in Resting
  /\ f \in values \cap Callable
  /\ CacheFlowgraph(f)
  /\ pc' = "idle"
  /\ UNCHANGED search

\* get_func_from_path, up to the loop of call_graph_of: the input is included if
\* it was not; the entry must be a function in the dict of its module, typed, and
\* have the signature of a main function, which is left out here.
CallGraphOf(f) ==
  /\ pc \in Resting
  /\ IF Main \in loaded THEN UNCHANGED <<prog, runtime, store, cg_flowgraph>>
                        ELSE IncludeModule(Main)
  /\ entry' = f
  /\ collected_functions' = {}
  /\ \/ /\ f \in held'[Main] \cap Callable \cap values'
        /\ functions_to_process' = <<f>> /\ pc' = "loop"
     \/ functions_to_process' = << >> /\ pc' \in {"err", "panic"}

\* The orders in which the references of a value may be listed.
Orders(S) == {s \in [1 .. Cardinality(S) -> S] : \A x \in S : \E i \in DOMAIN s : s[i] = x}

Current == Last(functions_to_process)

\* Mutant of Pending: only what the code uses counts.
PendingUsesOnly(f) == (prog.uses[f] \cap Callable) \ collected_functions

\* Mutant of Pending: values of every type count.
PendingAnyType(f) == RefsAfter(f) \ collected_functions

\* Functions that f refers to and that the loop has not collected.
Pending(f) == (RefsAfter(f) \cap Callable) \ collected_functions

\* Mutant of ProcessFunction: the function is not collected.
ProcessFunctionUncollected ==
  /\ pc = "loop"
  /\ functions_to_process # << >>
  /\ RefsAfter(Current) \cap Untyped = {}
  /\ CacheFlowgraph(Current)
  /\ \E order \in Orders(Pending(Current)) :
       functions_to_process' = Front(functions_to_process) \o order
  /\ UNCHANGED <<collected_functions, entry, pc>>

\* One round of the loop: a function is popped and type checked, the functions
\* it refers to that are not collected are pushed, and it is collected.
ProcessFunction ==
  /\ pc = "loop"
  /\ functions_to_process # << >>
  /\ RefsAfter(Current) \cap Untyped = {}
  /\ CacheFlowgraph(Current)
  /\ \E order \in Orders(Pending(Current)) :
       functions_to_process' = Front(functions_to_process) \o order
  /\ collected_functions' = collected_functions \cup {Current}
  /\ UNCHANGED <<entry, pc>>

\* The type checker rejects the function, or panics.
TypecheckFails ==
  /\ pc = "loop"
  /\ functions_to_process # << >>
  /\ Current \notin cg_flowgraph
  /\ pc' \in {"err", "panic"}
  /\ UNCHANGED <<prog, runtime, store, cg_flowgraph, search>>

\* The type of a reference cannot be computed (an error), or it is a function
\* that has none (a panic); the flow graph of the current function stays cached.
RefFails ==
  /\ pc = "loop"
  /\ functions_to_process # << >>
  /\ CacheFlowgraph(Current)
  /\ \/ pc' = "panic" /\ RefsAfter(Current) \cap Untyped # {}
     \/ pc' = "err" /\ RefsAfter(Current) # {}
  /\ UNCHANGED search

Collected ==
  /\ pc = "loop"
  /\ functions_to_process = << >>
  /\ collected_functions' = collected_functions \cup {entry}
  /\ pc' = "ok"
  /\ UNCHANGED <<prog, runtime, store, cg_flowgraph, entry, functions_to_process>>

Loop == ProcessFunction \/ TypecheckFails \/ RefFails \/ Collected

-----------------------------------------------------------------------------
\* The session as a library: any query in any order.
Next ==
  \/ Initialize
  \/ \E m \in Module : Include(m)
  \/ \E f \in Object : GetFunctionCgCfg(f) \/ CallGraphOf(f)
  \/ Loop

Spec == Init /\ [][Next]_vars
FairSpec == Spec /\ WF_vars(Loop)

-----------------------------------------------------------------------------
\* The variables keep their types.
TypeOK ==
  /\ prog \in ProgramType
  /\ loaded \subseteq Module
  /\ heap \subseteq Thing
  /\ held \in [Thing -> SUBSET Thing]
  /\ dirty \in BOOLEAN
  /\ values \subseteq heap
  /\ internal_refs \in [Thing -> SUBSET Thing]
  /\ properties \in [Module -> SUBSET Thing]
  /\ cg_flowgraph \subseteq Object
  /\ entry \in Object
  /\ functions_to_process \in Seq(Object)
  /\ collected_functions \subseteq Object
  /\ pc \in {"builtins", "bootstrap", "setup", "idle", "loop", "ok", "err", "panic", "failed"}

\* The edges of the call graph: functions that f holds or that its code uses.
Calls(f) == (held[f] \cup prog.uses[f]) \cap Callable

\* Functions a path of the call graph leads to from the entry.
ClosedUnderCalls(S) == entry \in S /\ \A f \in S : Calls(f) \subseteq S
Reachable == {f \in Object : \A S \in SUBSET Object : ClosedUnderCalls(S) => f \in S}

\* The mirror of an object never lacks a reference the object holds once the
\* input is included: every stirring catches up with what was changed behind its
\* back, such as the objects import::setup patches without marking the pot dirty.
MirrorComplete ==
  Main \in loaded => values = heap /\ \A t \in heap : held[t] \subseteq internal_refs[t]

\* The mirror refers to values only: what a value refers to was given a value
\* before, so that the unwrap()s of stir_the_pot and of call_graph_of succeed.
MirrorClosed == \A t \in values : internal_refs[t] \subseteq values

\* call_graph_of collects no function that the entry does not lead to, whatever
\* was included or queried before and in between.
CollectsOnlyReachable ==
  pc \in {"loop", "ok"} => collected_functions \cup ToSet(functions_to_process) \subseteq Reachable

\* "From a given `entry` path, recursively lower all used functions into HLIR
\* code" (query.rs): what a collected function uses is collected.  The code
\* generator relies on it when it looks up fids[value].
UsedFunctionsCollected ==
  pc = "ok" => \A f \in collected_functions : prog.uses[f] \cap Callable \subseteq collected_functions

\* "Serialize the runtime object graph into a consumable format for type checking
\* and analysis" (stir_the_pot): once the input is included, the exports of a
\* module are what its dict holds.
ExportsMirrored == Main \in loaded => \A m \in loaded : properties[m] = held[m]

\* call_graph_of terminates on every call graph, recursive ones included.
CallGraphTerminates == pc = "loop" ~> pc \in {"ok", "err", "panic"}
=============================================================================

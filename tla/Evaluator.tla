----------------------------- MODULE Evaluator -----------------------------
(***************************************************************************)
(* The compile-time evaluator (montyc_hlirt, eval/ctx/evaluator.rs): the   *)
(* modules of a session are run one after the other, the first being       *)
(* builtins.  A step is one instruction, or one turn of the loop that      *)
(* looks a name up in the enclosing scopes.  The code is that of FlatCode, *)
(* from its lowering in module Scoping.                                    *)
(***************************************************************************)
EXTENDS Runtime, TLC

CONSTANTS Sessions,   \* the sessions: a function to sequences of lowered modules
          SmallInts,  \* the integers made by try_init, as a sequence
          StaticNames, \* the names the session knows from the start
          MaxTicks    \* the tick bound of eval_module (0x1000 in the code)

ASSUME MaxTicksAssumption == MaxTicks \in Nat \ {0}
ASSUME SmallIntsAssumption == SmallInts \in Seq(Nat)

VARIABLES
  program,   \* the session
  codes,     \* its lowered modules, by module ref
  rt,        \* the runtime
  modules,   \* the module objects made so far, by module ref
  builtins,  \* the builtins singleton
  frames,    \* the stack of frames, the one that runs last
  ticks,     \* n_ticks
  executed,  \* instructions executed in this evaluation
  scope,     \* where lookup stands in the scope chain, or 0
  state      \* "idle", "running", or how the session ended

vars == <<program, codes, rt, modules, builtins, frames, ticks, executed, scope, state>>

\* What lower.rs makes of a class: the class object, its name, perhaps its docstring, and the
\* building of the class from its body, which nothing jumps into.
ClassCode(inst, j) ==
  LET class == inst[j].class
  IN  /\ class \in 1 .. j - 1
      /\ inst[class].op = "Class"
      /\ \A k \in class + 1 .. j - 1 : inst[k].op \in {"SetVar", "Const", "SetDunder"}
JumpsTo(inst) == CASE inst.op = "Br" -> {inst.to}
                   [] inst.op = "If" -> {inst.truthy, inst.falsey} \ {0}
                   [] OTHER -> {}
WellFormed(inst) ==
  /\ DOMAIN inst = 1 .. Len(inst)
  /\ \A i \in DOMAIN inst : JumpsTo(inst[i]) \subseteq Nat \ {0}
  /\ \A i \in DOMAIN inst : inst[i].op = "Call" => inst[i].callable \in 1 .. i - 1 /\ inst[i].arguments \in Seq(Nat)
  /\ \A i \in DOMAIN inst : inst[i].op = "Const" => inst[i].cst[1] \in {"int", "str", "bool", "none", "ellipsis"}
  /\ \A i \in DOMAIN inst : inst[i].op = "Defn" => inst[i].params \in Seq(STRING)
  /\ \A j \in DOMAIN inst : inst[j].op = "BuildClass" =>
       /\ ClassCode(inst, j)
       /\ \A i \in DOMAIN inst : JumpsTo(inst[i]) \cap (inst[j].class + 1 .. j) = {}

\* Code is lowered by FlatCode: a module that can be lowered starts with its own sequence.
ASSUME SessionsAssumption ==
  \A session \in Range(Sessions) : \A m \in DOMAIN session :
    /\ session[m].ok => 1 \in DOMAIN session[m].seqs
    /\ \A q \in DOMAIN session[m].seqs : WellFormed(session[m].seqs[q].inst)

\* The operands an instruction reads.
Uses(inst) ==
  CASE inst.op \in {"SetVar", "Return"} -> {inst.value}
    [] inst.op = "If" -> {inst.test}
    [] inst.op = "Call" -> {inst.callable} \cup ToSet(inst.arguments)
    [] inst.op = "GetAttribute" -> {inst.object, inst.attr}
    [] inst.op = "SetDunder" -> {inst.object, inst.value}
    [] inst.op = "Defn" -> ToSet(inst.annotations)
    [] inst.op = "BuildClass" -> {inst.class}
    [] OTHER -> {}

\* The instructions that leave a value, and those that exec_inst has no code for.
Leaving == {"Const", "RefAsStr", "UseVar", "Class", "Defn", "Call", "GetAttribute", "Import"}
Unsupported == {"Tuple", "GetDunder", "SetAttribute"}

\* An instruction reads values of its own expression, which nothing jumps into.  They are left by
\* the instructions named, or else the evaluation does not get there: a conditional expression
\* asks for __bool__ before its branch.  The exception is a SetVar in a class body, which
\* visit_classdef adds for an assignment and for a decorated method.
Enclosed(inst, from, to) ==
  \A k \in DOMAIN inst \ (from + 1 .. to) : JumpsTo(inst[k]) \cap (from + 1 .. to) = {}
Ended(inst, i) == \E k \in 1 .. i - 1 : inst[k].op \in Unsupported /\ Enclosed(inst, k, i)
Reading(seq) == {i \in DOMAIN seq.inst : seq.inst[i].op # "SetVar" \/ seq.kind # "Class"}
ReadsItsOwn(seq) ==
  \A i \in Reading(seq) : \A v \in Uses(seq.inst[i]) :
    /\ v \in 1 .. i - 1
    /\ Enclosed(seq.inst, v, i)
    /\ seq.inst[v].op \in Leaving \cup Unsupported \/ Ended(seq.inst, v)

ASSUME OperandsAssumption ==
  \A session \in Range(Sessions) : \A m \in DOMAIN session :
    \A q \in DOMAIN session[m].seqs : ReadsItsOwn(session[m].seqs[q])

\* A session ends with an exception: "Tick", "NameError", "TypeError", "AttributeError",
\* "ImportError"; or in a panic: "todo", "operand", "assertion", "index", "static_name",
\* "lowering", "uninit".

NoValues == [x \in {} |-> 0]
Bind(f, x, v) == [y \in DOMAIN f \cup {x} |-> IF y = x THEN v ELSE f[y]]

\* FrameState::new; the values a call puts in the frame are its arguments.
Frame(object, mref, code, seq, values, locals) ==
  [object |-> object, mref |-> mref, code |-> code, seq |-> seq, ix |-> 1,
   values |-> values, locals |-> locals]
NewFrame(object, mref, code, seq, locals) == Frame(object, mref, code, seq, NoValues, locals)

\* The frame f at instruction ix.
Continue(f, ix, values, locals) ==
  [object |-> f.object, mref |-> f.mref, code |-> f.code, seq |-> f.seq, ix |-> ix,
   values |-> values, locals |-> locals]

\* The __monty module is the first object after the singletons.
Monty == NewId(TryInit(SmallInts))
MontyModule == Insert(TryInit(SmallInts), ModuleObject(0))

Init ==
  /\ program \in DOMAIN Sessions
  /\ codes = Sessions[program]
  /\ rt = WithNative(WithNative(MontyModule, Monty, "intrinsic"), Monty, "extern")
  /\ modules = << >>
  /\ builtins = 0
  /\ frames = << >>
  /\ ticks = MaxTicks
  /\ executed = 0
  /\ scope = 0
  /\ state = "idle"

-----------------------------------------------------------------------------
(* The frame that runs, its instruction and its operands.                  *)

Top == Last(frames)
Code(f) == codes[f.code].seqs[f.seq].inst
Running == state = "running" /\ scope = 0
AtEnd == Running /\ Top.ix \notin DOMAIN Code(Top)
Inst == Code(Top)[Top.ix]
Value(i) == Top.values[i]

At(op) == Running /\ ~AtEnd /\ Inst.op = op /\ Uses(Inst) \subseteq DOMAIN Top.values

\* Mutant of Tick: the bound is not counted down.
TickFree(stack) == frames' = stack /\ ticks' = ticks /\ state' = state

\* tick, after an instruction: the evaluation ends when one tick is left.
Tick(stack) ==
  /\ frames' = stack
  /\ ticks' = IF ticks = 1 THEN ticks ELSE ticks - 1
  /\ state' = IF ticks = 1 THEN "Tick" ELSE state

Executed == executed' = executed + 1
Static == UNCHANGED <<program, codes, modules, builtins>>

\* The instruction ends: frame f goes on, in runtime r.
Next_(f, r) == /\ rt' = r
               /\ Tick([frames EXCEPT ![Len(frames)] = f])
               /\ Executed
               /\ scope' = 0
               /\ Static
GoTo(i, r) == Next_(Continue(Top, i, Top.values, Top.locals), r)
\* The instruction ends with a value, which its number stands for.
Yield(v, r) == Next_(Continue(Top, Top.ix + 1, Bind(Top.values, Top.ix, v), Top.locals), r)

\* The evaluation ends with an exception or a panic.
Stop(why, r) == /\ state' = why
                /\ rt' = r
                /\ scope' = 0
                /\ Executed
                /\ UNCHANGED <<frames, ticks>>
                /\ Static

\* A frame is put on the stack: the instruction goes on when it is taken off.
Push(f, r) == /\ frames' = Append(frames, f)
              /\ rt' = r
              /\ Executed
              /\ UNCHANGED <<ticks, scope, state>>
              /\ Static

\* Mutant of Define: the namespace object of a class or module is not written.
DefineLocal(r, x, v) == r

\* define: the variable is an attribute of the frame's object, if it has one, and a local.
Define(r, x, v) == IF Top.object = 0 THEN r ELSE SetAttr(r, Top.object, x, v)
Assign_(x, v, r) == Next_(Continue(Top, Top.ix + 1, Top.values, Bind(Top.locals, x, v)), Define(r, x, v))

\* The frame binds x to v and the instruction has that value; r is the runtime with x defined.
YieldAs(x, v, r) ==
  Next_(Continue(Top, Top.ix + 1, Bind(Top.values, Top.ix, v), Bind(Top.locals, x, v)), r)

-----------------------------------------------------------------------------
(* Evaluation of a module.                                                 *)

\* eval_module, eval and the start of run_until_complete: a fresh module object gets
\* the attributes of builtins.
Begin ==
  LET m == Len(modules) + 1
      object == NewId(rt)
      names == IF builtins = 0 THEN {} ELSE DOMAIN rt.objects[builtins].dict
      dict == [x \in names |-> [key |-> Interned(rt, <<"str", x>>), value |-> Attr(rt, builtins, x)]]
  IN  /\ state = "idle"
      /\ m \in DOMAIN codes
      /\ codes[m].ok
      /\ rt' = [Insert(rt, ModuleObject(m)) EXCEPT !.objects[object].dict = dict]
      /\ modules' = Append(modules, object)
      /\ frames' = <<NewFrame(object, m, m, 1, [x \in names |-> Attr(rt, builtins, x)])>>
      /\ ticks' = MaxTicks
      /\ executed' = 0
      /\ state' = "running"
      /\ UNCHANGED <<program, codes, builtins, scope>>

\* The module cannot be lowered.
LoweringPanics ==
  /\ state = "idle"
  /\ Len(modules) + 1 \in DOMAIN codes
  /\ ~codes[Len(modules) + 1].ok
  /\ state' = "lowering"
  /\ UNCHANGED <<program, codes, rt, modules, builtins, frames, ticks, executed, scope>>

\* The module under evaluation: the code that Defn and BuildClass take sequences from.
Evaluated == Len(modules)

\* The end of run_until_complete; the first module becomes the builtins singleton.
Finish ==
  /\ AtEnd
  /\ Len(frames) = 1
  /\ state' = "idle"
  /\ frames' = << >>
  /\ builtins' = IF builtins = 0 THEN modules[1] ELSE builtins
  /\ UNCHANGED <<program, codes, rt, modules, ticks, executed, scope>>

\* exec_seq_with_frame ends with an object: the caller's instruction ends.
Caller == frames[Len(frames) - 1]

\* Mutant of Resumed: the call has no value.
ResumedUnbound(v) == Continue(Caller, Caller.ix + 1, Caller.values, Caller.locals)

Resumed(v) ==
  Continue(Caller, Caller.ix + 1,
           IF Code(Caller)[Caller.ix].op = "Call" THEN Bind(Caller.values, Caller.ix, v) ELSE Caller.values,
           Caller.locals)
Resume(v) == /\ Tick([Front(frames) EXCEPT ![Len(frames) - 1] = Resumed(v)])
             /\ UNCHANGED <<rt, scope>>
             /\ Static

FallOff == AtEnd /\ Len(frames) > 1 /\ Resume(NoneV) /\ UNCHANGED executed

DoReturn == At("Return") /\ Len(frames) > 1 /\ Resume(Value(Inst.value)) /\ Executed
ReturnInModule == At("Return") /\ Len(frames) = 1 /\ Stop("todo", rt)

-----------------------------------------------------------------------------
(* Instructions.                                                           *)

DoQuiet ==
  /\ Running /\ ~AtEnd
  /\ Inst.op \in {"Nop", "JumpTarget", "PhiRecv", "SetAnnotation"}
  /\ GoTo(Top.ix + 1, rt)

\* Instructions exec_inst has no code for; a conditional expression asks for __bool__ and ends
\* here before its phi-jumps.
DoTodo ==
  /\ Running /\ ~AtEnd
  /\ Inst.op \in Unsupported
  /\ Stop("todo", rt)

\* Indexing the values of the frame with an instruction that left none.
MissingOperand ==
  /\ Running /\ ~AtEnd
  /\ ~(Uses(Inst) \subseteq DOMAIN Top.values)
  /\ Stop("operand", rt)

\* const_: constants are a kind and a value.
DoConst ==
  /\ At("Const")
  /\ LET kind == Inst.cst[1]
         val == Inst.cst[2]
         r == CASE kind = "int" -> NewInt(rt, val)
                [] kind = "str" -> NewString(rt, val)
                [] OTHER -> rt
     IN  Yield(CASE kind \in {"int", "str"} -> Interned(r, <<kind, val>>)
                 [] kind = "bool" -> IF val THEN TrueV ELSE FalseV
                 [] kind = "none" -> NoneV
                 [] kind = "ellipsis" -> EllipsisV, r)

DoRefAsStr ==
  /\ At("RefAsStr")
  /\ LET r == NewString(rt, Inst.name) IN Yield(Interned(r, <<"str", Inst.name>>), r)

DoSetVar ==
  /\ At("SetVar")
  /\ Assign_(Inst.var, Value(Inst.value), rt)

\* lookup: the locals, then the scopes from the frame's object, or builtins, outwards.
DoUseVar == At("UseVar") /\ Inst.var \in DOMAIN Top.locals /\ Yield(Top.locals[Inst.var], rt)

LookupFrom == IF Top.object = 0 THEN builtins ELSE Top.object
StartLookup ==
  /\ At("UseVar")
  /\ Inst.var \notin DOMAIN Top.locals
  /\ IF LookupFrom = 0 THEN Stop("uninit", rt)
     ELSE scope' = LookupFrom /\ UNCHANGED <<rt, frames, ticks, executed, state>> /\ Static

Enclosing(this) == rt.objects[this].parent
Ends(this) == IF rt.objects[this].kind = "class" THEN Enclosing(this) \in {0, this} ELSE TRUE

\* Mutant of NextScope: no scope is followed.
NextScopeStays(this) == this

\* The scope after this one: only the first is followed to its parent.
NextScope(this) == IF this = LookupFrom THEN Enclosing(this) ELSE this

LookupFails == scope # 0 /\ Ends(scope) /\ Stop("NameError", rt)
LookupFinds ==
  /\ scope # 0 /\ ~Ends(scope)
  /\ HasAttr(rt, NextScope(scope), Inst.var)
  /\ Yield(Attr(rt, NextScope(scope), Inst.var), rt)
LookupStep ==
  /\ scope # 0 /\ ~Ends(scope)
  /\ ~HasAttr(rt, NextScope(scope), Inst.var)
  /\ scope' = NextScope(scope)
  /\ UNCHANGED <<rt, frames, ticks, executed, state>>
  /\ Static

\* class
DoClass ==
  /\ At("Class")
  /\ YieldAs(Inst.name, NewId(rt), Define(Insert(rt, ClassObject(Top.object)), Inst.name, NewId(rt)))

\* Mutant of BodyFrame: the body runs in the enclosing namespace.
BodyFrameOuter(class) == NewFrame(Top.object, Top.mref, Evaluated, Inst.seq, Top.locals)

\* build_class: the frame of the class body, with a sequence of the module under evaluation.
BodyFrame(class) == NewFrame(class, Top.mref, Evaluated, Inst.seq, NoValues)

DoBuildClass ==
  /\ At("BuildClass")
  /\ LET seqs == codes[Evaluated].seqs
     IN  CASE Inst.seq \notin DOMAIN seqs        -> Stop("index", rt)
           [] Inst.seq \in DOMAIN seqs /\ seqs[Inst.seq].kind # "Class" -> Stop("assertion", rt)
           [] OTHER                              -> Push(BodyFrame(Value(Inst.class)), rt)

\* define_fn: the body is a sequence of the module under evaluation.
DoDefn ==
  /\ At("Defn")
  /\ LET function == NewId(rt)
         made == Insert(rt, FunctionObject(Evaluated, Inst.seq, Inst.params))
         defined == NewString(Define(made, Inst.name, function), Inst.name)
     IN  YieldAs(Inst.name, function,
                 SetAttr(defined, function, "__name__", Interned(defined, <<"str", Inst.name>>)))

\* The last of the first n parameters with the name x.
LastOf(params, n, x) ==
  CHOOSE i \in 1 .. n : params[i] = x /\ \A j \in i + 1 .. n : params[j] # x

\* call_object of a function: parameters and arguments are paired as far as both go.
DoCallFunction ==
  /\ At("Call")
  /\ rt.objects[Value(Inst.callable)].kind = "function"
  /\ LET f == rt.objects[Value(Inst.callable)]
         n == IF Len(f.params) < Len(Inst.arguments) THEN Len(f.params) ELSE Len(Inst.arguments)
         args == [i \in 1 .. n |-> Value(Inst.arguments[i])]
         locals == [x \in {f.params[i] : i \in 1 .. n} |-> args[LastOf(f.params, n, x)]]
     IN  IF f.seq \in DOMAIN codes[f.code].seqs
         THEN Push(Frame(0, f.code, f.code, f.seq, args, locals), rt)
         ELSE Stop("index", rt)

\* The callables of the __monty module: intrinsic returns what it decorates; extern returns a
\* decorator that marks a function with a calling convention.
DoCallNative ==
  /\ At("Call")
  /\ rt.objects[Value(Inst.callable)].kind = "callable"
  /\ LET callable == rt.objects[Value(Inst.callable)]
         arg == Value(Inst.arguments[1])
     IN  CASE Inst.arguments = << >> -> Stop("todo", rt)
           [] Inst.arguments # << >> /\ callable.native = "intrinsic" -> Yield(arg, rt)
           [] Inst.arguments # << >> /\ callable.native = "extern" ->
                IF Len(Inst.arguments) = 1 /\ rt.objects[arg].kind = "str"
                THEN Yield(NewId(rt), Insert(rt, CallableObject("decorator", arg)))
                ELSE Stop("TypeError", rt)
           [] OTHER ->
                IF Len(Inst.arguments) = 1 /\ rt.objects[arg].kind = "function"
                THEN Yield(arg, SetAttr(rt, arg, "__extern__", callable.conv))
                ELSE Stop("TypeError", rt)

NotCallable ==
  /\ At("Call")
  /\ rt.objects[Value(Inst.callable)].kind \notin {"function", "callable"}
  /\ Stop("TypeError", rt)

\* getattr_direct_hash: the attributes of None are none, those of values are unsupported.
DoGetAttribute ==
  /\ At("GetAttribute")
  /\ LET o == Value(Inst.object)
         name == rt.objects[Value(Inst.attr)].val
     IN  CASE HasDict(rt, o) /\ HasAttr(rt, o, name) -> Yield(Attr(rt, o, name), rt)
           [] IF HasDict(rt, o) THEN ~HasAttr(rt, o, name) ELSE o = NoneV -> Stop("AttributeError", rt)
           [] OTHER -> Stop("todo", rt)

\* set_dunder, for the docstring of a class.
DoSetDunder ==
  At("SetDunder") /\ GoTo(Top.ix + 1, SetAttr(rt, Value(Inst.object), "__doc__", Value(Inst.value)))

DoBr == At("Br") /\ GoTo(Inst.to, rt)

\* if_: a test that is neither True nor False fails an assertion.
DoIf ==
  /\ At("If")
  /\ LET test == Value(Inst.test)
         to == IF test = TrueV THEN Inst.truthy ELSE Inst.falsey
     IN  IF test \in {TrueV, FalseV} THEN GoTo(IF to = 0 THEN Top.ix + 1 ELSE to, rt)
         ELSE Stop("todo", rt)

\* import_module and import_module_spec of the session: __monty is at hand.  The head of a
\* relative import is looked up in static_names, which panics on any other name.  The search
\* for a module panics before sys exists, finds no finder while the second module, the
\* bootstrap of importlib, is evaluated, and later panics calling find_spec on PathFinder,
\* which is a class and not a native object.
DoImport ==
  /\ At("Import")
  /\ CASE Inst.relative # 0 /\ Inst.path[1] \notin StaticNames -> Stop("static_name", rt)
       [] Inst.relative # 0 /\ Inst.path[1] \in StaticNames \ {"__monty"} -> Stop("ImportError", rt)
       [] (Inst.relative # 0 => Inst.path[1] = "__monty") /\ Inst.path = <<"__monty">> -> Yield(Monty, rt)
       [] OTHER -> Stop(IF Evaluated = 1 THEN "uninit" ELSE IF Evaluated = 2 THEN "ImportError" ELSE "todo", rt)

Next ==
  \/ Begin \/ LoweringPanics \/ Finish \/ FallOff \/ DoReturn \/ ReturnInModule
  \/ DoQuiet \/ DoTodo \/ MissingOperand
  \/ DoConst \/ DoRefAsStr \/ DoSetVar
  \/ DoUseVar \/ StartLookup \/ LookupFails \/ LookupFinds \/ LookupStep
  \/ DoClass \/ DoBuildClass \/ DoDefn
  \/ DoCallFunction \/ DoCallNative \/ NotCallable
  \/ DoGetAttribute \/ DoSetDunder \/ DoBr \/ DoIf \/ DoImport

\* The evaluator is one thread that never waits.
Spec == Init /\ [][Next]_vars /\ WF_vars(Next)

-----------------------------------------------------------------------------
(* What must hold.                                                         *)

ObjectIds == 1 .. Len(rt.objects)

\* The locals of a frame that runs a module or a class body are the attributes of its object,
\* whatever calls, nested bodies and decorators ran in between: lookup in an enclosing scope
\* (evaluator.rs, define and lookup) reads the attributes where the frame itself reads locals.
\* Only the docstring, which set_dunder writes from outside, is an attribute without a local.
Mirrored(r, f) ==
  f.object # 0 =>
    LET dict == r.objects[f.object].dict
    IN  /\ DOMAIN f.locals \ {"__doc__"} = DOMAIN dict \ {"__doc__"}
        /\ \A x \in DOMAIN f.locals \ {"__doc__"} : f.locals[x] = dict[x].value
ScopeMirrored == \A i \in DOMAIN frames : Mirrored(rt, frames[i])

\* Strings and integers a program can reach have one object each: the runtime compares them,
\* as it does all objects, by id (new_string and new_int in rt/mod.rs).
Reached == (UNION {Range(frames[i].values) \cup Range(frames[i].locals) : i \in DOMAIN frames})
             \cup UNION {{rt.objects[o].dict[x].value : x \in DOMAIN rt.objects[o].dict} :
                         o \in {o \in ObjectIds : HasDict(rt, o)}}
InternedOnce ==
  \A a, b \in Reached :
    /\ rt.objects[a].kind = rt.objects[b].kind
    /\ rt.objects[a].kind \in {"int", "str"}
    /\ rt.objects[a].val = rt.objects[b].val
    => a = b

\* The tick bound bounds the work: a return, the call that waits for it and the last
\* instruction are all that a tick does not pay for (exec_seq_with_frame and tick).
WorkBounded == executed + ticks <= 2 * MaxTicks /\ Len(frames) <= MaxTicks

\* Every instruction reads values that earlier ones have left (the operands lower.rs fills in
\* and the handlers of evaluator.rs index the frame's values with); the one exception is the
\* binding that a class body adds for an assignment or a decorated method.
OperandsDefined ==
  state = "operand" => Inst.op = "SetVar" /\ codes[Top.code].seqs[Top.seq].kind = "Class"

\* A body is never taken from the code of another module: the sequence of a class is one
\* (the assertion of build_class), and sequence numbers are in range.
OwnCode == state \notin {"assertion", "index"}

\* A look-up ends: "all scope chains eventually resolve to a module object" (evaluator.rs).
LookupResolves == (scope # 0) ~> (scope = 0)

\* An evaluation ends, with the module, an exception or a panic (set_upper_tick_bound).
EvalEnds == (state = "running") ~> (state # "running")
=============================================================================

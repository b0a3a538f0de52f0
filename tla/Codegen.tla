------------------------------ MODULE Codegen ------------------------------
(***************************************************************************)
(* The compilation of a function, and a run of its IR next to one of its   *)
(* flat code.                                                              *)
(***************************************************************************)
EXTENDS Compiler

CONSTANT Outcomes  \* results of functions, by type, when they are run

\* A function of the module returns what it is annotated with.
ASSUME OutcomesAssumption ==
  /\ \A t \in DOMAIN Outcomes : \A o \in Outcomes[t] : o[1] \in DOMAIN ClassOf /\ ClassOf[o[1]] = t
  /\ \A f \in DOMAIN Globals : Globals[f].ret \in DOMAIN Outcomes

VARIABLES at, env, heap, flat, agree, returned

run == <<at, env, heap, flat, agree, returned>>
vars == <<compiler, run>>

Init ==
  /\ CompileInit
  /\ at = <<Entry, 1>> /\ env = Nothing /\ heap = Nothing
  /\ flat = [pc |-> 1, vals |-> Nothing]
  /\ agree = TRUE /\ returned = FALSE

-----------------------------------------------------------------------------
(* Running both.  A value is a number of some type, a function, or a tuple: *)
(* of values for the flat code, and the address of them for the IR, where  *)
(* an allocation is named by its instruction.  An event is a call of a     *)
(* function of the module, a write of a variable, or the return.           *)

Scalar(t, n) == [is |-> t, num |-> n]
ConstantValue(cst) == Scalar(cst[1], cst[2])
FunctionValue == Scalar("function", 0)
Address(i) == Scalar("address", i)
TupleValue(vs) == [items |-> vs]

\* The methods of the builtin classes, which are external.
IsMethod(f) == \E m \in DOMAIN Methods : Methods[m] = f
MethodResult(f, args) ==
  CASE f \in {"int_bool", "bool_bool"} -> Scalar("bool", IF args[1].num = 0 THEN 0 ELSE 1)
    [] f = "int_eq"  -> Scalar("bool", IF args[1].num = args[2].num THEN 1 ELSE 0)
    [] f = "int_add" -> Scalar("int", args[1].num + args[2].num)
ASSUME MethodsAssumption ==
  \A m \in DOMAIN Methods :
    \/ Methods[m] \in {"int_bool", "bool_bool", "int_eq"} /\ Globals[Methods[m]].ret = "Bool"
    \/ Methods[m] = "int_add" /\ Globals[Methods[m]].ret = "Int"
ResultsOf(f) == {Scalar(o[1], o[2]) : o \in Outcomes[Globals[f].ret]}

\* The tuples that the addresses of the IR lead to.
Contents ==
  LET tuple[a \in DOMAIN heap] ==
        TupleValue([n \in DOMAIN heap[a] |->
          IF heap[a][n].value.is = "address" THEN tuple[heap[a][n].value.num] ELSE heap[a][n].value])
  IN  tuple
Deref(v) == IF v.is = "address" THEN Contents[v.num] ELSE v

Running == state = "compiled" /\ ~returned

FlatInst == code[flat.pc]
FlatArgs == [n \in DOMAIN FlatInst.arguments |-> flat.vals[FlatInst.arguments[n]]]
FlatCallee == code[FlatInst.callable]

\* The flat code is at an event, or at its end.
AtEvent == \/ flat.pc \notin DOMAIN code
           \/ FlatInst.op \in {"SetVar", "Return"}
           \/ FlatInst.op = "Call" /\ FlatCallee.op = "UseVar"
FlatEvent ==
  IF flat.pc \notin DOMAIN code THEN <<"end">>
  ELSE CASE FlatInst.op = "SetVar" -> <<"set", FlatInst.var, flat.vals[FlatInst.value]>>
         [] FlatInst.op = "Return" -> <<"return", flat.vals[FlatInst.value]>>
         [] OTHER                  -> <<"call", FlatCallee.var, FlatArgs>>

\* A step of the flat code between events; it is ahead of the IR.
Gives(v) == flat' = [pc |-> flat.pc + 1, vals |-> Put(flat.vals, flat.pc, v)]
Goes(to) == flat' = [flat EXCEPT !.pc = IF to = 0 THEN flat.pc + 1 ELSE to]
FlatCall ==
  IF DOMAIN FlatArgs[1] = {"items"} THEN FlatArgs[1].items[FlatArgs[2].num + 1]
  ELSE MethodResult(Methods[<<ClassOf[flat.vals[FlatCallee.object].is], FlatCallee.dunder>>], FlatArgs)
RunFlat ==
  /\ Running /\ ~AtEvent
  /\ CASE FlatInst.op = "Const"  -> Gives(ConstantValue(FlatInst.cst))
       [] FlatInst.op = "UseVar" -> Gives(FunctionValue)
       [] FlatInst.op = "Tuple"  ->
            Gives(TupleValue([n \in DOMAIN FlatInst.elems |-> flat.vals[FlatInst.elems[n]]]))
       [] FlatInst.op = "Call"   -> Gives(FlatCall)
       [] FlatInst.op = "If"     ->
            Goes(IF flat.vals[FlatInst.test].num # 0 THEN FlatInst.truthy ELSE FlatInst.falsey)
       [] FlatInst.op = "Br"     -> Goes(FlatInst.to)
       [] OTHER                  -> Goes(0)
  /\ UNCHANGED <<at, env, heap, agree, returned>>

Current == ir[at[1]][at[2]]
Runs(ops) == Running /\ AtEvent /\ Current.op \in ops
Step == at' = <<at[1], at[2] + 1>> /\ UNCHANGED returned
GoTo(b) == at' = <<b, 1>> /\ UNCHANGED returned
Quietly == UNCHANGED <<flat, agree>>

\* The IR has the event e: the flat code has it too, and goes on with the value v.
Event(e, v) ==
  /\ agree' = (agree /\ FlatEvent = e)
  /\ IF agree' THEN Gives(v) ELSE UNCHANGED flat

RunConst == Runs({"Const"}) /\ env' = Put(env, Current.ret, ConstantValue(Current.cst))
              /\ Step /\ Quietly /\ UNCHANGED heap
RunUse == Runs({"Use"}) /\ env' = Put(env, Current.ret, FunctionValue)
            /\ Step /\ Quietly /\ UNCHANGED heap

\* An address is named by its allocation: the one a loop made before is out of reach.
RunAlloc ==
  /\ Runs({"alloc"})
  /\ heap' = Put(heap, Current.ret,
                 [i \in DOMAIN Current.stored |-> [offset |-> Current.offsets[i],
                                                   value |-> env[Current.stored[i]]]])
  /\ env' = Put(env, Current.ret, Address(Current.ret))
  /\ Step /\ Quietly

RunLoad ==
  /\ Runs({"load"})
  /\ \E cell \in ToSet(heap[env[Current.addr].num]) :
       cell.offset = Current.offset /\ env' = Put(env, Current.ret, cell.value)
  /\ Step /\ Quietly /\ UNCHANGED heap

\* br_icmp: the control value is compared with 1 or with 0.
Taken(inst) ==
  \/ inst.op = "JumpIfTrue" /\ env[inst.ctrl].num = 1
  \/ inst.op = "JumpIfFalse" /\ env[inst.ctrl].num = 0

RunBranch ==
  /\ Runs({"JumpIfTrue", "JumpIfFalse"})
  /\ IF Taken(Current) THEN GoTo(Current.to) ELSE Step
  /\ Quietly /\ UNCHANGED <<env, heap>>

RunJump == Runs({"Jump"}) /\ GoTo(Current.to) /\ Quietly /\ UNCHANGED <<env, heap>>

RunMethod ==
  /\ Runs({"Call"}) /\ IsMethod(Current.value)
  /\ env' = Put(env, Current.ret, MethodResult(Current.value, [n \in DOMAIN Current.args |-> env[Current.args[n]]]))
  /\ Step /\ Quietly /\ UNCHANGED heap

RunCall ==
  /\ Runs({"Call"}) /\ ~IsMethod(Current.value)
  /\ \E r \in ResultsOf(Current.value) :
       /\ env' = Put(env, Current.ret, r)
       /\ Event(<<"call", Current.value, [n \in DOMAIN Current.args |-> Deref(env[Current.args[n]])]>>, r)
  /\ Step /\ UNCHANGED heap

\* The slot of the variable is never read: reading one is not implemented.
RunWrite ==
  /\ Runs({"WriteLocalVar"})
  /\ Event(<<"set", Current.var, Deref(env[Current.orig])>>, FunctionValue)
  /\ Step /\ UNCHANGED <<env, heap>>

RunReturn ==
  /\ Runs({"Return"})
  /\ Event(<<"return", Deref(env[Current.value])>>, FunctionValue)
  /\ returned' = TRUE
  /\ UNCHANGED <<at, env, heap>>

Compiles == Compile /\ UNCHANGED run
Run == \/ RunFlat \/ RunConst \/ RunUse \/ RunAlloc \/ RunLoad \/ RunBranch \/ RunJump
       \/ RunMethod \/ RunCall \/ RunWrite \/ RunReturn
Next == Compiles \/ (Run /\ UNCHANGED compiler)

Spec == Init /\ [][Next]_vars
FairSpec == Spec /\ WF_vars(Compiles)

-----------------------------------------------------------------------------
Compiling == {"analyze", "lower"}

\* The compiled function calls, writes and returns what its flat code does, if its loops
\* test booleans: visit_while branches on the test as it is, and br_icmp takes a number
\* other than 1 for false.
TracesAgree == agree

\* What a value of a type may be: of a union, what the types it lists may be.
Unfolded(tcx) ==
  LET types[t \in DOMAIN tcx.types] ==
        LET k == KindOf(tcx, t) IN
          IF IsUnionKind(k) THEN UNION {types[k.union[n]] : n \in DOMAIN k.union} ELSE {t}
  IN  types

\* A tuple was allocated with its type.
Fits(v, t) ==
  LET k == KindOf(tm.tcx, t) IN
    CASE IsTupleKind(k)    -> v.is = "address" /\ v.num \in DOMAIN heap /\ tm.types[v.num] = t
      [] IsCallableKind(k) -> v = FunctionValue
      [] OTHER             -> v.is \in DOMAIN ClassOf /\ t = Tag[ClassOf[v.is]]
HasType(v, t) == \E u \in Unfolded(tm.tcx)[t] : Fits(v, u)

\* A value has the type that analyze_block gave it.
ValuesTyped == \A i \in DOMAIN env : HasType(env[i], tm.types[i])

\* A tuple in memory has the members of the type it was allocated with.
HeapTyped ==
  \A a \in DOMAIN heap :
    LET members == KindOf(tm.tcx, tm.types[a]).tuple IN
      /\ DOMAIN heap[a] = DOMAIN members
      /\ \A n \in DOMAIN members : HasType(heap[a][n].value, members[n])

\* What an instruction of the IR reads is there.
ReadByIR(inst) ==
  CASE inst.op = "alloc" -> ToSet(inst.stored)
    [] inst.op = "load"  -> {inst.addr}
    [] OTHER             -> Reads(inst)
ReadsDefined == Running => ReadByIR(Current) \subseteq DOMAIN env

\* A function is called with the types it takes; a self parameter and one of unknown type
\* take anything (unify_func).
Accepts(param, v) == param \in {"TSelf", "Unknown"} \/ HasType(v, Tag[param])
ArgumentsAccepted ==
  Running /\ Current.op = "Call" =>
    /\ Len(Current.args) = Len(Globals[Current.value].params)
    /\ \A n \in DOMAIN Current.args : Accepts(Globals[Current.value].params[n], env[Current.args[n]])

\* What is returned is of the type that was annotated.
ReturnTyped == returned => HasType(env[Current.value], Tag[fun.ret])

\* Types are kept while the compiled function runs, and no value is read that is not there.
TypesHold == ValuesTyped /\ HeapTyped /\ ReadsDefined /\ ArgumentsAccepted /\ ReturnTyped

\* What the type checker accepts is lowered, each block of it once: "Lower all included
\* functions and produce an executable".  It is not: the list of the blocks that have been
\* lowered is not sorted, and the binary search in it misses some.
LoweredOnce == state # "refilled"

\* Compiling a function comes to an end.
CompilingEnds == <>(state \notin Compiling)
=============================================================================

------------------------------ MODULE Compiler ------------------------------
(***************************************************************************)
(* From the flat code of one function to IR: the type checker analyses its *)
(* blocks (TypingMachine), giving types to values and code generator       *)
(* instructions to blocks, and the code generator lowers those to IR       *)
(* (Builder::lower).                                                       *)
(*                                                                         *)
(* Blocks are named by their first instruction.  The IR of a block is what *)
(* was emitted for it up to its end, with memory offsets in place of       *)
(* fields.  Cranelift is external: its verifier refuses a block that is    *)
(* filled twice, has no end, or jumps to one that is not there; its debug  *)
(* assertions are off.                                                     *)
(***************************************************************************)
EXTENDS Blocks, Typing

CONSTANTS Functions, \* the functions compiled: parameters, flat code, builtin return type
          Globals,   \* the functions of the module: parameter and return types
          Methods    \* of the builtin classes, by type and name: a function of Globals

\* The classes of constants.
ClassOf == [int |-> "Int", float |-> "Float", bool |-> "Bool", str |-> "Str", none |-> "None",
            ellipsis |-> "Ellipsis"]

\* The values an instruction of flat code is made from.
Operands(inst) ==
  CASE inst.op = "Call"  -> {inst.callable} \cup ToSet(inst.arguments)
    [] inst.op = "Tuple" -> ToSet(inst.elems)
    [] inst.op = "If"    -> {inst.test}
    [] inst.op \in {"GetAttribute", "GetDunder"}   -> {inst.object}
    [] inst.op \in {"SetVar", "Return", "PhiJump"} -> {inst.value}
    [] OTHER             -> {}

\* What the lowering of a function makes: there is code, branches stay inside of it, and an
\* expression is in one block, or goes on in the one of a phi-recv.
ASSUME FunctionsAssumption ==
  \A f \in Functions :
    /\ f.code \in Seq(ToSet(f.code)) /\ f.code # << >>
    /\ \A i \in DOMAIN f.code :
         /\ Targets(f.code[i]) \subseteq DOMAIN f.code
         /\ f.code[i].op = "Const" => f.code[i].cst[1] \in DOMAIN ClassOf
         /\ f.code[i].op = "Call" => f.code[i].arguments \in Seq(Nat)
         /\ f.code[i].op = "Tuple" => f.code[i].elems \in Seq(Nat)
         /\ \A v \in Operands(f.code[i]) :
              /\ v \in DOMAIN f.code
              /\ \/ BlockOf(f.code, v) = BlockOf(f.code, i)
                 \/ f.code[BlockOf(f.code, i)].op = "PhiRecv"
    /\ f.ret \in DOMAIN Tag

\* Annotations are builtin types, and a method is a function of one of them.
ASSUME GlobalsAssumption ==
  /\ \A f \in DOMAIN Globals : Globals[f].params \in Seq(DOMAIN Tag) /\ Globals[f].ret \in DOMAIN Tag
  /\ IsFiniteSet(DOMAIN Methods) /\ DOMAIN Methods \subseteq (DOMAIN Tag) \X STRING
  /\ \A m \in DOMAIN Methods : Methods[m] \in DOMAIN Globals

\* Code generator instructions.
Jump(to, with)            == [op |-> "Jump", to |-> to, with |-> with]
JumpIfTrue(to, ctrl)      == [op |-> "JumpIfTrue", to |-> to, ctrl |-> ctrl]
JumpIfFalse(to, ctrl)     == [op |-> "JumpIfFalse", to |-> to, ctrl |-> ctrl]
Use(value, ret)           == [op |-> "Use", value |-> value, ret |-> ret]
CgCall(value, args, ret)  == [op |-> "Call", value |-> value, args |-> args, ret |-> ret]
CgConst(cst, ret)         == [op |-> "Const", cst |-> cst, ret |-> ret]
\* Fields are numbered from 1; 0 is one that is only known when the code runs.
FieldLoad(orig, orig_t, field, ret) ==
  [op |-> "FieldLoad", orig |-> orig, orig_t |-> orig_t, field |-> field, ret |-> ret]
WriteLocalVar(var, orig)  == [op |-> "WriteLocalVar", var |-> var, orig |-> orig]
Alloc(t, ilist, ret)      == [op |-> "Alloc", type_id |-> t, ilist |-> ilist, ret |-> ret]
CgReturn(value)           == [op |-> "Return", value |-> value]

VARIABLES fun, state,
          cfg, \* the targets of the edges of each block, in the order they were made
          tm,  \* the TypingMachine and the block it is at
          cg, blocks_to_analyze, blocks_analyzed,
          block_indecies, blocks_processed, values, ir

function == <<fun, cfg>>
analysis == <<tm, cg, blocks_to_analyze, blocks_analyzed>>
lowering == <<block_indecies, blocks_processed, values, ir>>
compiler == <<function, state, analysis, lowering>>

code == fun.code
Blocks == {i \in DOMAIN code : Leader(code, i)}
Entry == 1

-----------------------------------------------------------------------------
(* Types of functions, and the properties that initialize_hlirt enters.    *)

Signature(t, f) ==
  Callable(t, [i \in DOMAIN Globals[f].params |-> Tag[Globals[f].params[i]]], Tag[Globals[f].ret])

WithMethod(t, m) ==
  LET method == Signature(t, Methods[m])
      base == Insert(method, Plain(TypeKind(Tag[m[1]])))
  IN  InsertProperty(base, base.id, m[2], Property(method.id, Methods[m]))

Nothing == [x \in {} |-> x]

MethodsEntered ==
  LET ms == SetToSeq(DOMAIN Methods)
      tables[n \in 0 .. Len(ms)] ==
        IF n = 0 THEN Initialized ELSE WithMethod(tables[n - 1], ms[n])
  IN  tables[Len(ms)]

\* TypingMachine::new
NewMachine ==
  [tcx |-> MethodsEntered,
   types |-> Nothing, nonlocals |-> Nothing, locals |-> ToSet(fun.params),
   ix |-> Entry, out |-> << >>, verdict |-> "ok"]

\* update_edge: there is at most one edge from a block to another.
WithEdge(made, t) ==
  IF t = 0 \/ BlockOf(code, t) \in ToSet(made) THEN made ELSE Append(made, BlockOf(code, t))
WithEdgesOf(made, inst) ==
  CASE inst.op = "If" -> WithEdge(WithEdge(made, inst.truthy), inst.falsey)
    [] inst.op = "Br" -> WithEdge(made, inst.to)
    [] OTHER          -> made
EdgesMade(b) ==
  LET made[i \in 0 .. Len(code)] ==
        IF i = 0 THEN << >>
        ELSE IF BlockOf(code, i) = b THEN WithEdgesOf(made[i - 1], code[i]) ELSE made[i - 1]
  IN  made[Len(code)]

CompileInit ==
  /\ fun \in Functions
  /\ cfg = [b \in Blocks |-> EdgesMade(b)]
  /\ state = "analyze"
  /\ tm = NewMachine
  /\ cg = [b \in Blocks |-> << >>]
  /\ blocks_to_analyze = {Entry} /\ blocks_analyzed = {}
  /\ block_indecies = <<Entry>> /\ blocks_processed = << >>
  /\ values = {} /\ ir = Nothing

-----------------------------------------------------------------------------
(* analyze_block, one instruction at a time: `ix` is the next one, `out`   *)
(* is what was emitted for the block.  `verdict` is "ok", "error" for what *)
(* is reported, "panic" for what is not handled.                           *)

Emits(a, insts) == [a EXCEPT !.out = @ \o insts]
Typed(a, i, t) == [a EXCEPT !.types = Put(@, i, t)]
Panics(a) == [a EXCEPT !.verdict = "panic"]
Fails(a) == [a EXCEPT !.verdict = "error"]
Knows(a, vs) == ToSet(vs) \subseteq DOMAIN a.types

\* Mutant of AnalyzeIf: a test that fails falls through to the next block.
AnalyzeIfNoElse(a, inst) ==
  LET yes == JumpIfTrue(BlockOf(code, inst.truthy), inst.test)
      no == BlockOf(code, inst.falsey)
  IN  CASE inst.truthy = 0 /\ inst.falsey = 0 -> a
        [] inst.truthy = 0 -> Emits(a, <<JumpIfFalse(no, inst.test)>>)
        [] inst.falsey = 0 -> Emits(a, <<yes>>)
        [] OTHER -> Emits(a, <<yes, Jump(yes.to, << >>)>>)

AnalyzeIf(a, inst) ==
  LET yes == JumpIfTrue(BlockOf(code, inst.truthy), inst.test)
      no == BlockOf(code, inst.falsey)
  IN  CASE inst.truthy = 0 /\ inst.falsey = 0 -> a
        [] inst.truthy = 0 -> Emits(a, <<JumpIfFalse(no, inst.test)>>)
        [] inst.falsey = 0 -> Emits(a, <<yes>>)
        [] OTHER -> Emits(a, <<yes, Jump(no, << >>)>>)

AnalyzeSetVar(a, inst) ==
  IF ~Knows(a, <<inst.value>>) THEN Panics(a)
  ELSE Emits([a EXCEPT !.locals = @ \cup {inst.var}], <<WriteLocalVar(inst.var, inst.value)>>)

\* A local variable cannot be read yet; any other name is one of the module.
AnalyzeUseVar(a, i, inst) ==
  IF inst.var \in a.locals \/ inst.var \notin DOMAIN Globals THEN Panics(a)
  ELSE LET t == Signature(a.tcx, inst.var)
       IN  Emits(Typed([a EXCEPT !.tcx = t, !.nonlocals = Put(@, i, inst.var)], i, t.id),
                 <<Use(inst.var, i)>>)

\* GetAttribute and GetDunder: the type of the property, which is looked up again
\* when it is called.
AnalyzeProperty(a, i, object, name, missing) ==
  IF ~Knows(a, <<object>>) THEN Panics(a)
  ELSE LET base == a.types[object]
           looked == [a EXCEPT !.tcx = Looked(a.tcx, base, name)]
       IN  IF HasProperty(a.tcx, base, name)
           THEN Typed(looked, i, GetProperty(a.tcx, base, name).type_id)
           ELSE [looked EXCEPT !.verdict = missing]

\* The call of a property of an object: of a field of a tuple, or of a method.
AnalyzeMethodCall(a, i, inst, object, name) ==
  LET base == a.types[object]
      index == code[inst.arguments[2]]
      property == GetProperty(a.tcx, base, name)
  IN  IF IsTupleKind(KindOf(a.tcx, base)) /\ name = "getitem"
      THEN Emits(a, <<FieldLoad(object, base,
                        IF index.op = "Const" /\ index.cst[1] = "int" THEN index.cst[2] + 1 ELSE 0, i)>>)
      ELSE IF DOMAIN property.value = {"id"}
           THEN Emits(a, <<CgCall(property.value.id, inst.arguments, i)>>)
           ELSE Panics(a)

AnalyzeCall(a, i, inst) ==
  LET callee == code[inst.callable]
      callable_t == a.types[inst.callable]
      kind == KindOf(a.tcx, callable_t)
      args == [n \in DOMAIN inst.arguments |-> a.types[inst.arguments[n]]]
      typed == Typed(a, i, kind.ret)
  IN  IF ~Knows(a, <<inst.callable>> \o inst.arguments) THEN Panics(a)
      ELSE IF ~IsCallableKind(kind) THEN Panics(a)
      ELSE IF ~SameArity(a.tcx, callable_t, args) THEN Panics(a)
      ELSE IF ~Unifies(a.tcx, callable_t, args) THEN Fails(a)
      ELSE CASE callee.op = "UseVar" ->
                  Emits(typed, <<CgCall(a.nonlocals[inst.callable], inst.arguments, i)>>)
             [] callee.op = "GetDunder" ->
                  AnalyzeMethodCall(typed, i, inst, callee.object, callee.dunder)
             [] callee.op = "GetAttribute" ->
                  AnalyzeMethodCall(typed, i, inst, callee.object, code[callee.attr].name)
             [] OTHER -> typed

ConstantType(cst) == Tag[ClassOf[cst[1]]]

AnalyzeConst(a, i, inst) == Emits(Typed(a, i, ConstantType(inst.cst)), <<CgConst(inst.cst, i)>>)

AnalyzeTuple(a, i, inst) ==
  LET t == TupleType(a.tcx, [n \in DOMAIN inst.elems |-> a.types[inst.elems[n]]])
  IN  IF ~Knows(a, inst.elems) THEN Panics(a)
      ELSE Emits(Typed([a EXCEPT !.tcx = t], i, t.id), <<Alloc(t.id, inst.elems, i)>>)

\* Mutant of AnalyzeReturn: a value of any type is returned.
AnalyzeReturnAny(a, inst) ==
  IF ~Knows(a, <<inst.value>>) THEN Panics(a) ELSE Emits(a, <<CgReturn(inst.value)>>)

AnalyzeReturn(a, inst) ==
  IF ~Knows(a, <<inst.value>>) THEN Panics(a)
  ELSE IF a.types[inst.value] # Tag[fun.ret] THEN Fails(a)
  ELSE Emits(a, <<CgReturn(inst.value)>>)

\* What is not handled panics: phi-recvs, definitions, imports and all other writes.
Analyzed(a, i) ==
  LET inst == code[i] IN
    CASE inst.op = "Br"           -> Emits(a, <<Jump(BlockOf(code, inst.to), << >>)>>)
      [] inst.op = "PhiJump"      -> Emits(a, <<Jump(BlockOf(code, inst.recv), <<inst.value>>)>>)
      [] inst.op = "If"           -> AnalyzeIf(a, inst)
      [] inst.op = "SetVar"       -> AnalyzeSetVar(a, inst)
      [] inst.op = "UseVar"       -> AnalyzeUseVar(a, i, inst)
      [] inst.op = "RefAsStr"     -> Typed(a, i, Tag.Str)
      [] inst.op = "GetAttribute" -> AnalyzeProperty(a, i, inst.object, code[inst.attr].name, "error")
      [] inst.op = "GetDunder"    -> AnalyzeProperty(a, i, inst.object, inst.dunder, "panic")
      [] inst.op = "Call"         -> AnalyzeCall(a, i, inst)
      [] inst.op = "Const"        -> AnalyzeConst(a, i, inst)
      [] inst.op = "Tuple"        -> AnalyzeTuple(a, i, inst)
      [] inst.op = "Return"       -> AnalyzeReturn(a, inst)
      [] inst.op \in {"Nop", "JumpTarget", "BuildClass"} -> a
      [] OTHER                    -> Panics(a)

Successors(b) == ToSet(cfg[b])

\* Mutant of Worklist: blocks that were analysed before are analysed again.
WorklistAgain(todo, b, done) == (todo \cup Successors(b)) \ {b}

\* Mutant of Worklist: edges are followed both ways.
WorklistBothWays(todo, b, done) == (todo \cup Successors(b) \cup {p \in Blocks : b \in Successors(p)}) \ done

Worklist(todo, b, done) == (todo \cup Successors(b)) \ done

Block == Min(blocks_to_analyze)
BlockLeft == tm.ix \in DOMAIN code /\ BlockOf(code, tm.ix) = Block

\* The least block of the worklist, which is sorted, is visited (CfgReducer).
AnalyzeInst ==
  /\ state = "analyze" /\ blocks_to_analyze # {} /\ BlockLeft
  /\ LET a == Analyzed(tm, tm.ix) IN
       /\ tm' = [a EXCEPT !.ix = tm.ix + 1]
       /\ state' = CASE a.verdict = "ok" -> state
                     [] a.verdict = "error" -> "rejected"
                     [] OTHER -> "panicked"
  /\ UNCHANGED <<function, cg, blocks_to_analyze, blocks_analyzed, lowering>>

\* The block has been analysed, and holds code.
LeaveBlock ==
  /\ state = "analyze" /\ blocks_to_analyze # {} /\ ~BlockLeft
  /\ IF tm.out = << >> THEN state' = "panicked" /\ UNCHANGED analysis
     ELSE /\ cg' = [cg EXCEPT ![Block] = tm.out]
          /\ blocks_analyzed' = blocks_analyzed \cup {Block}
          /\ blocks_to_analyze' = Worklist(blocks_to_analyze, Block, blocks_analyzed')
          /\ tm' = [tm EXCEPT !.out = << >>,
                              !.ix = IF blocks_to_analyze' = {} THEN Entry ELSE Min(blocks_to_analyze')]
          /\ UNCHANGED state
  /\ UNCHANGED <<function, lowering>>

StartLowering ==
  /\ state = "analyze" /\ blocks_to_analyze = {}
  /\ state' = "lower"
  /\ UNCHANGED <<function, analysis, lowering>>

-----------------------------------------------------------------------------
(* Builder::lower                                                          *)

\* The values an instruction reads.
Reads(inst) ==
  CASE inst.op = "Alloc"     -> ToSet(inst.ilist)
    [] inst.op = "Call"      -> ToSet(inst.args)
    [] inst.op = "Jump"      -> ToSet(inst.with)
    [] inst.op = "FieldLoad" -> {inst.orig}
    [] inst.op = "WriteLocalVar" -> {inst.orig}
    [] inst.op \in {"JumpIfTrue", "JumpIfFalse"} -> {inst.ctrl}
    [] inst.op = "Return"    -> {inst.value}
    [] OTHER                 -> {}
Ends(inst) == inst.op \in {"Jump", "Return"}

\* An ellipsis, a field that is not there or not known, and an empty tuple are not lowered.
Lowerable(inst) ==
  CASE inst.op = "Const"     -> inst.cst[1] # "ellipsis"
    [] inst.op = "FieldLoad" -> inst.field \in DOMAIN KindOf(tm.tcx, inst.orig_t).tuple
    [] inst.op = "Alloc"     -> inst.ilist # << >> /\ FieldsOf(tm.tcx, inst.type_id).size # 0
    [] OTHER                 -> TRUE

Lowered(inst) ==
  CASE inst.op = "Alloc"     -> [op |-> "alloc", ret |-> inst.ret, stored |-> inst.ilist,
                                 offsets |-> FieldsOf(tm.tcx, inst.type_id).offsets]
    [] inst.op = "FieldLoad" -> [op |-> "load", ret |-> inst.ret, addr |-> inst.orig,
                                 offset |-> FieldsOf(tm.tcx, inst.orig_t).offsets[inst.field]]
    [] OTHER                 -> inst

\* The instructions of a block up to its end; the rest is not looked at.
UpToEnd(insts) ==
  LET ends == {k \in DOMAIN insts : Ends(insts[k])}
  IN  IF ends = {} THEN insts ELSE SubSeq(insts, 1, Min(ends))
Results(insts) == {insts[k].ret : k \in {k \in DOMAIN insts : "ret" \in DOMAIN insts[k]}}

\* Every value is there when it is read.
CanLower(insts) ==
  \A k \in DOMAIN insts :
    Reads(insts[k]) \subseteq values \cup Results(SubSeq(insts, 1, k - 1)) /\ Lowerable(insts[k])

\* The newest edge is visited first.
EdgeTargets(b) == Reverse(cfg[b])

\* slice::binary_search, on a sequence that need not be sorted: x is looked for between
\* left and right, until it is met or nothing is between them.
Halved(s, x, w) ==
  LET mid == w.left + (w.right - w.left) \div 2 IN
    IF w.found \/ w.left >= w.right THEN w
    ELSE IF s[mid + 1] < x THEN [left |-> mid + 1, right |-> w.right, found |-> FALSE]
    ELSE [left |-> w.left, right |-> mid, found |-> s[mid + 1] = x]
BinarySearch(s, x) ==
  LET windows[n \in 0 .. Len(s)] ==
        IF n = 0 THEN [left |-> 0, right |-> Len(s), found |-> FALSE] ELSE Halved(s, x, windows[n - 1])
  IN  windows[Len(s)].found

\* A block that was not lowered, as far as the search tells, and is not waiting.
Queued(processed, queue, b) ==
  IF BinarySearch(processed, b) \/ b \in ToSet(queue) THEN queue ELSE Append(queue, b)
QueueTargets(processed, queue, targets) ==
  LET queued[n \in 0 .. Len(targets)] ==
        IF n = 0 THEN queue ELSE Queued(processed, queued[n - 1], targets[n])
  IN  queued[Len(targets)]

\* The next block is lowered.  Where it has been lowered before, Cranelift asserts that a
\* filled block is not entered again, and "refilled" is the end of this model: with debug
\* assertions off the loop would go on, up to a verifier that refuses the function.
LowerBlock ==
  /\ state = "lower" /\ block_indecies # << >>
  /\ \E b \in {Head(block_indecies)}, insts \in {UpToEnd(cg[Head(block_indecies)])} :
       IF b \in DOMAIN ir THEN state' = "refilled" /\ UNCHANGED lowering
       ELSE IF ~CanLower(insts) THEN state' = "unlowered" /\ UNCHANGED lowering
       ELSE /\ ir' = Put(ir, b, [k \in DOMAIN insts |-> Lowered(insts[k])])
            /\ values' = values \cup Results(insts)
            /\ blocks_processed' = Append(blocks_processed, b)
            /\ block_indecies' = QueueTargets(blocks_processed', Tail(block_indecies), EdgeTargets(b))
            /\ UNCHANGED state
  /\ UNCHANGED <<function, analysis>>

\* The verifier refuses a block that has no end, or jumps to one that was not filled.
JumpsTo(inst) == IF inst.op \in {"Jump", "JumpIfTrue", "JumpIfFalse"} THEN {inst.to} ELSE {}
Verified(b) == /\ \E k \in DOMAIN ir[b] : Ends(ir[b][k])
               /\ \A k \in DOMAIN ir[b] : JumpsTo(ir[b][k]) \subseteq DOMAIN ir
Verify ==
  /\ state = "lower" /\ block_indecies = << >>
  /\ state' = IF \A b \in DOMAIN ir : Verified(b) THEN "compiled" ELSE "unverified"
  /\ UNCHANGED <<function, analysis, lowering>>

Compile == AnalyzeInst \/ LeaveBlock \/ StartLowering \/ LowerBlock \/ Verify
CompileSpec == CompileInit /\ [][Compile]_compiler

-----------------------------------------------------------------------------
\* The graph that both worklists go by has the edges of the branches of the code.
GraphOfCode == UNION {{<<b, t>> : t \in Successors(b)} : b \in Blocks} = Edges(code)

\* A function that compiles has IR for the blocks that the entry leads to, and for no
\* other: the ones that were analysed (Builder::lower's queue).
Closed(S) == Entry \in S /\ \A b \in S : Successors(b) \subseteq S
Reachable == {b \in Blocks : \A S \in SUBSET Blocks : Closed(S) => b \in S}
LoweredReachable ==
  [][state' = "compiled" => DOMAIN ir = Reachable /\ DOMAIN ir = blocks_analyzed]_compiler
=============================================================================

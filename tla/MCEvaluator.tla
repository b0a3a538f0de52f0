---------------------------- MODULE MCEvaluator ----------------------------
(* Sessions of a small builtins module, a bootstrap module and one user    *)
(* module of up to two statements.                                         *)
EXTENDS Scoping

Num(n) == Cst(<<"int", n>>)
Str(st) == Cst(<<"str", st>>)
Bool(b) == Cst(<<"bool", b>>)
Pair(x, ann) == [name |-> x, ann |-> ann]
Def(f, params, body) == FuncDef(f, << >>, params, << >>, body)

MCBuiltins == <<
  ImportFrom(<<"__monty">>, 1, <<"intrinsic">>),
  ClassDef("int", <<Expression(Str("doc")), Def("neg", <<Pair("self", <<Name("int")>>)>>, <<Pass>>)>>),
  FuncDef("id", <<Name("intrinsic")>>, <<Pair("x", << >>)>>, <<Name("int")>>, <<Ret(Name("x"))>>)>>

MCBootstrap == <<ClassDef("PathFinder", <<Expression(Str("doc"))>>)>>

MCStatements == <<
  Assign("a", Num(1)),
  Assign("b", Named("c", Str("doc"))),
  Expression(CallOf(Name("id"), <<Num(2)>>)),
  Assign("b", CallOf(Name("id"), <<Name("a")>>)),
  Annotate("a", Name("int")),
  Def("f", <<Pair("x", << >>)>>, <<Assign("y", Name("x")), Expression(CallOf(Name("x"), <<Name("x")>>))>>),
  Expression(CallOf(Name("f"), <<Name("f")>>)),
  Expression(CallOf(Name("f"), <<Name("id")>>)),
  Def("g", << >>, <<ClassDef("a", <<Pass>>), Ret(Name("a"))>>),
  Assign("b", CallOf(Name("g"), << >>)),
  Def("h", << >>, <<Ret(Name("int"))>>),
  Expression(CallOf(Name("h"), << >>)),
  Expression(CallOf(Name("a"), << >>)),
  ClassDef("a", <<Expression(Str("s")), Def("b", <<Pair("self", <<Name("int")>>)>>, <<Pass>>), Expression(Name("b"))>>),
  ClassDef("d", <<ClassDef("b", <<Pass>>), Expression(Name("a"))>>),
  Assign("b", AttrOf(Name("a"), "b")),
  While(Bool(TRUE), <<Pass>>),
  While(Named("w", Bool(FALSE)), <<Assign("c", Num(2))>>),
  While(Num(1), <<Pass>>),
  If(<<[test |-> Bool(TRUE), body |-> <<Pass>>]>>, << >>),
  Ret(Num(1)),
  ImportNames(<<<<"os">>>>),
  ImportFrom(<<"int">>, 1, <<"a">>),
  ImportFrom(<<"__monty">>, 0, <<"extern">>),
  FuncDef("e", <<CallOf(Name("extern"), <<Str("C")>>)>>, << >>, << >>, <<Pass>>),
  FuncDef("e", <<CallOf(Name("extern"), <<Num(1)>>)>>, << >>, << >>, <<Pass>>),
  Assign("b", Ternary(Name("a"), Num(1), TupleExpr(<<Num(1)>>))),
  Expression(CallOf(Name("id"), <<Ternary(BinOp("gt", Name("a"), Num(1)), Name("a"), Num(1))>>)),
  ClassDef("d", <<Assign("b", Num(1))>>),
  ClassDef("d", <<While(Bool(FALSE), <<Pass>>)>>)>>

\* After nothing, or after two functions that take a function and make a class.
N == Len(MCStatements)
At0(i) == IF i = 0 THEN << >> ELSE <<MCStatements[i]>>
MCPrograms == [p \in {FALSE, TRUE} \X (1 .. N) \X (0 .. N) |->
                 <<MCBuiltins, MCBootstrap,
                   (IF p[1] THEN <<MCStatements[6], MCStatements[9]>> ELSE << >>) \o At0(p[2]) \o At0(p[3])>>]

\* A class in a class that uses a name of the module.
MCNested == << <<MCBuiltins, MCBootstrap,
                 <<ClassDef("a", <<ClassDef("b", <<Expression(Name("int"))>>)>>)>>>> >>

\* A function of builtins that makes a class, called by another module.
MCForeign == << <<<<Def("make", << >>, <<ClassDef("k", <<Pass>>)>>)>>, MCBootstrap,
                  <<Def("f", << >>, <<Pass>>), Def("g", << >>, <<Pass>>),
                    Expression(CallOf(Name("make"), << >>))>>>> >>

Lowered(programs) ==
  [p \in DOMAIN programs |-> [m \in DOMAIN programs[p] |-> LowerModule(programs[p][m])]]
MCSessions == Lowered(MCPrograms)
MCNestedSessions == Lowered(MCNested)
MCForeignSessions == Lowered(MCForeign)

MCSmallInts == <<0, 1>>
=============================================================================

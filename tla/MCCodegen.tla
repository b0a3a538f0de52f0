----------------------------- MODULE MCCodegen -----------------------------
(***************************************************************************)
(* Functions with calls, tuples, sums and comparisons, and conditionals    *)
(* and loops nested two deep; and functions that do not compile.  Their    *)
(* loops test booleans.  MCCodegenWhile.cfg has the ones that test numbers. *)
(***************************************************************************)
EXTENDS Codegen, FlatCode

Num(n) == Cst(<<"int", n>>)
Str == Cst(<<"str", 0>>)
CallF(f) == CallOf(Name(f), << >>)
Pair == TupleExpr(<<Num(1), CallF("n")>>)
Mixed == TupleExpr(<<CallF("p"), Pair>>)
Item(e, i) == Subscript(e, Num(i))
Sum == BinOp("add", Item(Pair, 1), Num(5))
TwiceN == CallOf(Name("twice"), <<CallF("n")>>)

MCGlobals ==
  [p |-> [params |-> << >>, ret |-> "Bool"], n |-> [params |-> << >>, ret |-> "Int"],
   twice |-> [params |-> <<"Int">>, ret |-> "Int"],
   int_bool |-> [params |-> <<"TSelf">>, ret |-> "Bool"],
   bool_bool |-> [params |-> <<"TSelf">>, ret |-> "Bool"],
   int_add |-> [params |-> <<"TSelf", "Int">>, ret |-> "Int"],
   int_eq |-> [params |-> <<"TSelf", "Int">>, ret |-> "Bool"]]
MCMethods ==
  [m \in {<<"Int", "bool">>, <<"Bool", "bool">>, <<"Int", "add">>, <<"Int", "eq">>} |->
     CASE m = <<"Int", "bool">> -> "int_bool" [] m = <<"Bool", "bool">> -> "bool_bool"
       [] m = <<"Int", "add">> -> "int_add" [] m = <<"Int", "eq">> -> "int_eq"]
MCOutcomes == [Bool |-> {<<"bool", 0>>, <<"bool", 1>>}, Int |-> {<<"int", 0>>, <<"int", 2>>}]

Set(x, e) == Assign(x, e)
Simple == {Set("x", Sum), Expression(TwiceN), Ret(Item(Pair, 0))}
Arm(t, body) == [test |-> t, body |-> body]
Loops(t, B) == {While(t, b) : b \in B}
Ifs(t, B) == {If(<<Arm(t, b)>>, << >>) : b \in B}
Elses(t, B) == {If(<<Arm(t, b)>>, <<<<Set("y", Num(1))>>>>) : b \in B}
                   \cup {If(<<Arm(t, b), Arm(CallF("n"), b)>>, << >>) : b \in B}
Flat == {<<s>> : s \in Simple}
Inner == Loops(CallF("p"), Flat) \cup Ifs(CallF("n"), Flat)
Compound ==
  Loops(BinOp("eq", CallF("n"), Num(0)), Flat \cup {<<s>> : s \in Inner})
    \cup Ifs(BinOp("eq", Item(Pair, 1), Num(2)), Flat \cup {<<s>> : s \in Inner} \cup {<<s, t>> : s, t \in Inner})
Body(S) == {<<s, Ret(TwiceN)>> : s \in S}

\* Functions that are rejected, or cannot be compiled.
Bad ==
  {<<Ret(Str)>>, <<Expression(CallOf(Name("twice"), <<Str>>)), Ret(Num(1))>>,
   <<Expression(CallOf(Name("twice"), << >>)), Ret(Num(1))>>,
   <<Expression(CallF("p"))>>, <<Set("x", Num(1)), Ret(Name("x"))>>, <<Ret(Name("nowhere"))>>,
   <<Ret(Ternary(CallF("p"), Num(1), Num(2)))>>, <<Ret(Item(Pair, 2))>>, <<Ret(Item(Mixed, 0))>>, <<Expression(Item(Mixed, 1)), Ret(Num(1))>>,
   <<If(<<Arm(Item(Mixed, 0), <<Pass>>)>>, << >>), Ret(Num(1))>>,
   <<Ret(Subscript(Pair, CallF("n")))>>, <<Set("x", TupleExpr(<< >>)), Ret(Num(1))>>,
   <<Ret(AttrOf(CallF("n"), "real"))>>, <<Ret(Unary("neg", Num(1)))>>,
   <<Expression(Cst(<<"ellipsis", 0>>)), Ret(Num(1))>>, <<Pass, Ret(Num(1))>>, <<Pass>>,
   <<AssignAttr(CallF("n"), "real", Num(1)), Ret(Num(1))>>,
   <<Ret(CallOf(AttrOf(CallF("n"), "eq"), <<Num(1)>>))>>,
   <<Expression(AttrOf(Num(3), "add")), Ret(Num(1))>>, <<Set("y", AttrOf(Num(3), "add")), Ret(Num(1))>>,
   <<If(<<Arm(CallF("p"), <<Ret(Num(1))>>)>>, << >>)>>}

Function(params, body) == [params |-> params, code |-> Lower(body), ret |-> "Int"]
MCFunctions ==
  {Function(<< >>, b) : b \in Body(Compound \cup Elses(CallF("p"), Flat)) \cup Body(Simple) \cup Bad}
    \cup {Function(<<"n">>, <<Ret(CallF("n"))>>)}

WhileFunctions == {Function(<< >>, b) : b \in Body(Loops(CallF("n"), Flat))}
=============================================================================

----------------------------- MODULE FlatCode -----------------------------
(***************************************************************************)
(* The lowering of a syntax tree to flat code (montyc_flatcode, lower.rs). *)
(*                                                                         *)
(* Instructions are numbered from 1, as the sequences of TLA+ are; 0 is a  *)
(* value or target not filled in yet (INVALID_VALUE), or none.             *)
(***************************************************************************)
EXTENDS Naturals, SequencesExt, Chaining

\* Expressions.
Cst(c)             == [kind |-> "const", cst |-> c]
Name(x)            == [kind |-> "name", name |-> x]
TupleExpr(es)      == [kind |-> "tuple", elems |-> es]
CallOf(f, args)    == [kind |-> "call", func |-> f, args |-> args]
AttrOf(e, a)       == [kind |-> "attr", left |-> e, attr |-> a]
Subscript(e, i)    == [kind |-> "subscript", left |-> e, index |-> i]
BinOp(d, l, r)     == [kind |-> "binop", dunder |-> d, left |-> l, right |-> r]
Unary(d, e)        == [kind |-> "unary", dunder |-> d, left |-> e]
Ternary(t, y, n)   == [kind |-> "ternary", test |-> t, body |-> y, orelse |-> n]
Named(x, e)        == [kind |-> "named", name |-> x, value |-> e]

\* Statements.
Assign(x, e)       == [kind |-> "assign", var |-> x, value |-> e]
AssignAttr(o, a, e) == [kind |-> "assignattr", left |-> o, attr |-> a, value |-> e]
Annotate(x, e)     == [kind |-> "annotate", var |-> x, value |-> e]
Expression(e)      == [kind |-> "expr", value |-> e]
Ret(e)             == [kind |-> "return", value |-> e]
Pass               == [kind |-> "pass"]
While(t, body)     == [kind |-> "while", test |-> t, body |-> body]
\* arms: the tests and bodies of if and elif; orelse: << >>, or <<the else body>>.
If(arms, orelse)   == [kind |-> "if", arms |-> arms, orelse |-> orelse]
\* params: names and annotations; an annotation is << >> or <<an expression>>.
FuncDef(f, decs, params, returns, body) ==
  [kind |-> "funcdef", name |-> f, decorators |-> decs, params |-> params,
   returns |-> returns, body |-> body]
ClassDef(k, body)  == [kind |-> "classdef", name |-> k, body |-> body]
ImportNames(paths) == [kind |-> "import", paths |-> paths]
ImportFrom(path, level, names) ==
  [kind |-> "from", path |-> path, level |-> level, names |-> names]

\* Instructions.
Const(c)           == [op |-> "Const", cst |-> c]
UseVar(x)          == [op |-> "UseVar", var |-> x]
SetVar(x, v)       == [op |-> "SetVar", var |-> x, value |-> v]
SetAnnotation(x, v) == [op |-> "SetAnnotation", var |-> x, value |-> v]
RefAsStr(a)        == [op |-> "RefAsStr", name |-> a]
GetAttribute(o, a) == [op |-> "GetAttribute", object |-> o, attr |-> a]
SetAttribute(o, a, v) == [op |-> "SetAttribute", object |-> o, attr |-> a, value |-> v]
GetDunder(o, d)    == [op |-> "GetDunder", object |-> o, dunder |-> d]
SetDunder(o, d, v) == [op |-> "SetDunder", object |-> o, dunder |-> d, value |-> v]
Call(f, args)      == [op |-> "Call", callable |-> f, arguments |-> args]
Tuple(vs)          == [op |-> "Tuple", elems |-> vs]
Defn(f, params, anns, seq) ==
  [op |-> "Defn", name |-> f, params |-> params, annotations |-> anns, seq |-> seq]
Class(k)           == [op |-> "Class", name |-> k]
BuildClass(k, seq) == [op |-> "BuildClass", class |-> k, seq |-> seq]
Import(path, level) == [op |-> "Import", path |-> path, relative |-> level]
Branch(t, y, n)    == [op |-> "If", test |-> t, truthy |-> y, falsey |-> n]
Br(to)             == [op |-> "Br", to |-> to]
PhiJump(recv, v)   == [op |-> "PhiJump", recv |-> recv, value |-> v]
Return(v)          == [op |-> "Return", value |-> v]
Nop                == [op |-> "Nop"]
JumpTarget         == [op |-> "JumpTarget"]
PhiRecv            == [op |-> "PhiRecv"]

-----------------------------------------------------------------------------
(* The builder: sequences of flat code, the one being extended, the value  *)
(* of what was visited last, and whether the lowering is still alive.      *)

NewFlatCode == [seqs |-> <<[kind |-> "Module", inst |-> << >>]>>, cur |-> 1, val |-> 0, ok |-> TRUE]

Insts(c) == c.seqs[c.cur].inst
Emit(c, inst) == [c EXCEPT !.seqs[c.cur].inst = Append(@, inst), !.val = Len(Insts(c)) + 1]
NextIndex(c) == Len(Insts(c)) + 1
Patch(c, i, inst) == [c EXCEPT !.seqs[c.cur].inst[i] = inst]
Valued(c, v) == [c EXCEPT !.val = v]

\* with_new_sequence: the value is the number of the sequence that Body filled.
WithNewSequence(c, kind, Body(_)) ==
  [Body([c EXCEPT !.seqs = Append(@, [kind |-> kind, inst |-> << >>]), !.cur = Len(c.seqs) + 1])
     EXCEPT !.cur = c.cur, !.val = Len(c.seqs) + 1]

-----------------------------------------------------------------------------
(* Expressions.                                                            *)

RECURSIVE VisitExpr(_, _)

\* Several expressions in order, with their values.
VisitExprs(c, es) ==
  FoldLeft(LAMBDA acc, e : Then(VisitExpr(acc.code, e), LAMBDA v :
                             [code |-> v, vals |-> Append(acc.vals, v.val)]),
           [code |-> c, vals |-> << >>], es)

\* A method of the first value, called with all of them.
CallDunder(c, d, vals) == Emit(Emit(c, GetDunder(vals[1], d)), Call(NextIndex(c), vals))

\* The test of an if statement or expression, converted with __bool__.
VisitTest(c, t) == Then(VisitExpr(c, t), LAMBDA v : CallDunder(v, "bool", <<v.val>>))

VisitTuple(c, e) == Then(VisitExprs(c, e.elems), LAMBDA vs : Emit(vs.code, Tuple(vs.vals)))

VisitCall(c, e) ==
  Then(VisitExpr(c, e.func), LAMBDA f :
  Then(VisitExprs(f, e.args), LAMBDA vs : Emit(vs.code, Call(f.val, vs.vals))))

VisitAttr(c, e) ==
  Then(VisitExpr(c, e.left), LAMBDA o :
    Emit(Emit(o, RefAsStr(e.attr)), GetAttribute(o.val, NextIndex(o))))

VisitSubscript(c, e) ==
  Then(VisitExprs(c, <<e.left, e.index>>), LAMBDA vs : CallDunder(vs.code, "getitem", vs.vals))

VisitBinOp(c, e) ==
  Then(VisitExprs(c, <<e.left, e.right>>), LAMBDA vs : CallDunder(vs.code, e.dunder, vs.vals))

VisitUnary(c, e) == Then(VisitExpr(c, e.left), LAMBDA v : CallDunder(v, e.dunder, <<v.val>>))

\* The branch on a test, the code of two values, and the receiver of the one computed: the
\* branch falls through into the first.
Joined(tested, yes, no) ==
  LET recv == NextIndex(no) + 1
  IN  Patch(Patch(Patch(Emit(Emit(no, Br(0)), PhiRecv),
                        NextIndex(tested), Branch(tested.val, 0, NextIndex(yes) + 1)),
                  NextIndex(yes), PhiJump(recv, yes.val)),
            NextIndex(no), PhiJump(recv, no.val))

\* Mutant of VisitTernary: the values are forwarded the wrong way round.
VisitTernarySwapped(c, e) ==
  Then(VisitTest(c, e.test), LAMBDA tested :
  Then(VisitExpr(Emit(Emit(tested, Nop), JumpTarget), e.orelse), LAMBDA yes :
  Then(VisitExpr(Emit(Emit(yes, Br(0)), JumpTarget), e.body), LAMBDA no : Joined(tested, yes, no))))

\* visit_ternary
VisitTernary(c, e) ==
  Then(VisitTest(c, e.test), LAMBDA tested :
  Then(VisitExpr(Emit(Emit(tested, Nop), JumpTarget), e.body), LAMBDA yes :
  Then(VisitExpr(Emit(Emit(yes, Br(0)), JumpTarget), e.orelse), LAMBDA no : Joined(tested, yes, no))))

\* The value of x := e is the one of e.
VisitNamed(c, e) ==
  Then(VisitExpr(c, e.value), LAMBDA v : Valued(Emit(v, SetVar(e.name, v.val)), v.val))

VisitExpr(c, e) ==
  CASE e.kind = "const"     -> Emit(c, Const(e.cst))
    [] e.kind = "name"      -> Emit(c, UseVar(e.name))
    [] e.kind = "tuple"     -> VisitTuple(c, e)
    [] e.kind = "call"      -> VisitCall(c, e)
    [] e.kind = "attr"      -> VisitAttr(c, e)
    [] e.kind = "subscript" -> VisitSubscript(c, e)
    [] e.kind = "binop"     -> VisitBinOp(c, e)
    [] e.kind = "unary"     -> VisitUnary(c, e)
    [] e.kind = "ternary"   -> VisitTernary(c, e)
    [] e.kind = "named"     -> VisitNamed(c, e)

-----------------------------------------------------------------------------
(* Statements.                                                             *)

VisitAssign(c, s) == Then(VisitExpr(c, s.value), LAMBDA v : Emit(v, SetVar(s.var, v.val)))

VisitAssignAttr(c, s) ==
  Then(VisitExpr(c, s.left), LAMBDA o :
  Then(VisitExpr(Emit(o, RefAsStr(s.attr)), s.value), LAMBDA v :
    Emit(v, SetAttribute(o.val, NextIndex(o), v.val))))

VisitAnnotation(c, s) == Then(VisitExpr(c, s.value), LAMBDA v : Emit(v, SetAnnotation(s.var, v.val)))

VisitReturn(c, s) == Then(VisitExpr(c, s.value), LAMBDA v : Emit(v, Return(v.val)))
VisitPass(c) == Emit(c, Nop)

\* visit_import
VisitImport(c, s) ==
  Valued(FoldLeft(LAMBDA acc, path : Emit(Emit(acc, Import(path, 0)), SetVar(path[1], NextIndex(acc))),
                  c, s.paths), 0)

VisitImportFrom(c, s) ==
  LET Bind(acc, name) ==
        Emit(Emit(Emit(acc, RefAsStr(name)), GetAttribute(NextIndex(c), NextIndex(acc))),
             SetVar(name, NextIndex(acc) + 1))
  IN  Valued(FoldLeft(Bind, Emit(c, Import(s.path, s.level)), s.names), 0)

RECURSIVE Visit(_, _)

VisitBody(c, body) == FoldLeft(LAMBDA acc, s : Then(acc, LAMBDA v : Visit(v, s)), c, body)

\* The code of a loop: up to its head, up to its test, and all of it but for its branch.
LoopHead(c) == Emit(Emit(c, Br(NextIndex(c) + 1)), JumpTarget)
LoopBody(start, test, s) ==
  Emit(Emit(VisitBody(Emit(Emit(test, Branch(test.val, 0, 0)), JumpTarget), s.body), Br(start.val)), JumpTarget)

\* Mutant of VisitWhile: the jump to the test is left out.
VisitWhileNoBranch(c, s) ==
  Then(Emit(Emit(c, JumpTarget), JumpTarget), LAMBDA start :
  Then(VisitExpr(start, s.test), LAMBDA test :
  Then(LoopBody(start, test, s), LAMBDA loop :
    Valued(Patch(loop, NextIndex(test), Branch(test.val, NextIndex(test) + 1, loop.val)), 0))))

\* Mutant of VisitWhile: the test that fails continues at its own branch.
VisitWhileNoExit(c, s) ==
  Then(LoopHead(c), LAMBDA start :
  Then(VisitExpr(start, s.test), LAMBDA test :
    Valued(Patch(LoopBody(start, test, s), NextIndex(test),
                 Branch(test.val, NextIndex(test) + 1, NextIndex(test))), 0)))

\* visit_while
VisitWhile(c, s) ==
  Then(LoopHead(c), LAMBDA start :
  Then(VisitExpr(start, s.test), LAMBDA test :
  Then(LoopBody(start, test, s), LAMBDA loop :
    Valued(Patch(loop, NextIndex(test), Branch(test.val, NextIndex(test) + 1, loop.val)), 0))))

\* visit_ifstmt, the tests of the arms: brs are the If instructions, entries the
\* places a failed test should continue at.
VisitArmTest(acc, arm) ==
  LET c == IF Insts(acc.code) = << >> THEN Emit(acc.code, JumpTarget) ELSE acc.code
  IN  Then(VisitTest(c, arm.test), LAMBDA tested :
        [acc EXCEPT !.code = Emit(tested, Branch(tested.val, 0, 0)),
                    !.brs = Append(@, NextIndex(tested)), !.entries = Append(@, Len(Insts(c)))])

\* The bodies of the arms, each ending in a branch that is patched below.
VisitArmBody(acc, arm) ==
  Then(VisitBody(Emit(acc.code, JumpTarget), arm.body), LAMBDA body :
    [acc EXCEPT !.code = Emit(body, Br(0)), !.heads = Append(@, NextIndex(acc.code)),
                !.tails = Append(@, NextIndex(body))])

\* The else body: the last test is pointed at it.
PatchElse(acc) ==
  LET br == Insts(acc.code)[Last(acc.brs)]
  IN  Patch(Emit(acc.code, JumpTarget), Last(acc.brs), [br EXCEPT !.falsey = NextIndex(acc.code)])
VisitOrElse(acc, orelse) ==
  IF orelse = << >> THEN acc
  ELSE Then(VisitBody(PatchElse(acc), orelse[1]), LAMBDA body :
         [acc EXCEPT !.code = Emit(body, Br(0)), !.tails = Append(@, NextIndex(body))])

\* Arm i is patched: the arm before it continues at this one's entry, a test that
\* succeeds at its body, one that fails after the statement, as does the body.
PatchArm(c, acc, i, after) ==
  LET linked == IF i > 1 THEN Patch(c, acc.brs[i - 1],
                                    [Insts(c)[acc.brs[i - 1]] EXCEPT !.falsey = acc.entries[i]])
                ELSE c
  IN  Patch(Patch(linked, acc.brs[i], Branch(Insts(c)[acc.brs[i]].test, acc.heads[i], after)),
            acc.tails[i], Br(after))

\* All arms, and the end of an else body.
PatchArms(acc, s) ==
  LET after == NextIndex(acc.code)
      patched == FoldLeft(LAMBDA code, i : PatchArm(code, acc, i, after),
                          Emit(acc.code, JumpTarget), [i \in 1 .. Len(s.arms) |-> i])
  IN  IF s.orelse = << >> THEN patched ELSE Patch(patched, Last(acc.tails), Br(after))

VisitIf(c, s) ==
  LET empty == [code |-> c, brs |-> << >>, entries |-> << >>, heads |-> << >>, tails |-> << >>]
  IN  Then(VisitOrElse(FoldLeft(VisitArmBody, FoldLeft(VisitArmTest, empty, s.arms), s.arms), s.orelse),
           LAMBDA all : Valued(PatchArms(all, s), 0))

\* visit_funcdef: the name is bound before the decorators are applied.
VisitFuncDef(c, s) ==
  Then(VisitExprs(c, Reverse(s.decorators)), LAMBDA decs :
  Then(VisitExprs(decs.code, FlattenSeq([i \in DOMAIN s.params |-> s.params[i].ann]) \o s.returns), LAMBDA anns :
  Then(WithNewSequence(anns.code, "Function", LAMBDA inner : VisitBody(inner, s.body)), LAMBDA body :
    LET defn == Emit(body, Defn(s.name, [i \in DOMAIN s.params |-> s.params[i].name], anns.vals, body.val))
    IN  FoldLeft(LAMBDA acc, d : Emit(acc, Call(d, <<acc.val>>)),
                 Valued(Emit(defn, SetVar(s.name, defn.val)), defn.val), decs.vals))))

\* A statement of a class body.  A method's last instruction becomes its binding,
\* an assignment is bound a second time, one to an attribute has no name to unwrap, and
\* a statement without a value has no instruction to put a span on: all three as in
\* visit_classdef, where the last two panic.
VisitMember(c, s) ==
  CASE s.kind = "funcdef" ->
         Then(VisitFuncDef(c, s), LAMBDA f : Patch(f, Len(Insts(f)), SetVar(s.name, f.val)))
    [] s.kind = "assign" -> Then(VisitAssign(c, s), LAMBDA a : Emit(a, SetVar(s.var, a.val)))
    [] s.kind = "assignattr" -> Then(VisitAssignAttr(c, s), LAMBDA a : [a EXCEPT !.ok = FALSE])
    [] OTHER -> Then(Visit(c, s), LAMBDA v : IF v.val = 0 THEN [v EXCEPT !.ok = FALSE] ELSE v)

\* visit_classdef: a docstring is set from outside the body.
Documented(s) == s.body # << >> /\ s.body[1].kind = "expr" /\ s.body[1].value.kind = "const"
                   /\ s.body[1].value.cst[1] = "str"
VisitDoc(c, s, class) ==
  IF ~Documented(s) THEN c
  ELSE Then(VisitExpr(c, s.body[1].value), LAMBDA doc : Emit(doc, SetDunder(class, "doc", doc.val)))
VisitClassDef(c, s) ==
  LET class == NextIndex(c)
      bound == Emit(Emit(c, Class(s.name)), SetVar(s.name, class))
      Members(inner) == FoldLeft(VisitMember, Emit(inner, Nop), IF Documented(s) THEN Tail(s.body) ELSE s.body)
  IN  Then(WithNewSequence(VisitDoc(bound, s, class), "Class", Members), LAMBDA body :
        Valued(Emit(body, BuildClass(class, body.val)), class))

Visit(c, s) ==
  CASE s.kind = "assign"     -> VisitAssign(c, s)
    [] s.kind = "assignattr" -> VisitAssignAttr(c, s)
    [] s.kind = "annotate"   -> VisitAnnotation(c, s)
    [] s.kind = "expr"       -> VisitExpr(c, s.value)
    [] s.kind = "return"     -> VisitReturn(c, s)
    [] s.kind = "pass"       -> VisitPass(c)
    [] s.kind = "while"      -> VisitWhile(c, s)
    [] s.kind = "if"         -> VisitIf(c, s)
    [] s.kind = "funcdef"    -> VisitFuncDef(c, s)
    [] s.kind = "classdef"   -> VisitClassDef(c, s)
    [] s.kind = "import"     -> VisitImport(c, s)
    [] s.kind = "from"       -> VisitImportFrom(c, s)

\* The sequence of a function body; all the sequences of a module.
Lower(body) == Insts(VisitBody(NewFlatCode, body))
LowerModule(body) == VisitBody(NewFlatCode, body)
=============================================================================

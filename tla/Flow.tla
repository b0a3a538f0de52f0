------------------------------- MODULE Flow -------------------------------
(***************************************************************************)
(* A run of the flat code of a function, next to the run of its source: the *)
(* instructions do what their handlers do (evaluator.rs), and `todo` is    *)
(* what Python has left to do after the events seen so far.  An event is   *)
(* the outcome of a test, an assignment, or a return.                      *)
(*                                                                         *)
(* The evaluator leaves GetDunder to be done (todo!), so a conditional is  *)
(* only ever compiled; the type checker emits nothing for it, and that is  *)
(* what it does here.  Exceptions other than return, and the bound on the  *)
(* number of instructions, are left out; so are expressions other than     *)
(* constants, names used as tests, and conditional expressions.            *)
(***************************************************************************)
EXTENDS FlatCode, Blocks

CONSTANT Program  \* the function bodies considered

VARIABLES code,
          current_inst_ix,
          frame,   \* the values of instructions
          todo,    \* the statements left, in order, or Lost
          turn,    \* flips with every event
          status

vars == <<code, current_inst_ix, frame, todo, turn, status>>

-----------------------------------------------------------------------------
(* What the source does.                                                   *)

Lost == <<[kind |-> "lost"]>>
Outcome == {"true", "false"}

\* Assignments and returns, of a constant or of a conditional expression.
Plain(s) == s.kind \in {"assign", "return"} /\ s.value.kind = "const"
Choosing(s) == s.kind \in {"assign", "return"} /\ s.value.kind = "ternary"
Tested(t, b) == <<"test", t.name, b>>

\* The statements that Python goes on with after the event e of the statement s,
\* or Lost when s has no such event.
Continue(s, e, rest) ==
  CASE Plain(s) /\ s.kind = "assign" /\ e = <<"set", s.var, s.value.cst>> -> rest
    [] Plain(s) /\ s.kind = "return" /\ e = <<"return", s.value.cst>> -> << >>
    [] Choosing(s) /\ e = Tested(s.value.test, "true") -> <<[s EXCEPT !.value = s.value.body]>> \o rest
    [] Choosing(s) /\ e = Tested(s.value.test, "false") -> <<[s EXCEPT !.value = s.value.orelse]>> \o rest
    [] s.kind = "while" /\ e = Tested(s.test, "true") -> s.body \o <<s>> \o rest
    [] s.kind = "while" /\ e = Tested(s.test, "false") -> rest
    [] s.kind = "if" /\ e = Tested(Head(s.arms).test, "true") -> Head(s.arms).body \o rest
    [] s.kind = "if" /\ e = Tested(Head(s.arms).test, "false") ->
         IF Len(s.arms) > 1 THEN <<If(Tail(s.arms), s.orelse)>> \o rest
         ELSE IF s.orelse = << >> THEN rest ELSE s.orelse[1] \o rest
    [] OTHER -> Lost

\* The source takes the event e; a pass goes unnoticed.
Left(stmts) == SelectSeq(stmts, LAMBDA s : s.kind # "pass")
After(e) == IF todo \in {<< >>, Lost} THEN Lost
            ELSE LET next == Continue(Head(todo), e, Tail(todo))
                 IN  IF next = Lost THEN Lost ELSE Left(next)

-----------------------------------------------------------------------------
(* What the flat code does.                                                *)

Init ==
  /\ \E p \in Program : code = Lower(p) /\ todo = Left(p)
  /\ current_inst_ix = 1
  /\ frame = [i \in DOMAIN code |-> "none"]
  /\ turn = FALSE
  /\ status = "run"

Inst == code[current_inst_ix]
At(op) == status = "run" /\ current_inst_ix \in DOMAIN code /\ Inst.op = op
GoTo(i) == current_inst_ix' = i /\ UNCHANGED <<code, status>>
NextInst == GoTo(current_inst_ix + 1)
Yield(v) == frame' = [frame EXCEPT ![current_inst_ix] = v]
Event(e) == todo' = After(e) /\ turn' = ~turn
NoEvent == UNCHANGED <<todo, turn>>

Quiet ==
  /\ At("Nop") \/ At("JumpTarget") \/ At("PhiRecv") \/ At("GetDunder")
  /\ NextInst /\ NoEvent /\ UNCHANGED frame

DoConst == At("Const") /\ Yield(Inst.cst) /\ NextInst /\ NoEvent

\* A name is used, which only tests do here: its truth is read.
DoUseVar ==
  /\ At("UseVar")
  /\ \E b \in Outcome : Yield(b) /\ Event(<<"test", Inst.var, b>>)
  /\ NextInst

\* __bool__ of a truth value is the value.
DoCall == At("Call") /\ Yield(frame[Inst.arguments[1]]) /\ NextInst /\ NoEvent

DoSetVar ==
  /\ At("SetVar")
  /\ Event(<<"set", Inst.var, frame[Inst.value]>>)
  /\ NextInst /\ UNCHANGED frame

\* if_: an outcome without a target falls through.
DoIf ==
  /\ At("If")
  /\ LET dst == IF frame[Inst.test] = "true" THEN Inst.truthy ELSE Inst.falsey
     IN  IF dst = 0 THEN NextInst ELSE GoTo(dst)
  /\ NoEvent /\ UNCHANGED frame

DoBr == At("Br") /\ GoTo(Inst.to) /\ NoEvent /\ UNCHANGED frame

DoPhiJump ==
  /\ At("PhiJump")
  /\ frame' = [frame EXCEPT ![Inst.recv] = frame[Inst.value]]
  /\ GoTo(Inst.recv) /\ NoEvent

DoReturn ==
  /\ At("Return")
  /\ Event(<<"return", frame[Inst.value]>>)
  /\ status' = "done"
  /\ UNCHANGED <<code, current_inst_ix, frame>>

\* exec_seq_with_frame: there is no instruction left.
FallOff ==
  /\ status = "run"
  /\ current_inst_ix \notin DOMAIN code
  /\ status' = "done"
  /\ UNCHANGED <<code, current_inst_ix, frame, todo, turn>>

Next == Quiet \/ DoConst \/ DoUseVar \/ DoCall \/ DoSetVar \/ DoIf \/ DoBr \/ DoPhiJump
          \/ DoReturn \/ FallOff

Spec == Init /\ [][Next]_vars
FairSpec == Spec /\ WF_vars(Next)

-----------------------------------------------------------------------------
\* The flat code does what the source does: every test, assignment and return is
\* the next one of the source, and when the run ends nothing is left to do.
Faithful == todo # Lost /\ (status = "done" => todo = << >>)

\* The flat code does not go round in circles: an event follows, or the end.
NoSilentLoop == \A b \in BOOLEAN : (turn = b /\ status = "run") ~> (turn # b \/ status = "done")

\* The transfers of a conditional expression: falling through into the true value
\* and the jumps to the phi.
WithinTernary == Inst.op = "PhiJump" \/ (Inst.op = "If" /\ Inst.truthy = 0)

\* Conditional expressions aside, a run moves between blocks only along edges of
\* the flow graph that the type checker and the code generator work on.
EdgesCover ==
  [][current_inst_ix' \in DOMAIN code /\ current_inst_ix # current_inst_ix' =>
       LET from == BlockOf(code, current_inst_ix)
           to == BlockOf(code, current_inst_ix')
       IN  from = to \/ <<from, to>> \in Edges(code) \/ WithinTernary]_vars

\* analyze_block asserts that the block it has analysed holds code: a run enters no
\* block that would come out empty.
BlocksHoldCode ==
  current_inst_ix \in DOMAIN code => ~EmptyBlock(code, BlockOf(code, current_inst_ix))
=============================================================================

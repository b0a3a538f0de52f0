------------------------------ MODULE MCFlow ------------------------------
(***************************************************************************)
(* Function bodies of up to two statements and a return, with compound     *)
(* statements nested two deep.                                             *)
(***************************************************************************)
EXTENDS Flow

Arm(t, body) == [test |-> Name(t), body |-> body]
Set(x, c) == Assign(x, Cst(c))
SetIf(x, t, yes, no) == Assign(x, Ternary(Name(t), Cst(yes), Cst(no)))
RetC(c) == Ret(Cst(c))

Simple == {Set("x", "c1"), Pass, RetC("c2")}
Choice == {SetIf("y", "t0", "c3", "c4")}
Bodies(S) == {<<s>> : s \in S} \cup {<<s, r>> : s \in S, r \in Simple}

Loops(t, B) == {While(Name(t), b) : b \in B}
Ifs(t, B) == {If(<<Arm(t, b)>>, << >>) : b \in B}
IfElses(t, B) == {If(<<Arm(t, b)>>, <<b2>>) : b \in B, b2 \in {<<Set("z", "c5")>>}}
IfElifs(t, B) == {If(<<Arm(t, b), Arm("t9", <<Set("z", "c5")>>)>>, << >>) : b \in B}

Flat == {<<s>> : s \in Simple}
Inner == Bodies(Simple) \cup Bodies(Loops("t1", Flat) \cup Ifs("t1", Flat))
Compound == Loops("t2", Inner) \cup Ifs("t2", Inner)
Returning(B) == {Append(b, RetC("c9")) : b \in B}
Followed(S) == {<<a, b>> : a \in S, b \in Loops("t3", Flat) \cup Ifs("t3", Flat)}

\* Loops, ifs and conditional expressions, ending in a return or an assignment.
InnerChoice == Inner \cup Bodies(Choice)
Chosen == Bodies(Choice \cup Loops("t2", InnerChoice) \cup Ifs("t2", InnerChoice))
Ending(B) == {b \in B : Last(b).kind = "assign"}
Structured == Returning(Chosen \cup Followed(Compound)) \cup Ending(Chosen)

\* With else; with elif; ending in a loop or an if.
WithElse == Returning(Bodies(IfElses("t2", Inner)))
WithElif == Returning(Bodies(IfElifs("t2", Inner)))
OpenEnded == Bodies(Compound)
=============================================================================

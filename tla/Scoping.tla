------------------------------ MODULE Scoping ------------------------------
(***************************************************************************)
(* The evaluator run on lowered modules: sessions are given as sequences   *)
(* of module bodies, and the namespaces that an evaluation leaves are      *)
(* compared with the statements they come from.                            *)
(***************************************************************************)
EXTENDS Evaluator, FlatCode

CONSTANT Programs   \* the sessions as module bodies

ASSUME LoweredAssumption ==
  Sessions = [p \in DOMAIN Programs |-> [m \in DOMAIN Programs[p] |-> LowerModule(Programs[p][m])]]

\* The names a body binds; those in the body of a loop may stay unbound.
RECURSIVE NamesIn(_)
NamesIn(e) == CASE e.kind = "named" -> {e.name} \cup NamesIn(e.value)
                [] e.kind = "call" -> NamesIn(e.func) \cup UNION {NamesIn(e.args[i]) : i \in DOMAIN e.args}
                [] OTHER -> {}
BoundBy(s) == CASE s.kind = "assign" -> {s.var} \cup NamesIn(s.value)
                [] s.kind = "expr" -> NamesIn(s.value)
                [] s.kind = "while" -> NamesIn(s.test)
                [] s.kind \in {"funcdef", "classdef"} -> {s.name}
                [] s.kind = "import" -> {s.paths[i][1] : i \in DOMAIN s.paths}
                [] s.kind = "from" -> ToSet(s.names)
                [] OTHER -> {}
Bound(body) == UNION {BoundBy(body[i]) : i \in DOMAIN body}
Looped(body) == UNION {Bound(body[i].body) : i \in {i \in DOMAIN body : body[i].kind = "while"}}

\* A module that was evaluated has the names of its own statements and those of builtins, and
\* no other: what functions and class bodies bind stays inside them, and each class has
\* exactly the names of its own body (run_until_complete, class and build_class).
ScopesExact ==
  \A m \in 1 .. Len(modules) : (m < Len(modules) \/ state = "idle") =>
    LET body == Programs[program][m]
        names == DOMAIN rt.objects[modules[m]].dict
        copied == IF m = 1 THEN {} ELSE DOMAIN rt.objects[builtins].dict
        Kept(i) == body[i].kind = "classdef" /\ \A j \in i + 1 .. Len(body) : body[i].name \notin BoundBy(body[j])
    IN  /\ Bound(body) \cup copied \subseteq names
        /\ names \subseteq Bound(body) \cup copied \cup Looped(body)
        /\ \A i \in DOMAIN body : Kept(i) =>
             DOMAIN rt.objects[Attr(rt, modules[m], body[i].name)].dict \ {"__doc__"} = Bound(body[i].body)
=============================================================================

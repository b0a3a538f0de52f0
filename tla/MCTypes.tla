------------------------------ MODULE MCTypes ------------------------------
(***************************************************************************)
(* An int, a class, a method and a list of several types.                  *)
(***************************************************************************)
EXTENDS Types

MCValue == {"one", "Foo", "eq", "list"}
MCDescribe ==
  [one |-> ObjectOf("Int"), Foo |-> ClassValue,
   eq |-> FuncOf(<<Builtin("TSelf"), InstanceKind("Foo")>>, Builtin("Bool")),
   list |-> ListOf(<<"one", "Foo", "one">>)]
MCAttribute == {"eq", "ne"}
MCEntry == {<<"eq", "eq">>, <<"eq", "one">>}
=============================================================================

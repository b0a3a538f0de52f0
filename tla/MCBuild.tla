------------------------------ MODULE MCBuild ------------------------------
(***************************************************************************)
(* Builds of programs with three functions f1 (the entry), f2 and f3 in    *)
(* the input, a method `add` of builtins.py and a native object of         *)
(* import::setup.  Call graphs have self and mutual recursion, diamonds    *)
(* and functions that nothing calls; a function may hold another one.      *)
(***************************************************************************)
EXTENDS Build

CONSTANTS f1, f2, f3, add, sys, loader, builtins, bootstrap, main

Owner == [o \in Object |-> CASE o \in {add, sys} -> builtins [] o = loader -> Setup [] OTHER -> main]

Calling(a, b, c) == [o \in Object |-> CASE o = f1 -> a [] o = f2 -> b [] o = f3 -> c [] OTHER -> {}]
Uses == {Calling(a, b, c) : a \in SUBSET {f2, f3, add}, b \in SUBSET {f1, f2, f3, add},
                            c \in SUBSET {f1, f2, f3}}

KindOf(o, k) == [x \in Object |-> CASE x = loader -> "untyped" [] x = sys -> "other" [] x = o -> k
                             [] OTHER -> "callable"]
Kinds == {KindOf(f3, "callable"), KindOf(f3, "other"), KindOf(f3, "untyped"), KindOf(f1, "other")}

Holds(S) == [t \in Thing |-> CASE t = main -> {f1, f2, f3} [] t = builtins -> {add, sys}
                               [] t = f2 -> S [] OTHER -> {}]
Patch == [t \in Thing |-> CASE t = bootstrap -> {loader} [] t = sys -> {bootstrap, loader}
                           [] OTHER -> {}]

Programs ==
  {[owner |-> Owner, kind |-> k, holds |-> Holds(IF add \in u[f1] THEN {f3} ELSE {main}),
    patch |-> Patch, uses |-> u] : u \in Uses, k \in Kinds}

\* Foreign functions have names of their own, or all of them the one of malloc.
OwnSymbol == [o \in Object |-> ToString(o)]
SharedSymbol == [o \in Object |-> "malloc"]
Symbols == {"malloc", "main"} \cup {ToString(o) : o \in Object}
=============================================================================

----------------------------- MODULE MCSession -----------------------------
(***************************************************************************)
(* Every order of the session's queries, over programs with two functions  *)
(* in the input, one in a second module and a method of builtins.py.       *)
(***************************************************************************)
EXTENDS Session

CONSTANTS f, g, h, add, sys, loader, builtins, bootstrap, main, aux

Owner == [o \in Object |-> CASE o \in {add, sys} -> builtins [] o = loader -> Setup
                             [] o = h -> aux [] OTHER -> main]
Calling(a, b, c) == [o \in Object |-> CASE o = f -> a [] o = g -> b [] o = h -> c [] OTHER -> {}]
Uses == {Calling(a, b, c) : a \in {{g}, {f, g, add}}, b \in {{}, {f}, {add}}, c \in {{}, {h, add}}}
Kinds == {[o \in Object |-> CASE o = loader -> "untyped" [] o = sys -> "other" [] o = g -> k [] OTHER -> "callable"] :
            k \in Kind}
Holds == [t \in Thing |-> CASE t = main -> {f, g} [] t = builtins -> {add, sys} [] t = aux -> {h}
                            [] t = f -> {main} [] OTHER -> {}]
Patch == [t \in Thing |-> CASE t = bootstrap -> {loader} [] t = sys -> {bootstrap, loader}
                           [] OTHER -> {}]

Programs == {[owner |-> Owner, kind |-> k, holds |-> Holds, patch |-> Patch, uses |-> u] :
               u \in Uses, k \in Kinds}
=============================================================================

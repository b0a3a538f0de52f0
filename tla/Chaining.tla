------------------------------ MODULE Chaining ------------------------------
(***************************************************************************)
(* One step after the other, for code that is a sequence of assignments.   *)
(***************************************************************************)

\* F of v, which is made once however often F uses it.
Then(v, F(_)) == CHOOSE w \in {F(u) : u \in {v}} : TRUE
=============================================================================

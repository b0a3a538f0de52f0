------------------------------ MODULE MCImport ------------------------------
(***************************************************************************)
(* Two directories, one of which is the working directory and has another  *)
(* name; two modules.                                                      *)
(***************************************************************************)
EXTENDS Import

MCCanonical == [a |-> "A", link |-> "A", b |-> "B"]
MCSysPaths == {<<"b", "", "a">>, <<"link", "", "b">>, << >>}
MCPaths == {<<"m">>, <<"__monty">>, <<"importlib", "m">>, <<"importlib", "boot">>,
            <<"m", "n">>, <<"importlib", "m", "n">>}
MCSysModules == {<<"importlib">>, <<"importlib", "boot">>}
=============================================================================

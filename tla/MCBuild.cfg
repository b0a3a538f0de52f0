SPECIFICATION FairBuildSpec
CONSTANTS
  f1 = f1
  f2 = f2
  f3 = f3
  add = add
  sys = sys
  loader = loader
  builtins = builtins
  bootstrap = bootstrap
  main = main
  Setup = setup
  Module = {builtins, bootstrap, main}
  Builtins = builtins
  Bootstrap = bootstrap
  Main = main
  Object = {f1, f2, f3, add, sys, loader}
  Program <- Programs
  Entry = f1
  Extern = {f3}
  Stub = {add}
  Symbol <- Symbols
  SymbolOf <- OwnSymbol
  Malloc = "malloc"
  MainSymbol = "main"
INVARIANTS BuildTypeOK CallGraphExact FidsResolve NumbersAgree
PROPERTIES BuildEnds CallGraphIsSearch
CHECK_DEADLOCK FALSE

SPECIFICATION FairSpec
CONSTANTS
  f = f
  g = g
  h = h
  add = add
  sys = sys
  loader = loader
  builtins = builtins
  bootstrap = bootstrap
  main = main
  aux = aux
  Setup = setup
  Module = {builtins, bootstrap, main, aux}
  Builtins = builtins
  Bootstrap = bootstrap
  Main = main
  Object = {f, g, h, add, sys, loader}
  Program <- Programs
INVARIANTS MirrorComplete MirrorClosed CollectsOnlyReachable
PROPERTY CallGraphTerminates
CHECK_DEADLOCK FALSE

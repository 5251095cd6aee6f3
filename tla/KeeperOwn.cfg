SPECIFICATION Spec
SYMMETRY AnyName
CONSTANTS
  r1 = r1
  r2 = r2
  h1 = h1
  h2 = h2
  root = root
  repl = repl
  Runs = {r1, r2}
  Servers = {h1, h2}
  Fleet <- MCFleet
  Names = {root, repl}
  Earlier = {e1}
  None = None
  Concurrent = FALSE
  ReadsFail = FALSE
  WritesFail = FALSE
  MaxLeft = 1
INVARIANT
  EachServerKeepsItsOwn

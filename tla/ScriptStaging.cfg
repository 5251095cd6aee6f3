SPECIFICATION Spec
CHECK_DEADLOCK FALSE
CONSTANTS
  a = a
  b = b
  Runs = {a, b}
  Last <- MCLast
  Malformed <- MCMalformed
  Nothing = Nothing
  Overlap = FALSE
INVARIANTS
  TypeOK
  StrayIsReported
  NoneOfItRan
  LastWriteStands
  KeptPrivate

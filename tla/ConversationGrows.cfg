CONSTANTS
  Windows = {4096, 8192, 9000}
  KeepFull = 2
  SystemChars = 6000
  ReplySizes = {300, 410, 4500}
  Results <- MCResults
  NoteSizes = {1700, 5000}
  MaxTurns = 4
SPECIFICATION Spec
CHECK_DEADLOCK FALSE
PROPERTY
  CutIsShorter

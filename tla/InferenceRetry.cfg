SPECIFICATION RequestSpec
CONSTANTS
  Budget = 5
  MinPause = 2
  Backoff <- MCBackoff
  RetryAfters = {0, 3, 9}
  Complaints <- MCComplaints
  MaxGarbled = 2
INVARIANTS
  TypeOK
  LoopNeverRunsOut
  BudgetDecides
  OnlyRefusedDropped

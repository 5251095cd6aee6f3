SPECIFICATION Spec
CONSTANTS
  h1 = h1
  h2 = h2
  all = all
  select = select
  drop = drop
  wipe = wipe
  Hosts = {h1, h2}
  AllHosts = all
  Commands = {select, drop, wipe}
  Verdict <- MCVerdict
  Standing = {select}
  VerifySets <- MCVerifySets
  MaxSteps = 2
  MaxProtocolRetries = 1
  MaxDoneRejections = 1
  MaxFailures = 2
  MaxRejections = 2
  MaxCost = 1
  ReplyCosts = {0, 2}
  MaxReplyCost = 2
  Options <- EveryMode
INVARIANTS
  RanWithPermission
  DoneIsProven
  SpendOvershoot
PROPERTY
  KeepsContract

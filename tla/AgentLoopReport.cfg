SPECIFICATION Spec
CONSTANTS
  h1 = h1
  h2 = h2
  all = all
  select = select
  drop = drop
  wipe = wipe
  Hosts = {h1}
  AllHosts = all
  Commands = {select, drop, wipe}
  Verdict <- MCVerdict
  Standing = {select}
  VerifySets <- MCVerifySets
  MaxSteps = 2
  MaxProtocolRetries = 1
  MaxDoneRejections = 1
  MaxFailures = 2
  MaxRejections = 3
  MaxCost = 0
  ReplyCosts = {0}
  MaxReplyCost = 0
  Options <- InteractiveOnly
INVARIANT
  EveryStepInReport

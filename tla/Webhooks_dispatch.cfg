CONSTANTS
  h1 = h1  h2 = h2  e1 = e1  r1 = r1  r2 = r2
  Hooks = {h1, h2}
  NoHook = NoHook
  Events = {e1}
  Replays = {r1, r2}
  MaxAttempts = 2
  Limit = 2
  MaxFaults = 1
  MaxSwitches = 1
SPECIFICATION FairSpec
INVARIANTS TypeOK SuspensionIsEarned LogTellsTheTruth
PROPERTIES EveryHookIsServed
CHECK_DEADLOCK FALSE

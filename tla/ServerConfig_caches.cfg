CONSTANTS
  c1 = c1  c2 = c2  p1 = p1  p2 = p2  r1 = r1  r2 = r2
  Configs = {c1, c2}
  First = c1
  Procs = {p1, p2}
  Requests = {r1, r2}
  Proc <- EachItsOwn
  Lifetime = 2
  MaxEdits = 2
  MaxFaults = 1
  NoRow = NoRow
  NoCopy = NoCopy
SPECIFICATION FairSpec
INVARIANTS EditsShow TwoLifetimesAtMost OneDefault
PROPERTIES EditsTakeEffect
CHECK_DEADLOCK FALSE

CONSTANTS
  t1 = t1  t2 = t2  c1 = c1  c2 = c2
  Tabs = {t1}
  Calls = {c1}
  Closed = Closed
  MaxPairs = 2
SPECIFICATION FairSpec
PROPERTIES FormIsReached
CHECK_DEADLOCK FALSE

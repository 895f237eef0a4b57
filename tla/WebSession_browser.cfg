CONSTANTS
  t1 = t1  t2 = t2  c1 = c1  c2 = c2
  Tabs = {t1}
  Calls = {c1, c2}
  Closed = Closed
  MaxPairs = 3
SPECIFICATION FairSpec
INVARIANTS TypeOK StoredIsUsable SignedOutIsOut
PROPERTIES DeadSessionIsLeft
CHECK_DEADLOCK FALSE

CONSTANTS
  i1 = i1  i2 = i2  m1 = m1  p1 = p1  p2 = p2
  Items = {i1, i2}
  Processors = {p1, p2}
  Mailboxes = {m1}
  Owner <- OneOwner
  Priority <- UrgentAndBulk
  MaxRetries = 3
  BatchSize = 1
  MaxFaults = 0
  MaxRevivals = 0
SPECIFICATION Spec
INVARIANTS ThreeRetries
CHECK_DEADLOCK FALSE

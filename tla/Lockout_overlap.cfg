CONSTANTS
  a1 = a1  a2 = a2
  Tries = {a1, a2}
  Threshold = 2
  Window = 3
  Duration = 2
  MaxTime = 5
  MaxWrongs = 4
SPECIFICATION Spec
SYMMETRY Attempts
INVARIANTS LockIsEarned LockStopsAttempts CountIsExact
CHECK_DEADLOCK FALSE

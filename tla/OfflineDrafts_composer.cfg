CONSTANTS
  file = file  t1 = t1  t2 = t2  t3 = t3
  Tasks = {t1, t2}
  Files = {file}
  NoDraft = NoDraft
  NoFile = NoFile
  MaxEdits = 2
  MaxSaves = 1
  MaxReloads = 1
SPECIFICATION DraftFairSpec
INVARIANTS DraftTypeOK SyncedIsOnServer RowIsWhatIsShown
PROPERTIES DirtyIsFlushed
CHECK_DEADLOCK FALSE

CONSTANTS
  e1 = e1  f1 = f1  s1 = s1  s2 = s2
  Emails = {e1}
  NoEmail = NoEmail
  Files = {f1}
  Wanted <- OneFile
  Schedulers = {s1, s2}
  BatchLimit = 1
  MaxFaults = 3
SPECIFICATION FairSpec
INVARIANTS UndoneInTimeIsNeverSent CopiesAreAccountedFor InfectedOnlyByRace
PROPERTIES OnlyHoldersOverwrite AnsweredEmailsAreWhole DueEmailsEnd
CHECK_DEADLOCK FALSE

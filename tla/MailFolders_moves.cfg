CONSTANTS
  inbox = inbox  trash = trash  other = other
  m1 = m1  m2 = m2  r1 = r1  r2 = r2
  Folders = {inbox, trash, other}
  Inbox = inbox
  Trash = trash
  Protected = {inbox}
  Messages = {m1, m2}
  Requests = {r1, r2}
  MaxRequests = 3
  MaxCopies = 2
  PageSize = 2
SYMMETRY Symmetry
SPECIFICATION Spec
INVARIANTS NothingLost MovesKeepOneCopy PagesCover
PROPERTIES NoBystanders
CHECK_DEADLOCK FALSE

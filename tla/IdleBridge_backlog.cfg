CONSTANTS
  inbox = inbox  archive = archive
  Folders = {inbox, archive}
  NoFolder = NoFolder
  MaxIdle = 2
  ChannelBuffer = 2
  MaxMail = 1
  MaxArrivals = 1
SPECIFICATION FairSpec
PROPERTIES BacklogIsDrained
CHECK_DEADLOCK FALSE

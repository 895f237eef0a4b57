CONSTANTS
  inbox = inbox  archive = archive
  Folders = {inbox, archive}
  NoFolder = NoFolder
  MaxIdle = 2
  ChannelBuffer = 1
  MaxMail = 1
  MaxArrivals = 1
SPECIFICATION FairSpec
INVARIANTS TypeOK NeverAnnouncedTwice TasksAreSubscribed
PROPERTIES ClosesOrIsStuck
CHECK_DEADLOCK FALSE

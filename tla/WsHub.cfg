SPECIFICATION FairSpec
CONSTANTS
  Sessions = {s1, s2}
  BufferSize = 1
  MaxMessages = 2
CHECK_DEADLOCK FALSE
INVARIANTS TypeOK NothingLeaks NothingMissed
PROPERTIES Broadcasts LeaversForgotten MessagesArrive

SPECIFICATION FairSpec
CONSTANTS
  c1 = c1
  c2 = c2
  Client <- Clients
  Server = server
  NULL = NULL
  Long = 8
  InitSeqno <- Draws
  Numbers <- Segments
  MaxNumClients = 2
  QueueLen = 2
  MaxSent = 1
  MaxStarts = 4
INVARIANTS TypeOK SetupAgrees SetupInv SessionInv HandedAsSent OnlyAcksAreSwallowed
PROPERTIES SetupEnds
CHECK_DEADLOCK FALSE

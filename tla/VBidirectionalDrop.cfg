SPECIFICATION FairSpec
CONSTANTS
  Client = client
  Server = server
  NULL = NULL
  Input <- TwoWay21
  Eof <- NoEof
  MSS = 1
  BufSpace = 4
  QueueLen = 6
  Faults <- ClientDrops
  MaxFaults = 1
  SlowStdout = FALSE
  StdoutErr = FALSE
  Timer = 1
  RtTimeout = 2
  Retries = 2
  WaitFactor = 2
  MaxSeqno = 6
  MaxOut = 3
  Timely = TRUE
PROPERTIES Delivered
CHECK_DEADLOCK FALSE

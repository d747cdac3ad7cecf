SPECIFICATION FairSpec
CONSTANTS
  Client = client
  Server = server
  NULL = NULL
  Input <- OneWay4
  Eof <- ClientEof
  MSS = 2
  BufSpace = 4
  QueueLen = 6
  Faults <- AllFaults
  MaxFaults = 1
  SlowStdout = FALSE
  StdoutErr = FALSE
  Timer = 1
  RtTimeout = 2
  Retries = 3
  WaitFactor = 3
  MaxSeqno = 6
  MaxOut = 3
  Timely = TRUE
PROPERTIES Delivered Closed
CHECK_DEADLOCK FALSE

SPECIFICATION FairSpec
CONSTANTS
  Client = client
  Server = server
  NULL = NULL
  Input <- OneWay4
  Eof <- ClientEof
  MSS = 2
  BufSpace = 4
  QueueLen = 6
  Faults <- Lossy
  MaxFaults = 3
  SlowStdout = FALSE
  StdoutErr = FALSE
  Timer = 1
  RtTimeout = 2
  Retries = 4
  WaitFactor = 3
  MaxSeqno = 6
  MaxOut = 3
  Timely = TRUE
INVARIANTS OutputIsPrefix OneSegmentAhead RepairInv GivenUpInTime FewUnderWay
PROPERTIES AckedIsPrinted Delivered
CHECK_DEADLOCK FALSE

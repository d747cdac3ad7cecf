SPECIFICATION FairSpec
CONSTANTS
  Client = client
  Server = server
  NULL = NULL
  Input <- TwoWay2
  Eof <- BothEof
  MSS = 1
  BufSpace = 4
  QueueLen = 25
  Faults <- NoFaults
  MaxFaults = 0
  SlowStdout = FALSE
  StdoutErr = FALSE
  Timer = 1
  RtTimeout = 1
  Retries = 2
  WaitFactor = 1
  MaxSeqno = 6
  MaxOut = 3
  Timely = FALSE
INVARIANTS OutputIsPrefix CompleteAtEof FifoInv NoLoss
PROPERTIES Resolved
CHECK_DEADLOCK FALSE

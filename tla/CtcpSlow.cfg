SPECIFICATION Spec
CONSTANTS
  Client = client
  Server = server
  NULL = NULL
  Input <- OneWay4
  Eof <- ClientEof
  MSS = 2
  BufSpace = 3
  QueueLen = 2
  Faults <- DropDup
  MaxFaults = 1
  SlowStdout = TRUE
  StdoutErr = TRUE
  Timer = 1
  RtTimeout = 1
  Retries = 2
  WaitFactor = 1
  MaxSeqno = 6
  MaxOut = 4
  Timely = TRUE
INVARIANTS StreamInv QueueFits
CHECK_DEADLOCK FALSE

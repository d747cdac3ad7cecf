SPECIFICATION Spec
CONSTANTS
  Client = client
  Server = server
  NULL = NULL
  Input <- OneWay4
  Eof <- ClientEof
  MSS = 2
  BufSpace = 3
  QueueLen = 6
  Faults <- NoFaults
  MaxFaults = 0
  SlowStdout = TRUE
  StdoutErr = FALSE
  Timer = 1
  RtTimeout = 2
  Retries = 2
  WaitFactor = 2
  MaxSeqno = 6
  MaxOut = 3
  Timely = TRUE
INVARIANTS OutputFindsSegment
CHECK_DEADLOCK FALSE

SPECIFICATION Spec
CONSTANTS
  Client = client
  Server = server
  NULL = NULL
  Input <- TwoWay21
  Eof <- ClientEof
  MSS = 1
  BufSpace = 4
  QueueLen = 2
  Faults <- AllFaults
  MaxFaults = 2
  SlowStdout = FALSE
  StdoutErr = FALSE
  Timer = 1
  RtTimeout = 1
  Retries = 2
  WaitFactor = 1
  MaxSeqno = 6
  MaxOut = 3
  Timely = FALSE
INVARIANTS TypeOK InOrderOnce StreamInv
PROPERTIES ImplementsStream TrafficDiesDown
CHECK_DEADLOCK FALSE

SPECIFICATION Spec
CONSTANTS
  B = 128
  Seqno <- SmallAndLast
  Ackno <- SmallAndLast
  InitSeqno <- Ends
  Address <- Addresses
  Data <- Payloads
INVARIANTS TypeOK SumsToAllOnes Arrives FlipIsDetected WireAgrees
CHECK_DEADLOCK FALSE

SPECIFICATION Spec
CONSTANTS
  MaxClients = 3
  Wait = 2
INVARIANTS TypeOK TimerOnLive LoopOnLive ServerInv

SPECIFICATION FairSpec
CONSTANTS
  MaxClients = 2
  Wait = 2
PROPERTIES TimerReturns

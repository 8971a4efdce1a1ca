SPECIFICATION FairSpec
CONSTANTS
  Modes <- BothModes
  MaxId = 3
  MaxRequests = 2
INVARIANTS
  ExitZeroMeansSuccess
  
  RelayIsFaithful
PROPERTY
  SupervisorExits

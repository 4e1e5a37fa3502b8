SPECIFICATION FairSpec
CONSTANT MaxTries = 10
INVARIANTS
  TypeOK
  EarlyExitIsConnected
PROPERTY Returns

SPECIFICATION FairSpec
CONSTANTS
  TLSModes = {TRUE, FALSE}
  MaxSigints = 1
  MaxSigintsTLS = 0
INVARIANTS
  TypeOK
  OutputNeverParks
  CommandsFollowOutput
PROPERTIES
  KeepsContract
  ShutdownReachesEnd
  AbandonedSessionEnds

SPECIFICATION FairSpec
CONSTANTS
  TLSModes = {TRUE, FALSE}
  FrameSize = 2
  Capacity = 5
  MaxBytes = 5
INVARIANTS
  TypeOK
  InOrder
  Lossless
PROPERTIES
  EverythingArrives

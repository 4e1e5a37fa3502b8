SPECIFICATION FairSpec
CONSTANTS
  TLSModes = {TRUE, FALSE}
  Room = 3
INVARIANTS
  TypeOK
  OnlyKnownClientsCommand
PROPERTIES
  HandshakeSettles
  RefusedSessionEnds
  ClientsEndIsNoticed
  TypistLeaves

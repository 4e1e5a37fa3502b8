SPECIFICATION FairSpec
CONSTANTS
  Clients = {c1, c2, c3}
  Backlog = 2
  MaxErrors = 1
  None = None
INVARIANTS
  TypeOK
  DescriptorHygiene
  OneSessionPerConnection
  PortReleased
PROPERTIES
  QueuedIsServed
  ShutdownCloses
  ConnectionFreed

SPECIFICATION FairSpec
CONSTANTS
  TLSModes = {TRUE, FALSE}
  MaxSigints = 1
INVARIANTS
  TypeOK
  TerminalRestored
  TypingFollowsPrinter
  PrinterLastsWhileAlive
PROPERTIES
  KeepsContract
  StartUpCompletes
  ShutdownReachesEnd

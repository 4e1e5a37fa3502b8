SPECIFICATION Spec
CONSTANTS
  TLSModes = {FALSE}
  MaxSigints = 0
  MaxSigintsTLS = 0
PROPERTY JoinsOnlineThreads

SPECIFICATION FairSpec
CONSTANTS
  TLSModes = {FALSE}
  MaxSigints = 0
PROPERTY CtrlDLeaves

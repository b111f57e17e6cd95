CONSTANTS
  SzBufInCmd = 4
  CntDelayMin = 1
SPECIFICATION Spec
PROPERTIES
  RepliesAreSent

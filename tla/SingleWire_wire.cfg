CONSTANTS
  SzBufInCmd = 4
  CntDelayMin = 1
SPECIFICATION Spec
INVARIANTS
  TypeOK
  DataTxNotNull
  SentIsValid

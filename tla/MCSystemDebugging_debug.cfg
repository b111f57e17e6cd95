CONSTANTS
  p = p
  q = q
  l = l
  m = m
  Conns = {p, q, l, m}
  Kind <- ConnKinds
  Fam <- ConnFams
  MaxConn <- OneQueued
  CntSkipMax = 1
  MayFail <- CmdMayFail
  Stalls = {q}
  Runs <- Small
SPECIFICATION FairSpec
INVARIANTS
  TypeOK
  NothingLeftOpen
  NoEntryIsLost
PROPERTIES
  TreeReachesPeers
  LeaverIsClosed

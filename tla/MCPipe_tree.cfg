CONSTANTS
  s = s
  k = k
  n = n
  j = j
  Pipes = {s, k, n, j}
  Source = s
  Wired <- TreeWired
  Late <- TreeLate
  Readers = {k, j}
  Quitters = {k}
  Blocking = {s}
  SizeMax <- TreeSize
  NumParticles = 3
SPECIFICATION FairSpec
INVARIANTS
  TypeOK
  NothingIsLost
  EndIsComplete
  InOrder
PROPERTIES
  EveryReaderEnds

CONSTANTS
  p = p
  k = k
  j = j
  main = main
  worker = worker
  NoPipe = NoPipe
  Threads = {main, worker}
  Pipes = {p, k, j}
  Feeds <- OneFeed
  Wires <- WiredByOwners
  Pushes <- PushedByNobody
SPECIFICATION FairSpec
PROPERTIES
  EveryOperationEnds
CHECK_DEADLOCK FALSE

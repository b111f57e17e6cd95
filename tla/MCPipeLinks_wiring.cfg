CONSTANTS
  p = p
  k = k
  j = j
  main = main
  worker = worker
  NoPipe = NoPipe
  Threads = {main, worker}
  Pipes = {p, k, j}
  Feeds <- AllFeeds
  Wires <- WiredByMain
  Pushes <- PushedByWorker
SPECIFICATION FairSpec
INVARIANTS
  TypeOK
  LinksAgree
  NoDanglingLink
PROPERTIES
  EveryOperationEnds
CHECK_DEADLOCK FALSE

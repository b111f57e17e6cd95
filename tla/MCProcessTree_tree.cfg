CONSTANTS
  r = r
  a = a
  b = b
  None = None
  Proc = {r, a, b}
  Root = r
  Parent <- ChainParent
  Viewer = r
  NoProc = None
  StartModes <- ChainStartModes
  Results <- ChainResults
  Uses <- ChainUses
  NumBurst = 1
SPECIFICATION FairSpec
INVARIANTS
  TypeOK
  NoUseAfterDelete
  OneDriver
  UndrivenIsAtRest
  NoStrandedChild
  SkippedShutdownStartedNothing
PROPERTIES
  RequestsAreKept
  ImplementsScopedLifetimes
  CloseCompletes
  UnusedIsDeleted

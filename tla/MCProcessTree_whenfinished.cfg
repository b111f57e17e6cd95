CONSTANTS
  r = r
  a = a
  b = b
  None = None
  Proc = {r, a}
  Root = r
  Parent <- PairParent
  Viewer = None
  NoProc = None
  StartModes <- PairStartModes
  Results <- PairResults
  Uses <- PairUses
  NumBurst = 2
SPECIFICATION FairSpec
PROPERTIES
  WhenFinishedIsRepelled

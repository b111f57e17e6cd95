CONSTANTS
  MaxBytes = 2
  MaxOut = 3
  MaxRoom = 2
SPECIFICATION FairSpec
INVARIANTS
  TypeOK
  SocketIsOwn
  EndMeansAllRead
  ErrorIsTold
  SendReportIsExact
  SendReadyMeansConnected
PROPERTIES
  ImplementsTransfering
  PeerEndIsSeen

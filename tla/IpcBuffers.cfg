SPECIFICATION Spec
CONSTANTS
  Window = 2
  MaxSeq = 3
  Notifiers <- OneNotifier
  PeerFrames <- MixedFrames
  Msgs <- AllMsgs
  ReplyTimesOut = TRUE
  None = None
INVARIANTS
  CopyIsPrivate
PROPERTIES
  TxInOrder
  RxInOrder

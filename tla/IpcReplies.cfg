SPECIFICATION FairSpec
CONSTANTS
  Window = 2
  MaxSeq = 3
  Notifiers <- OneNotifier
  PeerFrames <- OneRequest
  Msgs <- AllMsgs
  ReplyTimesOut = FALSE
  None = None
INVARIANTS
  SeqnumsDistinct
PROPERTIES
  RequestAnswered

SPECIFICATION FairSpec
CONSTANTS
  Tasks = {t1, t2}
  Bits <- MCBits
  Requests <- FewRequests
  NoRequest = NoRequest
  NoTask = NoTask
INVARIANT CopyIsRegister
PROPERTIES
  AtomicOutputs
  SemaphoreComesBack
